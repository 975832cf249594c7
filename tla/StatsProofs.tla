---------------------------- MODULE StatsProofs -----------------------------
(***************************************************************************)
(* Proofs about Stats, for any tools, any categories of errors and any     *)
(* number of tests: its types, that the tables add up (TablesAlwaysAddUp), *)
(* that the metrics agree (MetricsAlwaysAgree), that the times are those   *)
(* that were added up (TimesAreShown) and, up to as many tests as the      *)
(* search allows for, that the best is the best (BestIsAlwaysBest); and    *)
(* for which results the search for the best fails (WhenTheSearchFails).   *)
(***************************************************************************)
EXTENDS Stats, MetricsProofs, FiniteSetTheorems, TLAPS

(***************************************************************************)
(* Sums over a finite set.  The induction is on a least subset for which   *)
(* the claim does not hold.                                                *)
(***************************************************************************)
LEMMA LeastSubset ==
  ASSUME NEW S, IsFiniteSet(S), NEW B \in SUBSET (SUBSET S), B # {}
  PROVE  \E s \in B : \A u \in SUBSET s : u # s => u \notin B
<1>1. IsWellFoundedOn(StrictSubsetOrdering(S), SUBSET S)
  BY FS_StrictSubsetOrderingWellFounded, FS_FiniteSubsetsOfFinite
<1>2. PICK s \in B : \A u \in B : ~ (<<u, s>> \in StrictSubsetOrdering(S))
  BY <1>1, WFMin
<1>3. ASSUME NEW u \in SUBSET s, u # s, u \in B PROVE FALSE
  <2>1. <<u, s>> \in StrictSubsetOrdering(S)
    BY <1>3 DEF StrictSubsetOrdering
  <2> QED BY <1>2, <1>3, <2>1
<1> QED BY <1>2, <1>3

\* The element that SumFunction takes first.
First(s) == CHOOSE x \in s : TRUE

LEMMA FirstIsElement ==
  ASSUME NEW s, s # {}
  PROVE  First(s) \in s
  BY DEF First

\* What SumFunction chooses: the sums of g over the subsets of its domain.
IsSums(f, g) ==
  f = [s \in SUBSET DOMAIN g |->
         IF s = {} THEN 0 ELSE g[First(s)] + f[s \ {First(s)}]]

\* The sums that do not depend on the order of the elements.
AnyOrder(f, g, T) ==
  /\ f \in [SUBSET T -> Nat]
  /\ f[{}] = 0
  /\ \A s \in SUBSET T : \A x \in s : f[s] = g[x] + f[s \ {x}]

LEMMA AnyOrderExists ==
  ASSUME NEW S, IsFiniteSet(S), NEW g \in [S -> Nat]
  PROVE  \E f : AnyOrder(f, g, S)
<1> DEFINE B == {T \in SUBSET S : ~ \E f : AnyOrder(f, g, T)}
<1> SUFFICES ASSUME B # {} PROVE FALSE
  OBVIOUS
<1>0. B \in SUBSET (SUBSET S)
  OBVIOUS
<1>1. PICK T \in B : \A u \in SUBSET T : u # T => u \notin B
  <2> HIDE DEF B
  <2> QED BY <1>0, LeastSubset
<1>2. CASE T = {}
  <2>1. AnyOrder([s \in SUBSET T |-> 0], g, T)
    BY <1>2 DEF AnyOrder
  <2> QED BY <1>1, <2>1
<1>3. CASE T # {}
  <2>1. PICK y \in T : TRUE
    BY <1>3
  <2>2. PICK h : AnyOrder(h, g, T \ {y})
    BY <1>1, <2>1
  <2> DEFINE f == [s \in SUBSET T |-> h[s \ {y}] + (IF y \in s THEN g[y] ELSE 0)]
  <2>3. /\ \A s \in SUBSET T : s \ {y} \in SUBSET (T \ {y})
        /\ \A s \in SUBSET (T \ {y}) : h[s] \in Nat
        /\ g[y] \in Nat /\ \A x \in T : g[x] \in Nat
    BY <2>1, <2>2 DEF AnyOrder
  <2>4. f \in [SUBSET T -> Nat]
    BY <2>3
  <2>5. f[{}] = 0
    <3>1. f[{}] = h[{} \ {y}] + 0
      OBVIOUS
    <3>2. {} \ {y} = {}
      OBVIOUS
    <3> QED BY <2>2, <3>1, <3>2 DEF AnyOrder
  <2>6. ASSUME NEW s \in SUBSET T, NEW x \in s PROVE f[s] = g[x] + f[s \ {x}]
    <3>1. /\ f[s] = h[s \ {y}] + (IF y \in s THEN g[y] ELSE 0)
          /\ f[s \ {x}] = h[(s \ {x}) \ {y}] + (IF y \in s \ {x} THEN g[y] ELSE 0)
      OBVIOUS
    <3>2. h[s \ {y}] \in Nat /\ h[(s \ {x}) \ {y}] \in Nat /\ g[x] \in Nat /\ g[y] \in Nat
      BY <2>3
    <3> HIDE DEF f
    <3>3. CASE x = y
      <4>1. (s \ {x}) \ {y} = s \ {y}
        BY <3>3
      <4> QED BY <3>1, <3>2, <3>3, <4>1
    <3>4. CASE x # y
      <4>1. (s \ {x}) \ {y} = (s \ {y}) \ {x} /\ x \in s \ {y}
        BY <3>4
      <4>2. h[s \ {y}] = g[x] + h[(s \ {y}) \ {x}]
        BY <2>2, <2>3, <4>1 DEF AnyOrder
      <4>3. h[s \ {y}] = g[x] + h[(s \ {x}) \ {y}]
        BY <4>1, <4>2
      <4>4. CASE y \in s
        <5>1. y \in s \ {x}
          BY <3>4, <4>4
        <5> QED BY <3>1, <3>2, <4>3, <4>4, <5>1
      <4>5. CASE y \notin s
        BY <3>1, <3>2, <4>3, <4>5
      <4> QED BY <4>4, <4>5
    <3> QED BY <3>3, <3>4
  <2>7. AnyOrder(f, g, T)
    BY <2>4, <2>5, <2>6 DEF AnyOrder
  <2> QED BY <1>1, <2>7
<1> QED BY <1>2, <1>3

\* The recursion of SumFunction has a solution.
LEMMA SumsExist ==
  ASSUME NEW S, IsFiniteSet(S), NEW g \in [S -> Nat]
  PROVE  \E f : IsSums(f, g)
<1>1. PICK f : AnyOrder(f, g, S)
  BY AnyOrderExists
<1>2. \A s \in SUBSET S : f[s] = IF s = {} THEN 0 ELSE g[First(s)] + f[s \ {First(s)}]
  BY <1>1, FirstIsElement DEF AnyOrder
<1>3. DOMAIN g = S /\ f = [s \in SUBSET S |-> f[s]]
  BY <1>1 DEF AnyOrder
<1>4. IsSums(f, g)
  BY <1>2, <1>3 DEF IsSums
<1> QED BY <1>4

LEMMA SumFunctionIsSum ==
  ASSUME NEW S, IsFiniteSet(S), NEW g \in [S -> Nat]
  PROVE  \E f : IsSums(f, g) /\ SumFunction(g) = f[S]
<1> DEFINE f == CHOOSE f : IsSums(f, g)
<1>1. IsSums(f, g)
  BY SumsExist
<1>2. SumFunction(g) = f[DOMAIN g]
  BY Zenon DEF IsSums, First, SumFunction, SumFunctionOnSet, FoldFunctionOnSet, MapThenFoldSet
<1> QED BY <1>1, <1>2

\* The value of the sum over a subset.
LEMMA SumsStep ==
  ASSUME NEW S, NEW g \in [S -> Nat], NEW f, IsSums(f, g), NEW s \in SUBSET S
  PROVE  IF s = {} THEN f[s] = 0
         ELSE /\ First(s) \in s
              /\ f[s] = g[First(s)] + f[s \ {First(s)}]
<1>1. f[s] = IF s = {} THEN 0 ELSE g[First(s)] + f[s \ {First(s)}]
  BY DEF IsSums
<1> QED BY <1>1, FirstIsElement

\* A sum of zeroes.
LEMMA SumOfZeroes ==
  ASSUME NEW S, IsFiniteSet(S), NEW g \in [S -> Nat], \A x \in S : g[x] = 0
  PROVE  SumFunction(g) = 0
<1>1. PICK f : IsSums(f, g) /\ SumFunction(g) = f[S]
  BY SumFunctionIsSum
<1> DEFINE B == {s \in SUBSET S : f[s] # 0}
<1> SUFFICES ASSUME B # {} PROVE FALSE
  BY <1>1
<1>2. B \in SUBSET (SUBSET S)
  OBVIOUS
<1>3. PICK s \in B : \A u \in SUBSET s : u # s => u \notin B
  <2> HIDE DEF B
  <2> QED BY <1>2, LeastSubset
<1>4. s # {} /\ First(s) \in s /\ f[s] = g[First(s)] + f[s \ {First(s)}]
  BY <1>1, <1>3, SumsStep
<1>5. f[s \ {First(s)}] = 0
  BY <1>3, <1>4
<1> QED BY <1>3, <1>4, <1>5

(***************************************************************************)
(* Adding to one of the numbers adds to the sum.                           *)
(***************************************************************************)
LEMMA SumAddOne ==
  ASSUME NEW S, IsFiniteSet(S), NEW g \in [S -> Nat], NEW h \in [S -> Nat],
         NEW x \in S, NEW d \in Nat, h[x] = g[x] + d,
         \A y \in S : y # x => h[y] = g[y]
  PROVE  /\ SumFunction(g) \in Nat
         /\ SumFunction(h) = SumFunction(g) + d
<1>1. PICK f : IsSums(f, g) /\ SumFunction(g) = f[S]
  BY SumFunctionIsSum
<1>2. PICK k : IsSums(k, h) /\ SumFunction(h) = k[S]
  BY SumFunctionIsSum
<1> DEFINE Added(s) == IF x \in s THEN d ELSE 0
           B == {s \in SUBSET S : ~ (f[s] \in Nat /\ k[s] = f[s] + Added(s))}
<1>3. B \in SUBSET (SUBSET S)
  OBVIOUS
<1>4. ASSUME B # {} PROVE FALSE
  <2>1. PICK s \in B : \A u \in SUBSET s : u # s => u \notin B
    <3> HIDE DEF B
    <3> QED BY <1>3, <1>4, LeastSubset
  <2>2. s # {}
    <3> SUFFICES ASSUME s = {} PROVE FALSE
      OBVIOUS
    <3>1. f[s] = 0
      BY <1>1, SumsStep
    <3>2. k[s] = 0
      BY <1>2, SumsStep
    <3>3. Added(s) = 0
      OBVIOUS
    <3> QED BY <2>1, <3>1, <3>2, <3>3
  <2> DEFINE y == First(s)
             u == s \ {y}
  <2>3. y \in s /\ f[s] = g[y] + f[u] /\ k[s] = h[y] + k[u]
    BY <1>1, <1>2, <2>1, <2>2, SumsStep
  <2>4. f[u] \in Nat /\ k[u] = f[u] + Added(u)
    BY <2>1, <2>3
  <2>5. y \in S /\ g[y] \in Nat /\ h[y] \in Nat
    BY <2>1, <2>3
  <2>6. CASE y = x
    <3>1. Added(u) = 0 /\ Added(s) = d /\ h[y] = g[y] + d
      BY <2>3, <2>6
    <3> HIDE DEF Added, y, u
    <3> QED BY <2>1, <2>3, <2>4, <2>5, <3>1
  <2>7. CASE y # x
    <3>1. Added(u) = Added(s) /\ h[y] = g[y] /\ Added(s) \in Nat
      BY <2>5, <2>7
    <3> HIDE DEF Added, y, u
    <3> QED BY <2>1, <2>3, <2>4, <2>5, <3>1
  <2> QED BY <2>6, <2>7
<1> QED BY <1>1, <1>2, <1>4

-----------------------------------------------------------------------------
(***************************************************************************)
(* The best values                                                         *)
(***************************************************************************)
LEMMA MaxOfTwo ==
  ASSUME NEW a \in Nat, NEW b \in Nat
  PROVE  Max({a, b}) = IF a >= b THEN a ELSE b
<1>1. \E x \in {a, b} : \A y \in {a, b} : x >= y
  OBVIOUS
<1>2. Max({a, b}) \in {a, b} /\ \A y \in {a, b} : Max({a, b}) >= y
  BY <1>1 DEF Max
<1> QED BY <1>2

LEMMA MinOfTwo ==
  ASSUME NEW a \in Nat, NEW b \in Nat
  PROVE  Min({a, b}) = IF a <= b THEN a ELSE b
<1>1. \E x \in {a, b} : \A y \in {a, b} : x <= y
  OBVIOUS
<1>2. Min({a, b}) \in {a, b} /\ \A y \in {a, b} : Min({a, b}) <= y
  BY <1>1 DEF Min
<1> QED BY <1>2

\* The value of a ratio is a number.
LEMMA RatioType ==
  ASSUME NEW n \in Counts, NEW k \in Ratios
  PROVE  summary_row(n)[k].val \in Nat
<1>1. summary_row(n)[k] \in Percents
  BY RowType DEF Ratios
<1> QED BY <1>1 DEF Percents

LEMMA BetterMost ==
  ASSUME NEW k \in {"TRUE_POS", "TRUE_NEG"}, NEW old \in Nat, NEW n \in Counts
  PROVE  Better(k, old, n) = IF old >= n[k] THEN old ELSE n[k]
<1>1. Better(k, old, n) = Max({old, n[k]})
  BY DEF Better, Ratios
<1>2. n[k] \in Nat
  BY CountFields
<1> QED BY <1>1, <1>2, MaxOfTwo

LEMMA BetterLeast ==
  ASSUME NEW k \in {"FALSE_POS", "FALSE_NEG"}, NEW old \in Nat, NEW n \in Counts
  PROVE  Better(k, old, n) = IF old <= n[k] THEN old ELSE n[k]
<1>1. Better(k, old, n) = Min({old, n[k]})
  BY DEF Better, Ratios
<1>2. n[k] \in Nat
  BY CountFields
<1> QED BY <1>1, <1>2, MinOfTwo

LEMMA BetterRatio ==
  ASSUME NEW k \in Ratios, NEW old \in Nat, NEW n \in Counts
  PROVE  Better(k, old, n) = IF ~ Considered(n) \/ old >= summary_row(n)[k].val
                               THEN old ELSE summary_row(n)[k].val
<1>1. Better(k, old, n)
        = IF Considered(n) THEN Max({old, summary_row(n)[k].val}) ELSE old
  BY DEF Better, Ratios
<1> QED BY <1>1, RatioType, MaxOfTwo

LEMMA BetterType ==
  ASSUME NEW k \in BestKeys, NEW old \in Nat, NEW n \in Counts
  PROVE  Better(k, old, n) \in Nat
<1>1. CASE k \in {"TRUE_POS", "TRUE_NEG"}
  BY <1>1, BetterMost, CountFields
<1>2. CASE k \in {"FALSE_POS", "FALSE_NEG"}
  BY <1>2, BetterLeast, CountFields
<1>3. CASE k \in Ratios
  BY <1>3, BetterRatio, RatioType
<1> QED BY <1>1, <1>2, <1>3 DEF BestKeys, Verdicts

-----------------------------------------------------------------------------
\* The tool with which the others are compared.
FirstTool == used_toolnames[1]

LEMMA ToolNames ==
  /\ Len(used_toolnames) \in Nat \ {0}
  /\ DOMAIN used_toolnames = 1 .. Len(used_toolnames)
  /\ FirstTool \in Tools
<1>1. Len(used_toolnames) \in Nat /\ Len(used_toolnames) # 0
  BY StatsAssumption
<1>2. DOMAIN used_toolnames = 1 .. Len(used_toolnames)
  BY StatsAssumption
<1>3. 1 \in DOMAIN used_toolnames
  BY <1>1, <1>2
<1> QED BY <1>1, <1>2, <1>3 DEF FirstTool, Tools

LEMMA TableNames ==
  /\ error_scope \subseteq Tables /\ "total" \in Tables /\ "error" \in Tables
  /\ "FOK" \in error_scope /\ "FOK" \in Tables
  BY StatsAssumption DEF Tables

LEMMA PossibleLists ==
  ASSUME NEW scope
  PROVE  Possible(scope) \subseteq Lists
  BY DEF Possible, Lists, Verdicts, Failures

(***************************************************************************)
(* Stats keeps its type: the counts and the best values are numbers, and   *)
(* the search stays within the tools.                                      *)
(***************************************************************************)
THEOREM StatsTypeCorrect == Spec => []TypeOK
<1>1. Init => TypeOK
  <2> SUFFICES ASSUME Init PROVE TypeOK
    OBVIOUS
  <2>1. NoResult \in [Lists -> Nat]
    BY DEF NoResult
  <2>2. \A k \in BestKeys : (CASE k = "FALSE_POS" -> 999999
                               [] k = "FALSE_NEG" -> 9999999
                               [] OTHER -> 0) \in Nat
    OBVIOUS
  <2>3. best \in [BestKeys -> Nat]
    BY <2>2 DEF Init
  <2>4. pos \in 1 .. Len(used_toolnames) + 1
    BY ToolNames DEF Init
  <2>5. /\ html \in [Tools -> [Lists -> Nat]]
        /\ results \in [Tables -> [Tools -> [Lists -> Nat]]]
    BY <2>1 DEF Init
  <2>6. /\ expects \in [Tools -> [OK : Nat, error : Nat]]
        /\ secs \in [Tools -> [html : Nat, latex : Nat]]
    BY DEF Init
  <2> QED BY <2>3, <2>4, <2>5, <2>6 DEF Init, TypeOK
<1>2. TypeOK /\ [Next]_vars => TypeOK'
  <2> SUFFICES ASSUME TypeOK, [Next]_vars PROVE TypeOK'
    OBVIOUS
  <2>1. CASE Gather
    <3>1. PICK scope \in error_scope, time \in Times :
            \E answer \in [Tools -> Possible(scope)] : CountTest(scope, time, answer)
      BY <2>1 DEF Gather
    <3>2. PICK answer \in [Tools -> Possible(scope)] : CountTest(scope, time, answer)
      BY <3>1
    <3>3. \A n \in [Lists -> Nat] : \A c \in Lists : [n EXCEPT ![c] = @ + 1] \in [Lists -> Nat]
      OBVIOUS
    <3>4. \A t \in Tools : answer[t] \in Lists
      BY PossibleLists
    <3>5. html' \in [Tools -> [Lists -> Nat]]
      BY <3>2, <3>3, <3>4 DEF CountTest, TypeOK
    <3>6. results' \in [Tables -> [Tools -> [Lists -> Nat]]]
      BY <3>2, <3>3, <3>4 DEF CountTest, TypeOK
    <3>7. expects' \in [Tools -> [OK : Nat, error : Nat]]
      BY <3>2 DEF CountTest, TypeOK
    <3>8. secs' \in [Tools -> [html : Nat, latex : Nat]]
      BY <3>2, StatsAssumption DEF CountTest, TypeOK
    <3> QED BY <2>1, <3>5, <3>6, <3>7, <3>8 DEF Gather, TypeOK
  <2>2. CASE StartScan
    BY <2>2 DEF StartScan, TypeOK
  <2>3. CASE Scan
    <3> DEFINE n == results["total"][used_toolnames[pos]]
    <3>1. pos \in DOMAIN used_toolnames
      BY <2>3, ToolNames DEF Scan, TypeOK
    <3>2. n \in Counts
      <4>1. used_toolnames[pos] \in Tools
        BY <3>1 DEF Tools
      <4>2. results["total"] \in [Tools -> [Lists -> Nat]]
        BY TableNames DEF TypeOK
      <4> QED BY <4>1, <4>2 DEF Counts
    <3>3. CASE Raises(n)
      BY <2>3, <3>3 DEF Scan, TypeOK
    <3>4. CASE ~ Raises(n)
      <4>1. /\ best' = [k \in BestKeys |-> Better(k, best[k], n)]
            /\ pos' = pos + 1 /\ UNCHANGED <<phase, html, results, expects, secs>>
        BY <2>3, <3>4 DEF Scan
      <4> HIDE DEF n
      <4>2. best' \in [BestKeys -> Nat]
        BY <3>2, <4>1, BetterType DEF TypeOK
      <4>3. pos' \in 1 .. Len(used_toolnames) + 1
        BY <3>1, <4>1, ToolNames
      <4> QED BY <4>1, <4>2, <4>3 DEF TypeOK
    <3> QED BY <3>3, <3>4
  <2>4. CASE Finish
    BY <2>4 DEF Finish, TypeOK
  <2>5. CASE UNCHANGED vars
    BY <2>5 DEF vars, TypeOK
  <2> QED BY <2>1, <2>2, <2>3, <2>4, <2>5 DEF Next
<1> QED BY <1>1, <1>2, PTL DEF Spec

-----------------------------------------------------------------------------
(***************************************************************************)
(* The tables.  Column(t, c): what the categories of errors have in list c *)
(* of tool t.                                                              *)
(***************************************************************************)
Column(t, c) == [e \in error_scope |-> results[e][t][c]]

CountInv ==
  \A t \in Tools :
    /\ \A e \in error_scope : Total(results[e][t]) = Total(results[e][FirstTool])
    /\ \A c \in Lists :
         /\ results["total"][t][c] = SumFunction(Column(t, c))
         /\ results["error"][t][c] + results["FOK"][t][c] = results["total"][t][c]
    /\ Total(results["total"][t]) = expects[t].OK + expects[t].error
    /\ results["total"][t] = html[t]

LEMMA ResultTypes ==
  ASSUME TypeOK, NEW t \in Tools
  PROVE  /\ \A e \in Tables : results[e][t] \in Counts /\ \A c \in Lists : results[e][t][c] \in Nat
         /\ html[t] \in Counts
         /\ expects[t].OK \in Nat /\ expects[t].error \in Nat
         /\ secs[t].html \in Nat /\ secs[t].latex \in Nat
         /\ \A c \in Lists : Column(t, c) \in [error_scope -> Nat]
<1>1. \A e \in Tables : results[e][t] \in Counts /\ \A c \in Lists : results[e][t][c] \in Nat
  BY DEF TypeOK, Counts
<1>2. \A c \in Lists : Column(t, c) \in [error_scope -> Nat]
  BY <1>1, TableNames DEF Column
<1> QED BY <1>1, <1>2 DEF TypeOK, Counts

LEMMA InitCounts == Init => CountInv
<1> SUFFICES ASSUME Init, NEW t \in Tools
             PROVE  /\ \A e \in error_scope : Total(results[e][t]) = Total(results[e][FirstTool])
                    /\ \A c \in Lists :
                         /\ results["total"][t][c] = SumFunction(Column(t, c))
                         /\ results["error"][t][c] + results["FOK"][t][c] = results["total"][t][c]
                    /\ Total(results["total"][t]) = expects[t].OK + expects[t].error
                    /\ results["total"][t] = html[t]
  BY DEF CountInv
<1>1. /\ \A e \in Tables : results[e][t] = NoResult /\ results[e][FirstTool] = NoResult
      /\ html[t] = NoResult /\ expects[t] = [OK |-> 0, error |-> 0]
  BY ToolNames DEF Init
<1>2. \A c \in Lists : NoResult[c] = 0
  BY DEF NoResult
<1>3. ASSUME NEW c \in Lists PROVE SumFunction(Column(t, c)) = 0
  <2>1. \A e \in error_scope : Column(t, c)[e] = 0
    BY <1>1, <1>2, TableNames DEF Column
  <2>2. Column(t, c) \in [error_scope -> Nat]
    BY <1>1, <1>2, TableNames DEF Column
  <2> QED BY <2>1, <2>2, SumOfZeroes, StatsAssumption
<1>4. Total(NoResult) = 0
  BY <1>2 DEF Total, Judgements, Lists, Verdicts, Failures
<1> QED BY <1>1, <1>2, <1>3, <1>4, TableNames

\* A count with one more result.
More(n, a) == [n EXCEPT ![a] = @ + 1]

LEMMA MoreCounts ==
  ASSUME NEW n \in Counts, NEW a \in Lists
  PROVE  /\ More(n, a) \in Counts
         /\ Total(n) \in Nat /\ Total(More(n, a)) = Total(n) + 1
         /\ \A c \in Lists : n[c] \in Nat /\ More(n, a)[c] = n[c] + (IF c = a THEN 1 ELSE 0)
<1>1. More(n, a) \in Counts /\ Total(More(n, a)) = Total(n) + 1
  BY TotalAddOne DEF More
<1>2. \A c \in Lists : n[c] \in Nat /\ More(n, a)[c] = n[c] + (IF c = a THEN 1 ELSE 0)
  BY DEF More, Counts
<1> QED BY <1>1, <1>2, TotalType

\* What a test changes, for one tool.
LEMMA CountTestEffect ==
  ASSUME TypeOK, NEW scope \in error_scope, NEW time \in Times,
         NEW answer \in [Tools -> Possible(scope)], CountTest(scope, time, answer),
         NEW t \in Tools
  PROVE  /\ answer[t] \in Lists
         /\ \A e \in error_scope :
              results'[e][t] = IF e = scope THEN More(results[e][t], answer[t]) ELSE results[e][t]
         /\ results'["total"][t] = More(results["total"][t], answer[t])
         /\ results'["error"][t] = IF scope = "FOK" THEN results["error"][t]
                                                     ELSE More(results["error"][t], answer[t])
         /\ html'[t] = More(html[t], answer[t])
         /\ expects'[t].OK = expects[t].OK + (IF scope = "FOK" THEN 1 ELSE 0)
         /\ expects'[t].error = expects[t].error + (IF scope = "FOK" THEN 0 ELSE 1)
         /\ secs'[t].html = secs[t].html + (IF answer[t] = "timeout" THEN 0 ELSE time)
         /\ secs'[t].latex = secs[t].latex + time
<1>1. answer[t] \in Lists
  BY PossibleLists
<1>2. \A e \in Tables : results'[e][t] = IF e \in TablesOf(scope) THEN More(results[e][t], answer[t])
                                                                ELSE results[e][t]
  BY DEF CountTest, More
<1>3. /\ \A e \in error_scope : e \in TablesOf(scope) <=> e = scope
      /\ "total" \in TablesOf(scope)
      /\ "error" \in TablesOf(scope) <=> scope # "FOK"
  BY StatsAssumption DEF TablesOf
<1>4. html'[t] = More(html[t], answer[t])
  BY DEF CountTest, More
<1>5. /\ expects'[t].OK = expects[t].OK + (IF scope = "FOK" THEN 1 ELSE 0)
      /\ expects'[t].error = expects[t].error + (IF scope = "FOK" THEN 0 ELSE 1)
  BY DEF CountTest, TypeOK
<1>6. /\ secs'[t].html = secs[t].html + (IF answer[t] = "timeout" THEN 0 ELSE time)
      /\ secs'[t].latex = secs[t].latex + time
  BY DEF CountTest
<1>7. \A e \in error_scope :
        results'[e][t] = IF e = scope THEN More(results[e][t], answer[t]) ELSE results[e][t]
  BY <1>2, <1>3, TableNames
<1>8. /\ results'["total"][t] = More(results["total"][t], answer[t])
      /\ results'["error"][t] = IF scope = "FOK" THEN results["error"][t]
                                                  ELSE More(results["error"][t], answer[t])
  BY <1>2, <1>3, TableNames
<1> QED BY <1>1, <1>4, <1>5, <1>6, <1>7, <1>8

LEMMA CountStep ==
  ASSUME TypeOK, CountInv, [Next]_vars
  PROVE  CountInv'
<1>1. CASE Gather
  <2>1. PICK scope \in error_scope, time \in Times :
          \E answer \in [Tools -> Possible(scope)] : CountTest(scope, time, answer)
    BY <1>1 DEF Gather
  <2>2. PICK answer \in [Tools -> Possible(scope)] : CountTest(scope, time, answer)
    BY <2>1
  <2> SUFFICES ASSUME NEW t \in Tools
               PROVE  /\ \A e \in error_scope : Total(results'[e][t]) = Total(results'[e][FirstTool])
                      /\ \A c \in Lists :
                           /\ results'["total"][t][c] = SumFunction(Column(t, c)')
                           /\ results'["error"][t][c] + results'["FOK"][t][c]
                                = results'["total"][t][c]
                      /\ Total(results'["total"][t]) = expects'[t].OK + expects'[t].error
                      /\ results'["total"][t] = html'[t]
    BY DEF CountInv
  <2>3. FirstTool \in Tools /\ answer[FirstTool] \in Lists /\ answer[t] \in Lists
    BY ToolNames, PossibleLists
  <2>4. ASSUME NEW e \in error_scope PROVE Total(results'[e][t]) = Total(results'[e][FirstTool])
    <3>1. Total(results[e][t]) = Total(results[e][FirstTool])
      BY DEF CountInv
    <3>2. results[e][t] \in Counts /\ results[e][FirstTool] \in Counts
      BY <2>3, ResultTypes, TableNames
    <3>3. CASE e = scope
      <4>1. /\ results'[e][t] = More(results[e][t], answer[t])
            /\ results'[e][FirstTool] = More(results[e][FirstTool], answer[FirstTool])
        BY <2>2, <2>3, <3>3, CountTestEffect
      <4> QED BY <2>3, <3>1, <3>2, <4>1, MoreCounts
    <3>4. CASE e # scope
      BY <2>2, <2>3, <3>1, <3>4, CountTestEffect
    <3> QED BY <3>3, <3>4
  <2>5. ASSUME NEW c \in Lists
        PROVE  /\ results'["total"][t][c] = SumFunction(Column(t, c)')
               /\ results'["error"][t][c] + results'["FOK"][t][c] = results'["total"][t][c]
    <3> DEFINE d == IF c = answer[t] THEN 1 ELSE 0
    <3>1. /\ \A e \in error_scope : results'[e][t][c] = results[e][t][c] + (IF e = scope THEN d ELSE 0)
          /\ results'["total"][t][c] = results["total"][t][c] + d
          /\ results'["error"][t][c]
               = results["error"][t][c] + (IF scope = "FOK" THEN 0 ELSE d)
      <4>1. \A n \in Counts : /\ More(n, answer[t])[c] = n[c] + d
                              /\ n[c] \in Nat
        BY <2>3, MoreCounts
      <4>2. \A e \in Tables : results[e][t] \in Counts
        BY ResultTypes
      <4> QED BY <2>2, <4>1, <4>2, CountTestEffect, TableNames
    <3>2. d \in Nat
      OBVIOUS
    <3> HIDE DEF d
    <3>3. /\ Column(t, c) \in [error_scope -> Nat]
          /\ results["total"][t][c] \in Nat /\ results["error"][t][c] \in Nat
          /\ \A e \in error_scope : results[e][t][c] \in Nat
      BY ResultTypes, TableNames
    <3> DEFINE h == [e \in error_scope |-> results'[e][t][c]]
    <3>4. Column(t, c)' = h
      BY DEF Column
    <3>5. /\ h \in [error_scope -> Nat]
          /\ h[scope] = Column(t, c)[scope] + d
          /\ \A e \in error_scope : e # scope => h[e] = Column(t, c)[e]
      BY <3>1, <3>2, <3>3 DEF Column
    <3> HIDE DEF h
    <3>6. SumFunction(Column(t, c)') = SumFunction(Column(t, c)) + d
      <4>1. IsFiniteSet(error_scope)
        BY StatsAssumption
      <4>2. SumFunction(h) = SumFunction(Column(t, c)) + d
        BY <3>2, <3>3, <3>5, <4>1, SumAddOne
      <4> QED BY <3>4, <4>2
    <3>7. /\ results["total"][t][c] = SumFunction(Column(t, c))
          /\ results["error"][t][c] + results["FOK"][t][c] = results["total"][t][c]
      BY DEF CountInv
    <3>8. results'["error"][t][c] + results'["FOK"][t][c] = results'["total"][t][c]
      <4>1. CASE scope = "FOK"
        BY <3>1, <3>2, <3>3, <3>7, <4>1, TableNames
      <4>2. CASE scope # "FOK"
        BY <3>1, <3>2, <3>3, <3>7, <4>2, TableNames
      <4> QED BY <4>1, <4>2
    <3> QED BY <3>1, <3>6, <3>7, <3>8
  <2>6. Total(results'["total"][t]) = expects'[t].OK + expects'[t].error
    <3>1. results'["total"][t] = More(results["total"][t], answer[t])
      BY <2>2, CountTestEffect
    <3>2. Total(results'["total"][t]) = Total(results["total"][t]) + 1
      BY <2>3, <3>1, ResultTypes, TableNames, MoreCounts
    <3>3. expects'[t].OK + expects'[t].error = expects[t].OK + expects[t].error + 1
      <4>1. /\ expects'[t].OK = expects[t].OK + (IF scope = "FOK" THEN 1 ELSE 0)
            /\ expects'[t].error = expects[t].error + (IF scope = "FOK" THEN 0 ELSE 1)
        BY <2>2, CountTestEffect
      <4>2. expects[t].OK \in Nat /\ expects[t].error \in Nat
        BY ResultTypes
      <4> QED BY <4>1, <4>2
    <3> QED BY <3>2, <3>3 DEF CountInv
  <2>7. results'["total"][t] = html'[t]
    BY <2>2, CountTestEffect DEF CountInv
  <2> QED BY <2>4, <2>5, <2>6, <2>7
<1>2. CASE UNCHANGED <<html, results, expects>>
  BY <1>2 DEF CountInv, Column
<1> QED BY <1>1, <1>2 DEF Next, StartScan, Scan, Finish, vars

LEMMA CountAlways == Spec => [](TypeOK /\ CountInv)
<1>1. TypeOK /\ CountInv /\ [Next]_vars => CountInv'
  BY CountStep
<1> QED BY <1>1, InitCounts, StatsTypeCorrect, PTL DEF Spec

(***************************************************************************)
(* Every table accounts for every test: the cells of a row add up to the   *)
(* number of tests of the first tool, the categories to the total, and the *)
(* total is the one of the HTML page, for any number of tests.             *)
(***************************************************************************)
THEOREM TablesAlwaysAddUp == Spec => []TablesAddUp
<1>1. TypeOK /\ CountInv => TablesAddUp
  <2> SUFFICES ASSUME TypeOK, CountInv, NEW t \in Tools
               PROVE  /\ \A e \in error_scope :
                           /\ CellSum(landscape(results[e][t])) = Total(results[e][FirstTool])
                           /\ CellSum(portrait(results[e][t])) = Total(results[e][FirstTool])
                      /\ \A c \in Lists :
                           /\ results["total"][t][c] = SumFunction(Column(t, c))
                           /\ results["error"][t][c]
                                = results["total"][t][c] - results["FOK"][t][c]
                      /\ Total(results["total"][t]) = expects[t].OK + expects[t].error
                      /\ results["total"][t] = html[t]
    BY DEF TablesAddUp, FirstTool, Column
  <2>1. ASSUME NEW e \in error_scope
        PROVE  /\ CellSum(landscape(results[e][t])) = Total(results[e][FirstTool])
               /\ CellSum(portrait(results[e][t])) = Total(results[e][FirstTool])
    <3>1. results[e][t] \in Counts
      BY ResultTypes, TableNames
    <3>2. Total(results[e][t]) = Total(results[e][FirstTool])
      BY DEF CountInv
    <3> QED BY <3>1, <3>2, CellsAddUp DEF CellSum
  <2>2. ASSUME NEW c \in Lists
        PROVE  results["error"][t][c] = results["total"][t][c] - results["FOK"][t][c]
    <3>1. results["error"][t][c] \in Nat /\ results["FOK"][t][c] \in Nat
      BY ResultTypes, TableNames
    <3>2. results["error"][t][c] + results["FOK"][t][c] = results["total"][t][c]
      BY DEF CountInv
    <3> QED BY <3>1, <3>2
  <2> QED BY <2>1, <2>2 DEF CountInv
<1> QED BY <1>1, CountAlways, PTL

(***************************************************************************)
(* The numbers that are computed in several places agree, with the         *)
(* exceptions that the property names, for any number of tests.            *)
(***************************************************************************)
THEOREM MetricsAlwaysAgree == Spec => []MetricsAgree
<1>1. TypeOK /\ CountInv => MetricsAgree
  <2> SUFFICES ASSUME TypeOK, CountInv, NEW t \in Tools
               PROVE  LET n == results["total"][t] IN
                      /\ metrics_row(n) = summary_row(n)
                      /\ html_coverage(html[t]) = summary_row(n).coverage
                      /\ n["other"] = 0 => html_robustness(html[t]) = console_robustness(html[t])
                      /\ Judgements(n) = Total(n) => html_accuracy(html[t]) = latex_accuracy(n)
                      /\ n["TRUE_POS"] = n["TRUE_NEG"] /\ n["TRUE_POS"] > 0 =>
                           F1(n).val = Round(2 * n["TRUE_POS"],
                                             2 * n["TRUE_POS"] + n["FALSE_POS"] + n["FALSE_NEG"])
    BY DEF MetricsAgree
  <2> DEFINE n == results["total"][t]
  <2>1. n \in Counts /\ html[t] = n
    BY ResultTypes, TableNames DEF CountInv
  <2> HIDE DEF n
  <2>2. html_coverage(n) = summary_row(n).coverage
    BY DEF html_coverage, summary_row
  <2>3. Judgements(n) = Total(n) => html_accuracy(n) = latex_accuracy(n)
    BY DEF html_accuracy, latex_accuracy
  <2>4. metrics_row(n) = summary_row(n)
    BY <2>1, RowsAgree
  <2>5. n["other"] = 0 => html_robustness(n) = console_robustness(n)
    BY <2>1, RobustnessAgrees
  <2>6. n["TRUE_POS"] = n["TRUE_NEG"] /\ n["TRUE_POS"] > 0 =>
          F1(n).val = Round(2 * n["TRUE_POS"],
                            2 * n["TRUE_POS"] + n["FALSE_POS"] + n["FALSE_NEG"])
    BY <2>1, F1Usual
  <2> QED BY <2>1, <2>2, <2>3, <2>4, <2>5, <2>6 DEF n
<1> QED BY <1>1, CountAlways, PTL

-----------------------------------------------------------------------------
TimeInv == \A t \in Tools : secs[t].html <= secs[t].latex

(***************************************************************************)
(* The console shows the time that was added up, whatever it is, and never *)
(* more than the LaTeX table counts; the latter shows it up to a day.      *)
(***************************************************************************)
THEOREM TimesAreShown == Spec => []TimesShown
<1>1. Init => TimeInv
  BY DEF Init, TimeInv
<1>2. TypeOK /\ TimeInv /\ [Next]_vars => TimeInv'
  <2> SUFFICES ASSUME TypeOK, TimeInv, [Next]_vars PROVE TimeInv'
    OBVIOUS
  <2>1. CASE Gather
    <3>1. PICK scope \in error_scope, time \in Times :
            \E answer \in [Tools -> Possible(scope)] : CountTest(scope, time, answer)
      BY <2>1 DEF Gather
    <3>2. PICK answer \in [Tools -> Possible(scope)] : CountTest(scope, time, answer)
      BY <3>1
    <3>3. ASSUME NEW t \in Tools PROVE secs'[t].html <= secs'[t].latex
      <4>1. /\ secs'[t].html = secs[t].html + (IF answer[t] = "timeout" THEN 0 ELSE time)
            /\ secs'[t].latex = secs[t].latex + time
        BY <3>2, CountTestEffect
      <4>2. secs[t].html \in Nat /\ secs[t].latex \in Nat /\ secs[t].html <= secs[t].latex
        BY ResultTypes DEF TimeInv
      <4>3. time \in Nat
        BY StatsAssumption
      <4> QED BY <4>1, <4>2, <4>3
    <3> QED BY <3>3 DEF TimeInv
  <2>2. CASE UNCHANGED secs
    BY <2>2 DEF TimeInv
  <2> QED BY <2>1, <2>2 DEF Next, StartScan, Scan, Finish, vars
<1>3. TypeOK /\ TimeInv => TimesShown
  <2> SUFFICES ASSUME TypeOK, TimeInv, NEW t \in Tools
               PROVE  LET d == seconds2human(secs[t].html)
                          l == latex_time(secs[t].latex) IN
                      /\ Seconds(d) = secs[t].html
                      /\ d.hours < 24 /\ d.minutes < 60 /\ d.seconds < 60
                      /\ secs[t].latex < 86400 => Seconds(l) = secs[t].latex
                      /\ secs[t].html <= secs[t].latex
    BY DEF TimesShown
  <2> DEFINE x == secs[t].html
             y == secs[t].latex
  <2>1. x \in Nat /\ y \in Nat /\ x <= y
    BY ResultTypes DEF TimeInv
  <2> HIDE DEF x, y
  <2>2. /\ Seconds(seconds2human(x)) = x
        /\ seconds2human(x).hours < 24
        /\ seconds2human(x).minutes < 60
        /\ seconds2human(x).seconds < 60
    BY <2>1, HumanTime DEF Seconds
  <2>3. y < 86400 => Seconds(latex_time(y)) = y
    <3> SUFFICES ASSUME y < 86400 PROVE Seconds(latex_time(y)) = y
      OBVIOUS
    <3>1. seconds2human(y).days = 0
      BY <2>1, HumanTime
    <3>2. latex_time(y) = seconds2human(y)
      BY <3>1 DEF latex_time, seconds2human
    <3> QED BY <2>1, <3>2, HumanTime DEF Seconds
  <2> QED BY <2>1, <2>2, <2>3 DEF x, y
<1> QED BY <1>1, <1>2, <1>3, StatsTypeCorrect, PTL DEF Spec

-----------------------------------------------------------------------------
(***************************************************************************)
(* The search for the best values.  It goes through the tools once, after  *)
(* all the tests were counted.                                             *)
(***************************************************************************)
Counted(i) == results["total"][used_toolnames[i]]

Seen == 1 .. pos - 1

\* No tool has more results than there are tests.
BoundInv ==
  \A t \in Tools : Total(html[t]) = Total(html[FirstTool]) /\ Total(html[t]) <= MaxTests

\* The search for the fewest false verdicts starts from this number, or more.
Unset == 999999

LEMMA UnsetIsNumber == Unset \in Nat
BY SMT DEF Unset

BestInv ==
  /\ phase = "gather" => pos = 1
  /\ phase = "done" => pos = Len(used_toolnames) + 1
  /\ \A k \in {"TRUE_POS", "TRUE_NEG"} :
       /\ \A i \in Seen : Counted(i)[k] <= best[k]
       /\ best[k] = 0 \/ \E i \in Seen : Counted(i)[k] = best[k]
  /\ \A k \in {"FALSE_POS", "FALSE_NEG"} :
       /\ \A i \in Seen : best[k] <= Counted(i)[k]
       /\ Unset <= best[k] \/ \E i \in Seen : Counted(i)[k] = best[k]
  /\ \A k \in Ratios :
       /\ \A i \in Seen : Considered(Counted(i)) => summary_row(Counted(i))[k].val <= best[k]
       /\ best[k] = 0 \/ \E i \in Seen : summary_row(Counted(i))[k].val = best[k]

LEMMA BoundAlways == Spec => []BoundInv
<1>1. Init => BoundInv
  <2> SUFFICES ASSUME Init PROVE BoundInv
    OBVIOUS
  <2>1. \A t \in Tools : html[t] = NoResult
    BY DEF Init
  <2>2. Total(NoResult) = 0
    BY DEF NoResult, Total, Judgements, Lists, Verdicts, Failures
  <2> QED BY <2>1, <2>2, ToolNames, StatsAssumption DEF BoundInv
<1>2. TypeOK /\ BoundInv /\ [Next]_vars => BoundInv'
  <2> SUFFICES ASSUME TypeOK, BoundInv, [Next]_vars PROVE BoundInv'
    OBVIOUS
  <2>1. CASE Gather
    <3>1. PICK scope \in error_scope, time \in Times :
            \E answer \in [Tools -> Possible(scope)] : CountTest(scope, time, answer)
      BY <2>1 DEF Gather
    <3>2. PICK answer \in [Tools -> Possible(scope)] : CountTest(scope, time, answer)
      BY <3>1
    <3>3. ASSUME NEW t \in Tools
          PROVE  Total(html[t]) \in Nat /\ Total(html'[t]) = Total(html[t]) + 1
      <4>1. html'[t] = More(html[t], answer[t]) /\ answer[t] \in Lists
        BY <3>2, CountTestEffect
      <4>2. html[t] \in Counts
        BY ResultTypes
      <4> QED BY <4>1, <4>2, MoreCounts
    <3>4. Total(html[FirstTool]) < MaxTests
      BY <2>1 DEF Gather, FirstTool
    <3>5. ASSUME NEW t \in Tools
          PROVE  Total(html'[t]) = Total(html'[FirstTool]) /\ Total(html'[t]) <= MaxTests
      <4>1. Total(html[t]) = Total(html[FirstTool])
        BY DEF BoundInv
      <4> QED BY <3>3, <3>4, <4>1, ToolNames, StatsAssumption
    <3> QED BY <3>5 DEF BoundInv
  <2>2. CASE UNCHANGED html
    BY <2>2 DEF BoundInv
  <2> QED BY <2>1, <2>2 DEF Next, StartScan, Scan, Finish, vars
<1> QED BY <1>1, <1>2, StatsTypeCorrect, PTL DEF Spec

\* The tool at a position has counts.
LEMMA CountedType ==
  ASSUME TypeOK, NEW i \in 1 .. Len(used_toolnames)
  PROVE  Counted(i) \in Counts /\ used_toolnames[i] \in Tools
<1>1. used_toolnames[i] \in Tools
  BY ToolNames DEF Tools
<1> QED BY <1>1, ResultTypes, TableNames DEF Counted

LEMMA InitBest == Init => BestInv
<1> SUFFICES ASSUME Init PROVE BestInv
  OBVIOUS
<1>1. Seen = {} /\ pos = 1 /\ phase = "gather"
  BY DEF Init, Seen
<1>3. \A k \in {"FALSE_POS", "FALSE_NEG"} : Unset <= best[k]
  BY SMT DEF Init, BestKeys, Verdicts, Ratios, Unset
<1>4. phase # "done"
  BY <1>1
<1>5. \A k \in {"TRUE_POS", "TRUE_NEG"} \cup Ratios : best[k] = 0
  BY SMT DEF Init, BestKeys, Verdicts, Ratios
<1> QED BY <1>1, <1>3, <1>4, <1>5 DEF BestInv

\* One turn of the search.
LEMMA ScanKeepsBest ==
  ASSUME TypeOK, BestInv, phase = "scan", pos <= Len(used_toolnames),
         best' = [k \in BestKeys |-> Better(k, best[k], Counted(pos))],
         pos' = pos + 1, phase' = phase, results' = results
  PROVE  BestInv'
<1> DEFINE n == Counted(pos)
<1>1. /\ pos \in Nat \ {0} /\ pos \in 1 .. Len(used_toolnames)
      /\ Seen' = Seen \cup {pos} /\ pos \notin Seen
  BY ToolNames DEF TypeOK, Seen
<1>2. n \in Counts /\ \A k \in BestKeys : best[k] \in Nat /\ best'[k] = Better(k, best[k], n)
  BY <1>1, CountedType DEF TypeOK
<1>3. \A i : Counted(i)' = Counted(i)
  BY DEF Counted
<1>4. \A i \in Seen : Counted(i) \in Counts
  <2>1. \A i \in Seen : i \in 1 .. Len(used_toolnames)
    BY <1>1, ToolNames DEF Seen
  <2> QED BY <2>1, CountedType
<1> HIDE DEF n
<1>5. ASSUME NEW k \in {"TRUE_POS", "TRUE_NEG"}
      PROVE  /\ \A i \in Seen \cup {pos} : Counted(i)[k] <= best'[k]
             /\ best'[k] = 0 \/ \E i \in Seen \cup {pos} : Counted(i)[k] = best'[k]
  <2>1. best[k] \in Nat /\ best'[k] = IF best[k] >= n[k] THEN best[k] ELSE n[k]
    BY <1>2, BetterMost DEF BestKeys, Verdicts
  <2>2. n[k] \in Nat /\ \A i \in Seen : Counted(i)[k] \in Nat
    BY <1>2, <1>4, CountFields
  <2>3. /\ \A i \in Seen : Counted(i)[k] <= best[k]
        /\ best[k] = 0 \/ \E i \in Seen : Counted(i)[k] = best[k]
    BY DEF BestInv
  <2> QED BY <2>1, <2>2, <2>3 DEF n
<1>6. ASSUME NEW k \in {"FALSE_POS", "FALSE_NEG"}
      PROVE  /\ \A i \in Seen \cup {pos} : best'[k] <= Counted(i)[k]
             /\ Unset <= best'[k] \/ \E i \in Seen \cup {pos} : Counted(i)[k] = best'[k]
  <2>1. best[k] \in Nat /\ best'[k] = IF best[k] <= n[k] THEN best[k] ELSE n[k]
    BY <1>2, BetterLeast DEF BestKeys, Verdicts
  <2>2. n[k] \in Nat /\ \A i \in Seen : Counted(i)[k] \in Nat
    BY <1>2, <1>4, CountFields
  <2>3. /\ \A i \in Seen : best[k] <= Counted(i)[k]
        /\ Unset <= best[k] \/ \E i \in Seen : Counted(i)[k] = best[k]
    BY DEF BestInv
  <2> QED BY <2>1, <2>2, <2>3 DEF n
<1>7. ASSUME NEW k \in Ratios
      PROVE  /\ \A i \in Seen \cup {pos} :
                  Considered(Counted(i)) => summary_row(Counted(i))[k].val <= best'[k]
             /\ best'[k] = 0 \/ \E i \in Seen \cup {pos} : summary_row(Counted(i))[k].val = best'[k]
  <2> DEFINE v(i) == summary_row(Counted(i))[k].val
  <2>1. /\ best[k] \in Nat
        /\ best'[k] = IF ~ Considered(n) \/ best[k] >= v(pos) THEN best[k] ELSE v(pos)
    BY <1>2, BetterRatio DEF BestKeys, n
  <2>2. v(pos) \in Nat /\ \A i \in Seen : v(i) \in Nat
    BY <1>2, <1>4, RatioType DEF n
  <2>3. /\ \A i \in Seen : Considered(Counted(i)) => v(i) <= best[k]
        /\ best[k] = 0 \/ \E i \in Seen : v(i) = best[k]
    BY DEF BestInv
  <2>4. n = Counted(pos)
    BY DEF n
  <2> HIDE DEF v
  <2>5. /\ \A i \in Seen \cup {pos} : Considered(Counted(i)) => v(i) <= best'[k]
        /\ best'[k] = 0 \/ \E i \in Seen \cup {pos} : v(i) = best'[k]
    BY <2>1, <2>2, <2>3, <2>4
  <2> QED BY <2>5 DEF v
<1>8. /\ \A k \in {"TRUE_POS", "TRUE_NEG"} :
           /\ \A i \in Seen' : Counted(i)'[k] <= best'[k]
           /\ best'[k] = 0 \/ \E i \in Seen' : Counted(i)'[k] = best'[k]
      /\ \A k \in {"FALSE_POS", "FALSE_NEG"} :
           /\ \A i \in Seen' : best'[k] <= Counted(i)'[k]
           /\ Unset <= best'[k] \/ \E i \in Seen' : Counted(i)'[k] = best'[k]
  BY <1>1, <1>3, <1>5, <1>6
<1>9. \A k \in Ratios :
        /\ \A i \in Seen' :
             Considered(Counted(i)') => summary_row(Counted(i)')[k].val <= best'[k]
        /\ best'[k] = 0 \/ \E i \in Seen' : summary_row(Counted(i)')[k].val = best'[k]
  BY <1>1, <1>3, <1>7
<1> QED BY <1>8, <1>9 DEF BestInv

LEMMA BestAlways == Spec => []BestInv
<1>1. TypeOK /\ BestInv /\ [Next]_vars => BestInv'
  <2> SUFFICES ASSUME TypeOK, BestInv, [Next]_vars PROVE BestInv'
    OBVIOUS
  <2>1. CASE Gather
    <3>1. pos = 1 /\ pos' = pos /\ best' = best /\ phase' = phase /\ phase = "gather"
      BY <2>1 DEF Gather, BestInv
    <3>2. Seen = {} /\ Seen' = {}
      BY <3>1 DEF Seen
    <3> QED BY <3>1, <3>2 DEF BestInv
  <2>2. ASSUME UNCHANGED <<best, pos, results>>, phase' \in {"scan", "raised", phase}
        PROVE  BestInv'
    BY <2>2 DEF BestInv, Seen, Counted
  <2>3. CASE StartScan
    BY <2>2, <2>3, Zenon DEF StartScan
  <2>4. CASE Scan
    <3>1. CASE Raises(Counted(pos))
      BY <2>2, <2>4, <3>1 DEF Scan, Counted
    <3>2. CASE ~ Raises(Counted(pos))
      BY <2>4, <3>2, ScanKeepsBest DEF Scan, Counted
    <3> QED BY <3>1, <3>2
  <2>5. CASE Finish
    <3>1. pos' = Len(used_toolnames) + 1 /\ phase' = "done" /\ UNCHANGED <<best, pos, results>>
      BY <2>5, ToolNames DEF Finish, TypeOK
    <3> QED BY <3>1 DEF BestInv, Seen, Counted
  <2>6. CASE UNCHANGED vars
    BY <2>2, <2>6 DEF vars
  <2> QED BY <2>1, <2>3, <2>4, <2>5, <2>6, Zenon DEF Next
<1> QED BY <1>1, InitBest, StatsTypeCorrect, PTL DEF Spec

(***************************************************************************)
(* What the search for the best values finds is the best: some tool has it *)
(* and no tool that was considered has a better one.  The search starts    *)
(* from 999999 false positives: with more tests than that it could go      *)
(* wrong.                                                                  *)
(***************************************************************************)
THEOREM BestIsAlwaysBest == MaxTests <= Unset /\ Spec => []BestIsBest
<1>0. SUFFICES ASSUME MaxTests <= Unset PROVE Spec => []BestIsBest
  BY Zenon
<1>a. Unset \in Nat /\ MaxTests <= Unset
  BY <1>0, UnsetIsNumber
<1>1. TypeOK /\ CountInv /\ BoundInv /\ BestInv => BestIsBest
  <2> SUFFICES ASSUME TypeOK, CountInv, BoundInv, BestInv, phase = "done"
               PROVE  BestIsBest
    BY Zenon DEF BestIsBest
  <2> DEFINE n(t) == results["total"][t]
  <2>1. Seen = 1 .. Len(used_toolnames)
    BY ToolNames DEF BestInv, Seen, TypeOK
  <2>2. \A i \in Seen : used_toolnames[i] \in Tools /\ Counted(i) = n(used_toolnames[i])
    BY <2>1, CountedType, Zenon DEF Counted
  <2>3. \A t \in Tools : \E i \in Seen : t = used_toolnames[i] /\ n(t) = Counted(i)
    BY <2>1, ToolNames, Zenon DEF Tools, Counted
  <2>4. ASSUME NEW t \in Tools
        PROVE  /\ n(t) \in Counts
               /\ \A k \in Verdicts : n(t)[k] \in Nat /\ n(t)[k] <= Unset
    <3>1. n(t) \in Counts /\ n(t) = html[t]
      BY ResultTypes, TableNames, Zenon DEF CountInv
    <3>2. Total(n(t)) <= MaxTests
      BY <3>1, Zenon DEF BoundInv
    <3>3. \A k \in Verdicts : n(t)[k] \in Nat /\ n(t)[k] <= Total(n(t)) /\ Total(n(t)) \in Nat
      <4> DEFINE x == n(t)
      <4>1. x \in Counts
        BY <3>1
      <4> HIDE DEF x
      <4>2. \A k \in Lists : x[k] \in Nat
        BY <4>1 DEF Counts
      <4>3. \A k \in Verdicts : x[k] \in Nat /\ x[k] <= Total(x) /\ Total(x) \in Nat
        BY <4>2, SMT DEF Total, Judgements, Verdicts, Lists, Failures
      <4> QED BY <4>3, Zenon DEF x
    <3> QED BY <1>a, <3>1, <3>2, <3>3, StatsAssumption
  <2>5. ASSUME NEW k \in {"TRUE_POS", "TRUE_NEG"}
        PROVE  (\A t \in Tools : n(t)[k] <= best[k]) /\ (\E t \in Tools : n(t)[k] = best[k])
    <3>1. \A t \in Tools : n(t)[k] <= best[k]
      BY <2>3, Zenon DEF BestInv
    <3>2. CASE \E i \in Seen : Counted(i)[k] = best[k]
      <4>1. PICK i \in Seen : Counted(i)[k] = best[k]
        BY <3>2
      <4> QED BY <2>2, <3>1, <4>1, Zenon
    <3>3. CASE best[k] = 0
      <4>1. n(FirstTool)[k] \in Nat /\ n(FirstTool)[k] <= 0
        BY <2>4, <3>1, <3>3, ToolNames DEF Verdicts
      <4>2. n(FirstTool)[k] = 0
        BY <4>1, SMT
      <4> QED BY <3>1, <3>3, <4>2, ToolNames, Zenon
    <3> QED BY <3>1, <3>2, <3>3, Zenon DEF BestInv
  <2>6. ASSUME NEW k \in {"FALSE_POS", "FALSE_NEG"}
        PROVE  (\A t \in Tools : n(t)[k] >= best[k]) /\ (\E t \in Tools : n(t)[k] = best[k])
    <3>1. /\ \A i \in Seen : best[k] <= Counted(i)[k]
          /\ Unset <= best[k] \/ \E i \in Seen : Counted(i)[k] = best[k]
      BY DEF BestInv
    <3>2. best[k] \in Nat /\ k \in Verdicts
      BY DEF TypeOK, BestKeys, Verdicts
    <3>3. \A t \in Tools : n(t)[k] >= best[k]
      BY <2>3, <2>4, <3>1, <3>2
    <3>4. CASE \E i \in Seen : Counted(i)[k] = best[k]
      BY <2>2, <3>3, <3>4
    <3>5. CASE Unset <= best[k]
      <4>1. n(FirstTool)[k] = best[k]
        BY <1>a, <2>4, <3>2, <3>3, <3>5, ToolNames
      <4> QED BY <3>3, <4>1, ToolNames
    <3> QED BY <3>1, <3>4, <3>5
  <2>7. ASSUME NEW k \in Ratios
        PROVE  /\ \A t \in Tools : Considered(n(t)) => summary_row(n(t))[k].val <= best[k]
               /\ best[k] = 0 \/ \E t \in Tools : summary_row(n(t))[k].val = best[k]
    <3>1. /\ \A i \in Seen : Considered(Counted(i)) => summary_row(Counted(i))[k].val <= best[k]
          /\ best[k] = 0 \/ \E i \in Seen : summary_row(Counted(i))[k].val = best[k]
      BY DEF BestInv
    <3> QED BY <2>2, <2>3, <3>1
  <2>8. \A k \in Verdicts : k \in {"TRUE_POS", "TRUE_NEG"} \/ k \in {"FALSE_POS", "FALSE_NEG"}
    BY DEF Verdicts
  <2>9. \A k \in Verdicts : \E t \in Tools : n(t)[k] = best[k]
    BY <2>5, <2>6, <2>8, Zenon
  <2> QED BY <2>5, <2>6, <2>7, <2>9 DEF BestIsBest
<1> QED BY <1>1, CountAlways, BoundAlways, BestAlways, PTL
-----------------------------------------------------------------------------
\* When the search fails: the string that percent() returns.
LEMMA RaisesWhen ==
  ASSUME NEW n \in Counts PROVE Raises(n) <=> FailsFor(n)
<1> DEFINE tp == n["TRUE_POS"]
           tn == n["TRUE_NEG"]
           fp == n["FALSE_POS"]
           fn == n["FALSE_NEG"]
<1>1. tp \in Nat /\ tn \in Nat /\ fp \in Nat /\ fn \in Nat /\ Total(n) \in Nat
  BY CountFields, TotalType
<1>2. ASSUME Considered(n) PROVE Total(n) # 0
  <2>1. fp + tn # 0
    BY <1>1, <1>2 DEF Considered
  <2>2. Judgements(n) = tp + tn + fp + fn /\ Judgements(n) <= Total(n) /\ Judgements(n) \in Nat
    BY TotalType DEF Judgements
  <2> HIDE DEF tp, tn, fp, fn
  <2> QED BY <1>1, <2>1, <2>2
<1>3. latex_accuracy(n).is = "string" <=> Total(n) = 0 \/ RoundsToAll(tp + tn, Total(n))
  <2> DEFINE judged == tp + tn
  <2>1. judged \in Nat
    BY <1>1
  <2>2. latex_accuracy(n) = percent(judged, Total(n))
    BY DEF latex_accuracy
  <2> HIDE DEF judged
  <2>3. latex_accuracy(n).is = "string" <=> Total(n) = 0 \/ RoundsToAll(judged, Total(n))
    BY <1>1, <2>1, <2>2, StringWhen
  <2> QED BY <2>3 DEF judged
<1>4. F1Parts(n) \in Nat /\ F1Whole(n) \in Nat
  BY <1>1 DEF F1Parts, F1Whole
<1>5. F1(n).is = "string" <=> F1Whole(n) = 0 \/ RoundsToAll(F1Parts(n), F1Whole(n))
  <2>1. F1(n) = percent(F1Parts(n), F1Whole(n))
    BY DEF F1, F1Parts, F1Whole
  <2> QED BY <1>4, <2>1, StringWhen
<1>6. ASSUME Considered(n) PROVE F1Whole(n) = 0 <=> tp = 0 /\ tn = 0
  <2>1. tp + fn \in Nat \ {0} /\ tp + fp \in Nat \ {0}
    BY <1>1, <1>6 DEF Considered
  <2>2. /\ tn * (tp + fn) \in Nat /\ tp * (tp + fp) \in Nat
        /\ tn * (tp + fn) = 0 <=> tn = 0
        /\ tp * (tp + fp) = 0 <=> tp = 0
    <3>1. \A x \in Nat, y \in Nat \ {0} : x * y \in Nat /\ (x * y = 0 <=> x = 0)
      OBVIOUS
    <3> QED BY <1>1, <2>1, <3>1
  <2> QED BY <2>2 DEF F1Whole
<1> QED BY <1>2, <1>3, <1>5, <1>6 DEF Raises, FailsFor

SearchInv ==
  /\ \A i \in Seen : ~ Raises(Counted(i))
  /\ phase = "raised" => pos <= Len(used_toolnames) /\ Raises(Counted(pos))

LEMMA SearchStep ==
  ASSUME TypeOK, BestInv, SearchInv, [Next]_vars PROVE SearchInv'
<1>1. CASE Gather
  <2>1. pos = 1 /\ pos' = pos /\ phase' = phase /\ phase = "gather"
    BY <1>1 DEF Gather, BestInv
  <2>2. Seen' = {}
    BY <2>1 DEF Seen
  <2> QED BY <2>1, <2>2 DEF SearchInv
<1>2. ASSUME UNCHANGED <<pos, results>>, phase' # "raised" \/ phase' = phase
      PROVE  SearchInv'
  BY <1>2 DEF SearchInv, Seen, Counted
<1>3. CASE Scan
  <2>1. /\ pos <= Len(used_toolnames) /\ pos \in Nat \ {0}
        /\ results' = results /\ phase = "scan"
    BY <1>3, ToolNames DEF Scan, TypeOK
  <2>2. CASE Raises(Counted(pos))
    <3>1. pos' = pos
      BY <1>3, <2>2 DEF Scan, Counted
    <3> QED BY <2>1, <2>2, <3>1 DEF SearchInv, Seen, Counted
  <2>3. CASE ~ Raises(Counted(pos))
    <3>1. pos' = pos + 1 /\ phase' = "scan"
      BY <1>3, <2>1, <2>3 DEF Scan, Counted
    <3>2. Seen' = Seen \cup {pos} /\ \A i : Counted(i)' = Counted(i)
      BY <2>1, <3>1 DEF Seen, Counted
    <3>3. \A i \in Seen' : ~ Raises(Counted(i)')
      BY <2>3, <3>2 DEF SearchInv
    <3> QED BY <3>1, <3>3 DEF SearchInv
  <2> QED BY <2>2, <2>3
<1>4. CASE StartScan
  BY <1>2, <1>4 DEF StartScan
<1>5. CASE Finish
  BY <1>2, <1>5 DEF Finish
<1>6. CASE UNCHANGED vars
  BY <1>2, <1>6 DEF vars
<1> QED BY <1>1, <1>3, <1>4, <1>5, <1>6, Zenon DEF Next

\* What is right on every test has an accuracy of 100 percent.
LEMMA PerfectFails ==
  ASSUME TypeOK, CountInv, NEW t \in Tools, Perfect(t)
  PROVE  FailsFor(results["total"][t])
<1> DEFINE n == results["total"][t]
           x == Total(n)
<1>1. n \in Counts /\ x \in Nat
  BY ResultTypes, TableNames, TotalType
<1>2. n["TRUE_POS"] + n["TRUE_NEG"] = x
  <2>1. x = expects[t].OK + expects[t].error
    BY DEF CountInv
  <2>2. expects[t].OK \in Nat /\ expects[t].error \in Nat
    BY DEF TypeOK
  <2> QED BY <2>1, <2>2 DEF Perfect
<1>3. x # 0
  BY <1>1, CountFields DEF Perfect, Considered, Total, Judgements
<1>4. RoundsToAll(x, x)
  <2> HIDE DEF x
  <2> QED BY <1>1, <1>3 DEF RoundsToAll
<1> QED BY <1>2, <1>4 DEF FailsFor, Perfect

(***************************************************************************)
(* For any tools, categories and tests, the search fails exactly for the   *)
(* results that SearchEnds names.                                          *)
(***************************************************************************)
THEOREM WhenTheSearchFails == Spec => []SearchEnds
<1>1. Init => SearchInv
  BY DEF Init, SearchInv, Seen
<1>2. TypeOK /\ CountInv /\ BestInv /\ SearchInv => SearchEnds
  <2> SUFFICES ASSUME TypeOK, CountInv, BestInv, SearchInv PROVE SearchEnds
    OBVIOUS
  <2>1. \A t \in Tools : Raises(results["total"][t]) <=> FailsFor(results["total"][t])
    BY ResultTypes, TableNames, RaisesWhen
  <2>2. ASSUME phase = "done" PROVE \A t \in Tools : ~ FailsFor(results["total"][t])
    <3>1. Seen = 1 .. Len(used_toolnames)
      BY <2>2, ToolNames DEF BestInv, Seen
    <3>2. \A t \in Tools : \E i \in Seen : results["total"][t] = Counted(i)
      BY <3>1, ToolNames DEF Tools, Counted
    <3> QED BY <2>1, <3>2 DEF SearchInv
  <2>3. ASSUME phase = "raised" PROVE \E t \in Tools : FailsFor(results["total"][t])
    <3>1. pos \in 1 .. Len(used_toolnames) /\ Raises(Counted(pos))
      BY <2>3, ToolNames DEF SearchInv, TypeOK
    <3>2. used_toolnames[pos] \in Tools
      BY <3>1, CountedType
    <3> QED BY <2>1, <3>1, <3>2 DEF Counted
  <2>4. phase = "done" => ~ \E t \in Tools : Perfect(t)
    BY <2>2, PerfectFails
  <2>5. IdealTool <=> ~ (phase \in {"done", "raised"} /\ \E t \in Tools : Perfect(t))
    <3>1. ASSUME NEW t \in Tools, phase \in {"done", "raised"}, Perfect(t)
          PROVE  ~ IdealTool
      <4>1. phase # "done"
        BY <2>4, <3>1
      <4> QED BY <3>1, <4>1, Zenon DEF IdealTool, Perfect
    <3>2. ASSUME \A t \in Tools : ~ (phase \in {"done", "raised"} /\ Perfect(t))
          PROVE  IdealTool
      BY <3>2, Zenon DEF IdealTool, Perfect
    <3> QED BY <3>1, <3>2, Zenon
  <2> QED BY <2>2, <2>3, <2>5 DEF SearchEnds
<1> QED BY <1>1, <1>2, SearchStep, CountAlways, BestAlways, PTL DEF Spec
=============================================================================
