------------------------------- MODULE Stats -------------------------------
(***************************************************************************)
(* common/benchmarks.c, analyze_array: minimum, maximum and median of the  *)
(* measured times, the median from a qsort with compareULLongs.  The mean  *)
(* and the standard deviation are sums of doubles and left out.            *)
(***************************************************************************)
EXTENDS Integers, FiniteSets, Functions

CONSTANTS
    INT_MAX,     \* of the machine that runs the benchmark
    ULLONG_MAX,
    MaxSize      \* arrays have at most this many elements

\* An unsigned long long has room for a whole number of ints.
ASSUME LimitsAssumption == /\ {INT_MAX, ULLONG_MAX} \subseteq Nat
                           /\ (ULLONG_MAX + 1) % (2 * (INT_MAX + 1)) = 0
ASSUME SizeAssumption == MaxSize \in Nat \ {0}

ULLongs == 0..ULLONG_MAX

VARIABLES
    at,       \* where analyze_array is
    arr,      \* the array, from index 0
    i,        \* index of the scan for minimum and maximum
    min, max,
    median2   \* twice the median, which is half of an integer

analyzeVars == <<at, arr, i, min, max, median2>>

size == Cardinality(DOMAIN arr)

\* Every array of times; evaluateClient asserts that there is one at least.
AnalyzeInit ==
    /\ at = "scan"
    /\ arr \in UNION {[0..(n - 1) -> ULLongs] : n \in 1..MaxSize}
    /\ i = 1
    /\ min = arr[0]
    /\ max = arr[0]
    /\ median2 = 0

\* Mutant: the result of a comparison, which is never negative.
compareULLongsGreater(a, b) == IF a > b THEN 1 ELSE 0

\* The difference of the unsigned values, cut to an int
compareULLongs(a, b) ==
    LET low == ((a - b) % (ULLONG_MAX + 1)) % (2 * (INT_MAX + 1))
    IN IF low <= INT_MAX THEN low ELSE low - 2 * (INT_MAX + 1)

\* compareULLongs orders the elements of a: what qsort needs to promise anything
IsOrder(a) ==
    /\ \A j, k \in DOMAIN a :
          (compareULLongs(a[j], a[k]) < 0) <=> (compareULLongs(a[k], a[j]) > 0)
    /\ \A j, k, l \in DOMAIN a :
          compareULLongs(a[j], a[k]) <= 0 /\ compareULLongs(a[k], a[l]) <= 0 =>
              compareULLongs(a[j], a[l]) <= 0

Permuted(a) == {[j \in DOMAIN a |-> a[f[j]]] : f \in Bijection(DOMAIN a, DOMAIN a)}

\* qsort: the elements in compareULLongs' order, or in any if it is none
qsort(a) ==
    {b \in Permuted(a) :
        IsOrder(a) => \A j, k \in DOMAIN b : j < k => compareULLongs(b[j], b[k]) <= 0}

\* One turn of the loop that finds minimum and maximum, with its else if
Scan ==
    /\ at = "scan"
    /\ IF i < size
       THEN /\ min' = IF arr[i] < min THEN arr[i] ELSE min
            /\ max' = IF arr[i] >= min /\ arr[i] > max THEN arr[i] ELSE max
            /\ i' = i + 1
            /\ UNCHANGED at
       ELSE /\ at' = "sort"
            /\ UNCHANGED <<min, max, i>>
    /\ UNCHANGED <<arr, median2>>

Sort ==
    /\ at = "sort"
    /\ arr' \in qsort(arr)
    /\ at' = "median"
    /\ UNCHANGED <<i, min, max, median2>>

\* The sum of the two middle elements is an unsigned one.
Median ==
    /\ at = "median"
    /\ median2' = IF size % 2 = 0
                  THEN (arr[size \div 2 - 1] + arr[size \div 2]) % (ULLONG_MAX + 1)
                  ELSE 2 * arr[size \div 2]
    /\ at' = "done"
    /\ UNCHANGED <<arr, i, min, max>>

AnalyzeNext == Scan \/ Sort \/ Median

AnalyzeSpec == AnalyzeInit /\ [][AnalyzeNext]_analyzeVars
-----------------------------------------------------------------------------
\* The k-th smallest element, by counting
KthSmallest(k) ==
    CHOOSE v \in Range(arr) :
        /\ Cardinality({j \in DOMAIN arr : arr[j] < v}) < k
        /\ Cardinality({j \in DOMAIN arr : arr[j] <= v}) >= k

\* The times are closer together than an int can tell (2^31 ns, two seconds)
\* and their sums do not wrap.
Ordinary == max - min <= INT_MAX /\ 2 * max <= ULLONG_MAX

MedianTrue ==
    median2 = KthSmallest((size + 1) \div 2) + KthSmallest(size \div 2 + 1)

\* analyze_array reports the least and the greatest time although its loop
\* tests the maximum only in an else, and of ordinary times the true median
\* although compareULLongs cuts a 64-bit difference to an int.
ReportRight ==
    at = "done" =>
        /\ \A v \in Range(arr) : min <= v /\ v <= max
        /\ {min, max} \subseteq Range(arr)
        /\ Ordinary => MedianTrue
=============================================================================
