-------------------------- MODULE IngestionProofs --------------------------
(***************************************************************************)
(* What is proved of the ingestion, for an archive of any size and for any *)
(* manifest and predictions, of the redaction, for any lines, and of what  *)
(* the texts of an archive bring to the passports of its objects. The      *)
(* lemmas on sums, folds and orders are those of TabularProofs.            *)
(***************************************************************************)
EXTENDS MCCases, TabularProofs

-----------------------------------------------------------------------------
(* Lists of reasons.                                                       *)

\* A list is a sequence of whatever values.
IsList(list) == \E n \in Nat : list = [i \in 1..n |-> list[i]]

LEMMA ListFacts ==
    ASSUME NEW list, IsList(list)
    PROVE  /\ Len(list) \in Nat /\ DOMAIN list = 1..Len(list)
           /\ list \in Seq(Range(list)) /\ IsFiniteSet(DOMAIN list)
           /\ Cardinality(DOMAIN list) = Len(list)
<1>1. PICK n \in Nat : list = [i \in 1..n |-> list[i]]
  BY DEF IsList
<1>2. list \in [1..n -> Range(list)]
  BY <1>1 DEF Range
<1>3. list \in Seq(Range(list)) /\ Len(list) = n /\ DOMAIN list = 1..n
  BY <1>2
<1>4. IsFiniteSet(1..n) /\ Cardinality(1..n) = IF 1 > n THEN 0 ELSE n - 1 + 1
  BY FS_Interval
<1> QED
  BY <1>3, <1>4

\* No reason is given when none of the list applies.
LEMMA NoReason ==
    ASSUME NEW reasons, IsList(reasons)
    PROVE  FirstReason(reasons) = Missing <=> \A i \in DOMAIN reasons : reasons[i] = Missing
<1> DEFINE raised == Range(reasons) \ {Missing}
<1>1. DOMAIN reasons \subseteq Nat
  BY ListFacts
<1>2. CASE raised = {}
  BY <1>2 DEF FirstReason, Range
<1>3. CASE raised # {}
  <2>1. \E i \in DOMAIN reasons : reasons[i] \in raised
    BY <1>3 DEF Range
  <2>2. FirstOf(reasons, raised) \in raised
    <3> HIDE DEF raised
    <3> QED
      BY <1>1, <2>1, FirstIsListed
  <2>3. FirstReason(reasons) # Missing
    BY <1>3, <2>2 DEF FirstReason
  <2> QED
    BY <2>1, <2>3
<1> QED
  BY <1>2, <1>3

\* What a list joined to another gives a reason for.
LEMMA NoReasonInTwo ==
    ASSUME NEW a, NEW b, IsList(a), IsList(b)
    PROVE  /\ IsList(a \o b)
           /\ FirstReason(a \o b) = Missing <=>
                 (\A i \in DOMAIN a : a[i] = Missing) /\ (\A i \in DOMAIN b : b[i] = Missing)
<1> DEFINE V == Range(a) \cup Range(b)
           c == a \o b
<1>1. a \in Seq(V) /\ b \in Seq(V)
  BY ListFacts
<1>2. c \in Seq(V) /\ Len(c) = Len(a) + Len(b)
  BY <1>1
<1>3. /\ \A i \in DOMAIN a : c[i] = a[i] /\ i \in DOMAIN c
      /\ \A i \in DOMAIN b : c[i + Len(a)] = b[i] /\ i + Len(a) \in DOMAIN c
  BY <1>1
<1>4. \A i \in DOMAIN c : (i \in DOMAIN a /\ c[i] = a[i])
                          \/ (i - Len(a) \in DOMAIN b /\ c[i] = b[i - Len(a)])
  BY <1>1
<1>5. IsList(c)
  <2> HIDE DEF c
  <2>1. c = [i \in 1..Len(c) |-> c[i]] /\ Len(c) \in Nat
    BY <1>2
  <2> QED
    BY <2>1 DEF IsList
<1> HIDE DEF c
<1> QED
  BY <1>3, <1>4, <1>5, NoReason DEF c

-----------------------------------------------------------------------------
(* Lists that are joined one after the other.                              *)

\* f holds the joined lists of seqs up to each of the first n.
IsJoin(f, seqs, n) == f = [i \in 1..n |-> IF i = 1 THEN seqs[i] ELSE f[i - 1] \o seqs[i]]

LEMMA JoinExists ==
    ASSUME NEW seqs
    PROVE  \A n \in Nat : \E f : IsJoin(f, seqs, n)
<1> DEFINE T == {n \in Nat : ~\E f : IsJoin(f, seqs, n)}
<1> SUFFICES ASSUME T # {} PROVE FALSE
  OBVIOUS
<1>1. PICK n \in T : \A m \in T : n <= m
  <2>1. T \in SUBSET Nat
    OBVIOUS
  <2> HIDE DEF T
  <2> QED
    BY <2>1, LeastExists
<1>2. n # 0
  <2>1. IsJoin([i \in 1..0 |-> 0], seqs, 0)
    BY DEF IsJoin
  <2> QED
    BY <1>1, <2>1
<1>3. n \in Nat /\ n - 1 \in Nat /\ n - 1 \notin T
  BY <1>1, <1>2
<1>4. PICK f : IsJoin(f, seqs, n - 1)
  BY <1>3
<1> DEFINE g == [i \in 1..n |-> IF i < n THEN f[i] ELSE IF n = 1 THEN seqs[n] ELSE f[n - 1] \o seqs[n]]
<1>5. \A i \in 1..n : i < n => /\ i \in 1..(n - 1)
                               /\ f[i] = IF i = 1 THEN seqs[i] ELSE f[i - 1] \o seqs[i]
  <2> SUFFICES ASSUME NEW i \in 1..n, i < n
               PROVE  /\ i \in 1..(n - 1)
                      /\ f[i] = IF i = 1 THEN seqs[i] ELSE f[i - 1] \o seqs[i]
    OBVIOUS
  <2>1. i \in 1..(n - 1)
    BY <1>3
  <2> QED
    BY <1>4, <2>1 DEF IsJoin
<1>6. \A i \in 1..n : g[i] = IF i = 1 THEN seqs[i] ELSE g[i - 1] \o seqs[i]
  <2> SUFFICES ASSUME NEW i \in 1..n
               PROVE  g[i] = IF i = 1 THEN seqs[i] ELSE g[i - 1] \o seqs[i]
    OBVIOUS
  <2>1. i # 1 => i - 1 \in 1..n /\ i - 1 < n /\ g[i - 1] = f[i - 1]
    BY <1>3
  <2>2. CASE i < n
    BY <1>5, <2>1, <2>2
  <2>3. CASE i = n
    BY <2>1, <2>3
  <2> QED
    BY <1>3, <2>2, <2>3
<1>7. IsJoin(g, seqs, n)
  <2>1. g = [i \in 1..n |-> g[i]]
    OBVIOUS
  <2> HIDE DEF g
  <2> QED
    BY <1>6, <2>1 DEF IsJoin
<1> QED
  BY <1>1, <1>7

\* Joined lists are a list of all members, as long as the lists together.
LEMMA JoinedFacts ==
    ASSUME NEW seqs, IsList(seqs), \A i \in DOMAIN seqs : IsList(seqs[i])
    PROVE  /\ IsList(FlattenSeq(seqs))
           /\ Range(FlattenSeq(seqs)) = UNION {Range(seqs[i]) : i \in DOMAIN seqs}
           /\ Len(FlattenSeq(seqs)) = SumFunction([i \in DOMAIN seqs |-> Len(seqs[i])])
<1> DEFINE n == Len(seqs)
           D == DOMAIN seqs
           c == [i \in D |-> Len(seqs[i])]
           join == CHOOSE f : IsJoin(f, seqs, n)
           Members(k) == UNION {Range(seqs[i]) : i \in 1..k}
<1>1. n \in Nat /\ D = 1..n /\ IsFiniteSet(D)
  BY ListFacts
<1>2. c \in [D -> Int]
  BY ListFacts
<1>3. PICK g : IsSum(g, c, D) /\ SumFunction(c) = g[D]
  <2> HIDE DEF c, D
  <2> QED
    BY <1>1, <1>2, SumIsRunning
<1>4. /\ g[{}] = 0
      /\ \A i \in D : g[1..i] = c[i] + g[1..(i - 1)] /\ g[1..i] \in Int
  <2>1. g[{}] = 0
    BY <1>3 DEF IsSum
  <2>2. \A i \in D : 1..i \in SUBSET D /\ i \in 1..i /\ (1..i) \ {i} = 1..(i - 1)
    BY <1>1
  <2> SUFFICES ASSUME NEW i \in D
               PROVE  g[1..i] = c[i] + g[1..(i - 1)] /\ g[1..i] \in Int
    BY <2>1
  <2> HIDE DEF c, D
  <2>3. 1..i \in SUBSET D /\ i \in 1..i /\ (1..i) \ {i} = 1..(i - 1)
    BY <2>2
  <2>4. g[1..i] \in Int /\ \A j \in 1..i : g[1..i] = c[j] + g[(1..i) \ {j}]
    <3>1. \A s \in SUBSET D : g[s] \in Int /\ \A j \in s : g[s] = c[j] + g[s \ {j}]
      <4>1. IsFiniteSet(D) /\ c \in [D -> Int] /\ IsSum(g, c, D)
        BY <1>1, <1>2, <1>3
      <4> QED
        BY ONLY <4>1, SumWithout
    <3> QED
      BY <2>3, <3>1
  <2> QED
    BY <2>3, <2>4
<1>5. IsJoin(join, seqs, n)
  BY <1>1, JoinExists
<1>6. \A i \in D : join[i] = IF i = 1 THEN seqs[i] ELSE join[i - 1] \o seqs[i]
  <2> HIDE DEF join
  <2> QED
    BY <1>1, <1>5 DEF IsJoin
<1>7. FlattenSeq(seqs) = IF n = 0 THEN seqs ELSE join[n]
  BY DEF FlattenSeq, IsJoin
<1> HIDE DEF join, n, D, c
<1> DEFINE Good(k) == IsList(join[k]) /\ Range(join[k]) = Members(k) /\ Len(join[k]) = g[1..k]
<1>8. \A k \in D : Good(k)
  <2> DEFINE T == {k \in D : ~Good(k)}
  <2> SUFFICES ASSUME T # {} PROVE FALSE
    OBVIOUS
  <2>1. PICK k \in T : \A m \in T : k <= m
    <3>1. T \in SUBSET Nat
      BY <1>1
    <3> HIDE DEF T
    <3> QED
      BY <3>1, LeastExists
  <2>2. k \in D /\ k \in 1..n /\ ~Good(k) /\ IsList(seqs[k])
    BY <1>1, <2>1 DEF D
  <2>3. CASE k = 1
    <3>1. join[k] = seqs[k]
      BY <1>6, <2>2, <2>3
    <3>2. Members(k) = Range(seqs[k])
      BY <2>3
    <3>3. g[1..k] = Len(seqs[k])
      <4>1. 1..(k - 1) = {}
        BY <2>3
      <4>2. c[k] = Len(seqs[k]) /\ Len(seqs[k]) \in Nat
        BY <2>2, ListFacts DEF c, D
      <4>3. g[1..k] = c[k] + g[1..(k - 1)]
        BY <1>4, <2>2
      <4>4. g[1..(k - 1)] = 0
        BY <1>4, <4>1
      <4> QED
        BY <4>2, <4>3, <4>4
    <3> QED
      BY <2>2, <3>1, <3>2, <3>3
  <2>4. CASE k # 1
    <3>1. k - 1 \in D /\ k - 1 \notin T
      <4>1. k - 1 \in D
        BY <1>1, <2>2, <2>4
      <4>2. k \in Nat /\ ~(k <= k - 1)
        BY <1>1, <2>2
      <4> HIDE DEF T
      <4> QED
        BY <2>1, <4>1, <4>2
    <3>2. Good(k - 1)
      BY <3>1
    <3>3. join[k] = join[k - 1] \o seqs[k]
      BY <1>6, <2>2, <2>4
    <3> HIDE DEF T
    <3> DEFINE a == join[k - 1]
               b == seqs[k]
               V == Range(a) \cup Range(b)
    <3>4. IsList(a) /\ IsList(b)
      BY <2>2, <3>2
    <3>5. a \in Seq(V) /\ b \in Seq(V)
      <4>1. a \in Seq(Range(a)) /\ b \in Seq(Range(b))
        BY <3>4, ListFacts
      <4> QED
        BY <4>1
    <3>6. /\ Len(a \o b) = Len(a) + Len(b) /\ Len(a) \in Nat /\ Len(b) \in Nat
          /\ Range(a \o b) = Range(a) \cup Range(b)
      <4> HIDE DEF a, b, V
      <4>1. Len(a \o b) = Len(a) + Len(b) /\ Len(a) \in Nat /\ Len(b) \in Nat
        BY <3>5
      <4>2. /\ \A i \in DOMAIN a : (a \o b)[i] = a[i] /\ i \in DOMAIN (a \o b)
            /\ \A i \in DOMAIN b : (a \o b)[i + Len(a)] = b[i] /\ i + Len(a) \in DOMAIN (a \o b)
        BY <3>5
      <4>3. \A i \in DOMAIN (a \o b) : (i \in DOMAIN a /\ (a \o b)[i] = a[i])
                 \/ (i - Len(a) \in DOMAIN b /\ (a \o b)[i] = b[i - Len(a)])
        BY <3>5
      <4>4. Range(a \o b) \subseteq Range(a) \cup Range(b)
        BY <4>3 DEF Range
      <4>5. Range(a) \subseteq Range(a \o b) /\ Range(b) \subseteq Range(a \o b)
        BY <4>2 DEF Range
      <4> QED
        BY <4>1, <4>4, <4>5
    <3>7. IsList(a \o b)
      BY <3>4, NoReasonInTwo
    <3>8. Members(k) = Members(k - 1) \cup Range(seqs[k])
      <4>1. 1..k = (1..(k - 1)) \cup {k}
        BY <1>1, <2>2
      <4> QED
        BY <4>1
    <3>9. g[1..k] = Len(b) + g[1..(k - 1)]
      BY <1>4, <2>2 DEF c, D
    <3>10. Range(a) = Members(k - 1) /\ Len(a) = g[1..(k - 1)]
      BY <3>2
    <3> HIDE DEF a, b, V, Members
    <3>11. IsList(join[k]) /\ Range(join[k]) = Members(k) /\ Len(join[k]) = g[1..k]
      BY <3>3, <3>6, <3>7, <3>8, <3>9, <3>10 DEF a, b
    <3> QED
      BY <2>2, <3>11
  <2> QED
    BY <2>3, <2>4
<1>9. CASE n = 0
  <2>1. D = {} /\ FlattenSeq(seqs) = seqs
    BY <1>1, <1>7, <1>9
  <2>2. SumFunction(c) = 0 /\ Len(seqs) = 0
    BY <1>3, <1>4, <1>9, <2>1 DEF n
  <2>3. Range(seqs) = {} /\ DOMAIN seqs = {}
    BY <2>1 DEF D, Range
  <2> QED
    BY <2>1, <2>2, <2>3 DEF c, D
<1>10. CASE n # 0
  <2>1. n \in D /\ FlattenSeq(seqs) = join[n] /\ 1..n = D
    BY <1>1, <1>7, <1>10
  <2>2. Good(n)
    BY <1>8, <2>1
  <2>3. UNION {Range(seqs[i]) : i \in 1..n} = UNION {Range(seqs[i]) : i \in DOMAIN seqs}
    BY <2>1 DEF D
  <2>4. Len(join[n]) = SumFunction(c)
    BY <1>3, <2>1, <2>2
  <2> QED
    BY <2>1, <2>2, <2>3, <2>4 DEF c, D
<1> QED
  BY <1>9, <1>10

\* A part of a sum is no larger than the sum, unless what it leaves out is
\* negative, and it is the sum if it leaves out nothing but zeros.
LEMMA SumOfPart ==
    ASSUME NEW D, IsFiniteSet(D), NEW c \in [D -> Int], NEW A \in SUBSET D
    PROVE  /\ (\A x \in D \ A : c[x] = 0) => SumFunction([x \in A |-> c[x]]) = SumFunction(c)
           /\ (\A x \in D \ A : c[x] >= 0) => SumFunction([x \in A |-> c[x]]) <= SumFunction(c)
           /\ SumFunction(c) \in Int /\ SumFunction([x \in A |-> c[x]]) \in Int
<1> DEFINE d == [x \in A |-> c[x]]
<1>1. d \in [A -> Int] /\ IsFiniteSet(A) /\ \A x \in A : d[x] = c[x]
  BY FS_Subset
<1>2. PICK h : Totals(h, c, D)
  BY SumHasTotals
<1>3. PICK g : Totals(g, d, A)
  <2> HIDE DEF d
  <2> QED
    BY <1>1, SumHasTotals
<1>4. \A s \in SUBSET D : /\ h[s] \in Int
                         /\ \A x \in s : h[s] = c[x] + h[s \ {x}]
  BY <1>2 DEF Totals
<1>5. \A s \in SUBSET A : h[s] = g[s]
  <2> DEFINE T == {s \in SUBSET A : h[s] # g[s]}
  <2> SUFFICES ASSUME T # {} PROVE FALSE
    OBVIOUS
  <2>a. T \in SUBSET SUBSET A
    OBVIOUS
  <2>2. PICK s \in T : \A t \in T : t \subseteq s => t = s
    <3> HIDE DEF T
    <3> QED
      BY <1>1, <2>a, SmallestSubset
  <2>3. s # {}
    BY <1>2, <1>3, <2>2 DEF Totals
  <2>4. PICK x \in s : TRUE
    BY <2>3
  <2>5. s \in SUBSET A /\ s \in SUBSET D /\ s \ {x} \in SUBSET A /\ x \in A
    OBVIOUS
  <2>6. h[s \ {x}] = g[s \ {x}]
    BY <2>2, <2>4, <2>5
  <2>7. h[s] = c[x] + h[s \ {x}] /\ g[s] = d[x] + g[s \ {x}] /\ c[x] = d[x]
    BY <1>1, <1>3, <1>4, <2>4, <2>5 DEF Totals
  <2> QED
    BY <2>2, <2>6, <2>7
<1> DEFINE Zero == \A x \in D \ A : c[x] = 0
           Rising == \A x \in D \ A : c[x] >= 0
           Good(s) == (Zero => h[s] = h[A]) /\ (Rising => h[s] >= h[A])
<1>6. \A s \in SUBSET D : A \subseteq s => Good(s)
  <2> DEFINE T == {s \in SUBSET D : A \subseteq s /\ ~Good(s)}
  <2> SUFFICES ASSUME T # {} PROVE FALSE
    OBVIOUS
  <2>a. T \in SUBSET SUBSET D
    OBVIOUS
  <2>1. PICK s \in T : \A t \in T : t \subseteq s => t = s
    <3> HIDE DEF T
    <3> QED
      BY <2>a, SmallestSubset
  <2>2. s \in SUBSET D /\ A \subseteq s /\ ~Good(s)
    BY <2>1
  <2>3. h[A] \in Int
    BY <1>4
  <2>4. PICK x \in s : x \notin A
    <3>1. s # A
      BY <2>2, <2>3
    <3> QED
      BY <2>2, <3>1
  <2>5. s \ {x} \in SUBSET D /\ A \subseteq s \ {x} /\ s \ {x} # s /\ s \ {x} \notin T
    BY <2>1, <2>2, <2>4
  <2>6. Good(s \ {x})
    BY <2>5
  <2> HIDE DEF T
  <2>7. h[s] = c[x] + h[s \ {x}] /\ h[s] \in Int /\ h[s \ {x}] \in Int /\ c[x] \in Int
    BY <1>4, <2>2, <2>4, <2>5
  <2>8. x \in D \ A
    BY <2>2, <2>4
  <2>9. Zero => h[s] = h[A]
    BY <2>3, <2>6, <2>7, <2>8
  <2>10. Rising => h[s] >= h[A]
    BY <2>3, <2>6, <2>7, <2>8
  <2> QED
    BY <2>2, <2>9, <2>10
<1>7. Good(D) /\ h[D] \in Int /\ h[A] \in Int
  BY <1>4, <1>6
<1>8. SumFunction(c) = h[D] /\ SumFunction(d) = h[A]
  BY <1>2, <1>3, <1>5 DEF Totals
<1> QED
  BY <1>7, <1>8

-----------------------------------------------------------------------------
(* The cases: any archive, whatever its entries hold.                      *)

\* What the code names in these steps: the reasons it raises and the suffixes
\* it lets pass. None of them is None.
IngestionTexts ==
    {"empty_entry_name", "nul_byte_in_entry", "absolute_path", "windows_drive_path", "path_traversal",
     "symlink_entry", "missing_extension", "forbidden_extension", "uncompressed_size_exceeded",
     "archive_missing", "compressed_size_exceeded", "bad_zip_file", "file_count_exceeded",
     "missing_required_entry", "raw_hash_mismatch", "not_utf8_jsonl", "empty_manifest",
     "missing_required_field", "empty_predictions", "empty_probability_map", "probability_sum_invalid",
     "argmax_mismatch", "confidence_mismatch", "csv", "jsonl", "json", "md"}

NoneIsNoText == Missing \notin IngestionTexts

EntryKinds == LineFormats \cup {"transactions", "annotations", "predictions", "readme", "other"}

Lines(V) == [status : {"blank", "invalid", "scalar", "object"}, record : V]

Entries(V) ==
    [name : V, dir : BOOLEAN, path : SUBSET Range(PathDefects), link : BOOLEAN, extension : V,
     size : Nat, kind : EntryKinds, utf8 : BOOLEAN, columns : V, table : Seq(V), lines : Seq(Lines(V))]

ArchivesOf(V) == [exists : BOOLEAN, size : Nat, zip : BOOLEAN, entries : Seq(Entries(V))]

IsIngestionCase(s) ==
    /\ NoneIsNoText
    /\ \E V : s \in [kind : {"ingestion"}, archive : ArchivesOf(V)]

LEMMA SeqIsList ==
    ASSUME NEW V, NEW list \in Seq(V)
    PROVE  IsList(list)
<1>1. Len(list) \in Nat /\ list = [i \in 1..Len(list) |-> list[i]]
  OBVIOUS
<1> QED
  BY <1>1 DEF IsList

LEMMA EmptyList ==
    ASSUME NEW V, NEW list \in Seq(V)
    PROVE  list = <<>> <=> DOMAIN list = {}
OBVIOUS

-----------------------------------------------------------------------------
(* An archive is opened when every check passes.                           *)

LEMMA WhenApplies ==
    ASSUME NoneIsNoText, NEW condition, NEW reason \in IngestionTexts
    PROVE  When(condition, reason) = Missing <=> ~condition
BY DEF When, NoneIsNoText

LEMMA NoReasonOfTwo ==
    ASSUME NEW a, NEW b
    PROVE  FirstReason(<<a, b>>) = Missing <=> a = Missing /\ b = Missing
<1> DEFINE list == <<a, b>>
<1>1. list \in Seq({a, b}) /\ DOMAIN list = 1..2 /\ list[1] = a /\ list[2] = b
  OBVIOUS
<1> HIDE DEF list
<1>2. \A i \in 1..2 : i = 1 \/ i = 2
  OBVIOUS
<1>3. IsList(list)
  BY <1>1, SeqIsList
<1>4. FirstReason(list) = Missing <=> \A i \in DOMAIN list : list[i] = Missing
  BY <1>3, NoReason
<1> QED
  BY <1>1, <1>2, <1>4 DEF list

LEMMA NoReasonOfFour ==
    ASSUME NEW a, NEW b, NEW c, NEW d
    PROVE  /\ IsList(<<a, b, c, d>>)
           /\ (\A i \in DOMAIN <<a, b, c, d>> : <<a, b, c, d>>[i] = Missing)
                 <=> a = Missing /\ b = Missing /\ c = Missing /\ d = Missing
<1> DEFINE list == <<a, b, c, d>>
<1>1. list \in Seq({a, b, c, d}) /\ DOMAIN list = 1..4
      /\ list[1] = a /\ list[2] = b /\ list[3] = c /\ list[4] = d
  OBVIOUS
<1> HIDE DEF list
<1>2. \A i \in 1..4 : i = 1 \/ i = 2 \/ i = 3 \/ i = 4
  OBVIOUS
<1>3. IsList(list)
  BY <1>1, SeqIsList
<1> QED
  BY <1>1, <1>2, <1>3 DEF list

LEMMA EntryChecks ==
    ASSUME NoneIsNoText, NEW V, NEW archive \in ArchivesOf(V), NEW i \in DOMAIN archive.entries
    PROVE  EntryFailure(archive, Policy, i) = Missing <=>
              /\ archive.entries[i].path = {} /\ ~archive.entries[i].link
              /\ ~archive.entries[i].dir =>
                    /\ archive.entries[i].extension \in Policy.extensions
                    /\ ~(UncompressedSize(archive, i) > Policy.uncompressed)
<1> DEFINE entry == archive.entries[i]
           defects == [d \in DOMAIN PathDefects |-> When(PathDefects[d] \in entry.path, PathDefects[d])]
           size == UncompressedSize(archive, i)
           second == When(~entry.dir /\ entry.extension = Missing, "missing_extension")
           third == When(~entry.dir /\ entry.extension \notin Policy.extensions, "forbidden_extension")
           fourth == When(~entry.dir /\ size > Policy.uncompressed, "uncompressed_size_exceeded")
           others == <<When(entry.link, "symlink_entry"), second, third, fourth>>
<1>1. entry \in Entries(V)
  BY DEF ArchivesOf
<1>2. DOMAIN PathDefects = 1..5 /\ \A d \in 1..5 : PathDefects[d] \in IngestionTexts
  <2>1. DOMAIN PathDefects = 1..5
    BY DEF PathDefects
  <2>2. /\ PathDefects[1] \in IngestionTexts /\ PathDefects[2] \in IngestionTexts
        /\ PathDefects[3] \in IngestionTexts /\ PathDefects[4] \in IngestionTexts /\ PathDefects[5] \in IngestionTexts
    BY DEF PathDefects, IngestionTexts
  <2>3. \A d \in 1..5 : d = 1 \/ d = 2 \/ d = 3 \/ d = 4 \/ d = 5
    OBVIOUS
  <2> QED
    BY <2>1, <2>2, <2>3
<1>3. IsList(defects)
  <2>1. DOMAIN defects = 1..5 /\ defects = [d \in 1..5 |-> defects[d]]
    BY <1>2
  <2> HIDE DEF defects
  <2> QED
    BY <2>1 DEF IsList
<1>4. (\A d \in DOMAIN defects : defects[d] = Missing) <=> entry.path = {}
  <2>1. DOMAIN defects = 1..5
    BY <1>2
  <2>2. \A d \in 1..5 : defects[d] = Missing <=> PathDefects[d] \notin entry.path
    <3> SUFFICES ASSUME NEW d \in 1..5
                 PROVE  defects[d] = Missing <=> PathDefects[d] \notin entry.path
      OBVIOUS
    <3>1. defects[d] = When(PathDefects[d] \in entry.path, PathDefects[d])
      BY <1>2
    <3> HIDE DEF defects, entry
    <3> QED
      BY <1>2, <3>1, WhenApplies
  <2>3. entry.path \subseteq {PathDefects[d] : d \in 1..5}
    BY <1>1, <1>2 DEF Entries, Range
  <2> HIDE DEF defects, entry
  <2> QED
    BY <2>1, <2>2, <2>3
<1>5. /\ When(entry.link, "symlink_entry") = Missing <=> ~entry.link
      /\ second = Missing <=> ~(~entry.dir /\ entry.extension = Missing)
      /\ third = Missing <=> ~(~entry.dir /\ entry.extension \notin Policy.extensions)
      /\ fourth = Missing <=> ~(~entry.dir /\ size > Policy.uncompressed)
  <2>1. /\ "symlink_entry" \in IngestionTexts /\ "missing_extension" \in IngestionTexts
        /\ "forbidden_extension" \in IngestionTexts /\ "uncompressed_size_exceeded" \in IngestionTexts
    BY DEF IngestionTexts
  <2> HIDE DEF entry, size
  <2> QED
    BY <2>1, WhenApplies
<1>6. Missing \notin Policy.extensions
  <2>1. Policy.extensions = {"csv", "jsonl", "json", "md"}
    BY DEF Policy
  <2>2. "csv" \in IngestionTexts /\ "jsonl" \in IngestionTexts /\ "json" \in IngestionTexts /\ "md" \in IngestionTexts
    BY DEF IngestionTexts
  <2> QED
    BY <2>1, <2>2 DEF NoneIsNoText
<1>7. EntryFailure(archive, Policy, i) = FirstReason(defects \o others)
  BY DEF EntryFailure
<1>8. /\ IsList(others)
      /\ (\A k \in DOMAIN others : others[k] = Missing) <=>
            When(entry.link, "symlink_entry") = Missing /\ second = Missing /\ third = Missing /\ fourth = Missing
  <2> HIDE DEF entry, size, second, third, fourth
  <2> QED
    BY NoReasonOfFour
<1> HIDE DEF defects, others
<1>9. FirstReason(defects \o others) = Missing <=>
         (\A d \in DOMAIN defects : defects[d] = Missing) /\ (\A k \in DOMAIN others : others[k] = Missing)
  BY <1>3, <1>8, NoReasonInTwo
<1> HIDE DEF second, third, fourth, size
<1> QED
  BY <1>1, <1>4, <1>5, <1>6, <1>7, <1>8, <1>9 DEF size, Entries

\* The sizes are added up entry by entry; the last sum is the largest.
LEMMA SizesAddUp ==
    ASSUME NEW V, NEW archive \in ArchivesOf(V)
    PROVE  LET total == SumFunction([i \in Contents(archive) |-> archive.entries[i].size])
           IN  /\ total \in Int
               /\ \A i \in Contents(archive) : /\ UncompressedSize(archive, i) \in Int
                                               /\ UncompressedSize(archive, i) <= total
               /\ Contents(archive) # {} => \E i \in Contents(archive) : UncompressedSize(archive, i) = total
<1> DEFINE files == Contents(archive)
           sizes == [i \in files |-> archive.entries[i].size]
           Upto(i) == {k \in files : k <= i}
<1>1. /\ files \subseteq DOMAIN archive.entries /\ IsFiniteSet(files) /\ files \subseteq Nat
      /\ sizes \in [files -> Nat] /\ sizes \in [files -> Int]
  <2>1. archive.entries \in Seq(Entries(V))
    BY DEF ArchivesOf
  <2>2. /\ DOMAIN archive.entries = 1..Len(archive.entries) /\ Len(archive.entries) \in Nat
        /\ \A i \in DOMAIN archive.entries : archive.entries[i].size \in Nat
    <3>1. /\ DOMAIN archive.entries = 1..Len(archive.entries) /\ Len(archive.entries) \in Nat
          /\ \A i \in DOMAIN archive.entries : archive.entries[i] \in Entries(V)
      BY <2>1
    <3> QED
      BY <3>1 DEF Entries
  <2>3. IsFiniteSet(DOMAIN archive.entries) /\ files \subseteq DOMAIN archive.entries
    BY <2>2, FS_Interval DEF Contents
  <2>4. IsFiniteSet(files)
    BY <2>3, FS_Subset
  <2> QED
    BY <2>2, <2>3, <2>4
<1>2. \A i \in files : UncompressedSize(archive, i) = SumFunction([k \in Upto(i) |-> sizes[k]])
  <2> SUFFICES ASSUME NEW i \in files
               PROVE  UncompressedSize(archive, i) = SumFunction([k \in Upto(i) |-> sizes[k]])
    OBVIOUS
  <2>1. [k \in Upto(i) |-> sizes[k]] = [j \in {k \in Contents(archive) : k <= i} |-> archive.entries[j].size]
    OBVIOUS
  <2> QED
    BY <2>1 DEF UncompressedSize
<1> HIDE DEF sizes, files
<1>3. SumFunction(sizes) \in Int
  BY <1>1, SumOfPart
<1>4. \A i \in files : /\ UncompressedSize(archive, i) \in Int
                       /\ UncompressedSize(archive, i) <= SumFunction(sizes)
  <2> SUFFICES ASSUME NEW i \in files
               PROVE  /\ UncompressedSize(archive, i) \in Int
                      /\ UncompressedSize(archive, i) <= SumFunction(sizes)
    OBVIOUS
  <2> DEFINE part == Upto(i)
  <2>1. part \in SUBSET files /\ \A x \in files \ part : sizes[x] >= 0
    BY <1>1
  <2> HIDE DEF part
  <2>2. /\ SumFunction([k \in part |-> sizes[k]]) <= SumFunction(sizes)
        /\ SumFunction([k \in part |-> sizes[k]]) \in Int
    BY <1>1, <2>1, SumOfPart
  <2> QED
    BY <1>2, <2>2 DEF part
<1>5. ASSUME files # {} PROVE \E i \in files : UncompressedSize(archive, i) = SumFunction(sizes)
  <2>1. Max(files) \in files /\ \A k \in files : Max(files) >= k
    BY <1>1, <1>5, MaxOfFinite
  <2>2. Upto(Max(files)) = files
    BY <1>1, <2>1
  <2>3. [k \in files |-> sizes[k]] = sizes
    BY <1>1
  <2> QED
    BY <1>2, <2>1, <2>2, <2>3
<1> QED
  BY <1>3, <1>4, <1>5 DEF sizes, files

\* An archive is opened exactly when it is safe as a whole.
LEMMA OpenedIsSafe ==
    ASSUME NoneIsNoText, NEW V, NEW archive \in ArchivesOf(V)
    PROVE  OpenFailure(archive, Policy) = Missing <=>
              /\ archive.exists /\ archive.zip
              /\ archive.size <= Policy.compressed /\ Len(archive.entries) <= Policy.files
              /\ \A i \in DOMAIN archive.entries : archive.entries[i].path = {} /\ ~archive.entries[i].link
              /\ \A i \in Contents(archive) : archive.entries[i].extension \in Policy.extensions
              /\ SumFunction([i \in Contents(archive) |-> archive.entries[i].size]) <= Policy.uncompressed
              /\ \E i \in Contents(archive) : archive.entries[i].kind = "transactions"
<1> DEFINE entries == archive.entries
           files == Contents(archive)
           total == SumFunction([i \in files |-> entries[i].size])
           a == When(~archive.exists, "archive_missing")
           b == When(archive.size > Policy.compressed, "compressed_size_exceeded")
           c == When(~archive.zip, "bad_zip_file")
           d == When(Len(entries) > Policy.files, "file_count_exceeded")
           whole == <<a, b, c, d>>
           each == [i \in DOMAIN entries |-> EntryFailure(archive, Policy, i)]
           required == When(OfKind(archive, "transactions") = {}, "missing_required_entry")
<1>1. /\ entries \in Seq(Entries(V)) /\ archive.exists \in BOOLEAN /\ archive.zip \in BOOLEAN
      /\ archive.size \in Nat
  BY DEF ArchivesOf
<1>2. /\ "archive_missing" \in IngestionTexts /\ "compressed_size_exceeded" \in IngestionTexts
      /\ "bad_zip_file" \in IngestionTexts /\ "file_count_exceeded" \in IngestionTexts
      /\ "missing_required_entry" \in IngestionTexts
  BY DEF IngestionTexts
<1>3. /\ a = Missing <=> archive.exists
      /\ b = Missing <=> ~(archive.size > Policy.compressed)
      /\ c = Missing <=> archive.zip
      /\ d = Missing <=> ~(Len(entries) > Policy.files)
      /\ required = Missing <=> OfKind(archive, "transactions") # {}
  <2> HIDE DEF entries
  <2> QED
    BY <1>2, WhenApplies
<1>4. /\ IsList(whole)
      /\ (\A k \in DOMAIN whole : whole[k] = Missing) <=>
            a = Missing /\ b = Missing /\ c = Missing /\ d = Missing
  <2> HIDE DEF a, b, c, d
  <2> QED
    BY NoReasonOfFour
<1>5. /\ IsList(each) /\ DOMAIN each = DOMAIN entries
      /\ \A i \in DOMAIN entries : each[i] = EntryFailure(archive, Policy, i)
  <2>1. each = [i \in 1..Len(entries) |-> each[i]] /\ Len(entries) \in Nat
    BY <1>1
  <2> HIDE DEF each
  <2>2. IsList(each)
    BY <2>1 DEF IsList
  <2> QED
    BY <2>2 DEF each
<1>6. SafetyFailure(archive, Policy) = FirstReason(whole \o each)
  BY DEF SafetyFailure
<1>7. OpenFailure(archive, Policy) = Missing <=> SafetyFailure(archive, Policy) = Missing /\ required = Missing
  <2> HIDE DEF required
  <2>1. OpenFailure(archive, Policy) = FirstReason(<<SafetyFailure(archive, Policy), required>>)
    BY DEF OpenFailure, required
  <2> QED
    BY <2>1, NoReasonOfTwo
<1> HIDE DEF whole, each, a, b, c, d, required
<1>8. FirstReason(whole \o each) = Missing <=>
         (\A k \in DOMAIN whole : whole[k] = Missing) /\ (\A i \in DOMAIN each : each[i] = Missing)
  BY <1>4, <1>5, NoReasonInTwo
<1>9. \A i \in DOMAIN entries : EntryFailure(archive, Policy, i) = Missing <=>
         /\ entries[i].path = {} /\ ~entries[i].link
         /\ ~entries[i].dir => /\ entries[i].extension \in Policy.extensions
                               /\ ~(UncompressedSize(archive, i) > Policy.uncompressed)
  BY EntryChecks
<1>10. /\ files = {i \in DOMAIN entries : ~entries[i].dir}
       /\ OfKind(archive, "transactions") # {} <=> \E i \in files : entries[i].kind = "transactions"
  BY DEF OfKind, Contents
<1>11. /\ total \in Int
       /\ \A i \in files : UncompressedSize(archive, i) \in Int /\ UncompressedSize(archive, i) <= total
       /\ files # {} => \E i \in files : UncompressedSize(archive, i) = total
  BY SizesAddUp
<1>12. Policy.compressed = 10 /\ Policy.uncompressed = 8 /\ Policy.files = 5 /\ Len(entries) \in Nat
  BY <1>1 DEF Policy
<1> HIDE DEF total, files, entries
<1>13. OpenFailure(archive, Policy) = Missing <=>
          /\ archive.exists /\ archive.zip
          /\ archive.size <= Policy.compressed /\ Len(entries) <= Policy.files
          /\ \A i \in DOMAIN entries :
                /\ entries[i].path = {} /\ ~entries[i].link
                /\ ~entries[i].dir => /\ entries[i].extension \in Policy.extensions
                                      /\ ~(UncompressedSize(archive, i) > Policy.uncompressed)
          /\ \E i \in files : entries[i].kind = "transactions"
  <2>1. ~(archive.size > Policy.compressed) <=> archive.size <= Policy.compressed
    BY <1>1, <1>12
  <2>2. ~(Len(entries) > Policy.files) <=> Len(entries) <= Policy.files
    BY <1>12
  <2> QED
    BY <1>3, <1>4, <1>5, <1>6, <1>7, <1>8, <1>9, <1>10, <2>1, <2>2
<1>14. ASSUME files # {}
       PROVE  (\A i \in files : ~(UncompressedSize(archive, i) > Policy.uncompressed))
                 <=> total <= Policy.uncompressed
  BY <1>11, <1>12, <1>14
<1>15. OpenFailure(archive, Policy) = Missing <=>
          /\ archive.exists /\ archive.zip
          /\ archive.size <= Policy.compressed /\ Len(entries) <= Policy.files
          /\ \A i \in DOMAIN entries : entries[i].path = {} /\ ~entries[i].link
          /\ \A i \in files : entries[i].extension \in Policy.extensions
          /\ total <= Policy.uncompressed
          /\ \E i \in files : entries[i].kind = "transactions"
  BY <1>10, <1>13, <1>14
<1> QED
  BY <1>15 DEF entries, files, total

-----------------------------------------------------------------------------
(* Every record of an archive is a row or is reported.                     *)

\* Different images of a set are as many as its members.
LEMMA ImagesAreAsMany ==
    ASSUME NEW S, IsFiniteSet(S), NEW f, DOMAIN f = S, \A x, y \in S : f[x] = f[y] => x = y
    PROVE  IsFiniteSet({f[x] : x \in S}) /\ Cardinality({f[x] : x \in S}) = Cardinality(S)
<1> DEFINE T == {f[x] : x \in S}
           g == [x \in S |-> f[x]]
<1>1. g \in [S -> T] /\ \A x \in S : g[x] = f[x]
  OBVIOUS
<1>2. \A t \in T : \E x \in S : g[x] = t
  OBVIOUS
<1>3. \A x, y \in S : g[x] = g[y] => x = y
  BY <1>1
<1> HIDE DEF g, T
<1>4. g \in Bijection(S, T)
  BY <1>1, <1>2, <1>3 DEF Bijection, Injection, Surjection, IsInjective
<1>5. ExistsBijection(S, T)
  BY <1>4 DEF ExistsBijection
<1> QED
  BY <1>5, FS_Bijection DEF T

LEMMA LinesOfStatus ==
    ASSUME NEW V, NEW lines \in Seq(Lines(V))
    PROVE  LET nonblank == {n \in DOMAIN lines : lines[n].status # "blank"}
               objects == {n \in DOMAIN lines : lines[n].status = "object"}
               bad == {n \in DOMAIN lines : lines[n].status \in {"invalid", "scalar"}}
           IN  /\ DOMAIN lines = 1..Len(lines) /\ Len(lines) \in Nat
               /\ nonblank \subseteq Int /\ objects \subseteq Int /\ bad \subseteq Int
               /\ IsFiniteSet(nonblank) /\ IsFiniteSet(objects) /\ IsFiniteSet(bad)
               /\ Cardinality(nonblank) = Cardinality(objects) + Cardinality(bad)
               /\ Cardinality(objects) \in Nat /\ Cardinality(bad) \in Nat
<1> DEFINE nonblank == {n \in DOMAIN lines : lines[n].status # "blank"}
           objects == {n \in DOMAIN lines : lines[n].status = "object"}
           bad == {n \in DOMAIN lines : lines[n].status \in {"invalid", "scalar"}}
<1>1. /\ DOMAIN lines = 1..Len(lines) /\ Len(lines) \in Nat
      /\ \A n \in DOMAIN lines : lines[n] \in Lines(V)
  OBVIOUS
<1>2. \A n \in DOMAIN lines : lines[n].status \in {"blank", "invalid", "scalar", "object"}
  BY <1>1 DEF Lines
<1>3. IsFiniteSet(DOMAIN lines) /\ DOMAIN lines \subseteq Int
  BY <1>1, FS_Interval
<1>4. /\ nonblank \subseteq DOMAIN lines /\ objects \subseteq DOMAIN lines /\ bad \subseteq DOMAIN lines
      /\ nonblank = objects \cup bad /\ objects \cap bad = {}
  BY <1>2
<1> HIDE DEF nonblank, objects, bad
<1>5. IsFiniteSet(nonblank) /\ IsFiniteSet(objects) /\ IsFiniteSet(bad)
  BY <1>3, <1>4, FS_Subset
<1>6. Cardinality(nonblank) = Cardinality(objects) + Cardinality(bad) - Cardinality({})
  BY <1>4, <1>5, FS_Union
<1>7. Cardinality({}) = 0 /\ Cardinality(objects) \in Nat /\ Cardinality(bad) \in Nat
  BY <1>5, FS_EmptySet, FS_CardinalityType
<1>8. Cardinality(nonblank) = Cardinality(objects) + Cardinality(bad)
  BY <1>6, <1>7
<1>9. nonblank \subseteq Int /\ objects \subseteq Int /\ bad \subseteq Int
  BY <1>3, <1>4
<1> QED
  BY <1>1, <1>5, <1>7, <1>8, <1>9 DEF nonblank, objects, bad

\* The rows of the lines are those of the records, each with its line.
LEMMA JsonlRowFacts ==
    ASSUME NEW V, NEW entry \in Entries(V)
    PROVE  LET objects == {n \in DOMAIN entry.lines : entry.lines[n].status = "object"}
           IN  /\ IsList(JsonlRows(entry)) /\ Len(JsonlRows(entry)) = Cardinality(objects)
               /\ Range(JsonlRows(entry)) =
                     {ManifestRow(entry.kind, Modality(entry.kind), entry.lines[n].record, n, Missing) :
                         n \in objects}
<1> DEFINE objects == {n \in DOMAIN entry.lines : entry.lines[n].status = "object"}
           order == InOrder(objects)
           LineRow(n) == ManifestRow(entry.kind, Modality(entry.kind), entry.lines[n].record, n, Missing)
           rows == [k \in DOMAIN order |-> LineRow(order[k])]
<1>1. entry.lines \in Seq(Lines(V))
  BY DEF Entries
<1>2. IsFiniteSet(objects) /\ objects \in SUBSET Int
  BY <1>1, LinesOfStatus
<1>3. /\ DOMAIN order = 1..Cardinality(objects) /\ Cardinality(objects) \in Nat
      /\ Range(order) = objects
  <2> HIDE DEF objects
  <2> QED
    BY <1>2, InOrderLists
<1>4. JsonlRows(entry) = rows
  BY DEF JsonlRows, ObjectLines
<1> HIDE DEF objects, order, LineRow
<1>5. rows = [k \in 1..Cardinality(objects) |-> rows[k]] /\ DOMAIN rows = 1..Cardinality(objects)
      /\ \A k \in DOMAIN rows : rows[k] = LineRow(order[k])
  BY <1>3
<1>6. Range(rows) = {LineRow(n) : n \in objects}
  BY <1>3, <1>5 DEF Range
<1> HIDE DEF rows
<1>7. IsList(rows) /\ Len(rows) = Cardinality(objects)
  <2>1. IsList(rows)
    BY <1>3, <1>5 DEF IsList
  <2>2. rows \in Seq(Range(rows)) /\ DOMAIN rows = 1..Len(rows) /\ Len(rows) \in Nat
    BY <2>1, ListFacts
  <2> QED
    BY <1>3, <1>5, <2>1, <2>2
<1> QED
  BY <1>4, <1>6, <1>7 DEF objects, LineRow

\* The manifest row of a record: what its object and its source are made of.
IsRowOf(row, system, record, place) ==
    /\ row.object = DerivedId(RowKey(system, record, place), record)
    /\ row.hash = record /\ row.source = Field(record, "object_id")

\* Every record of an entry becomes a row or is reported, and is so once.
LEMMA EntryIsCounted ==
    ASSUME NEW V, NEW entry \in Entries(V)
    PROVE  /\ IsList(EntryRows(entry)) /\ IsFiniteSet(EntryUnsupported(entry))
           /\ Len(EntryRows(entry)) \in Nat /\ Cardinality(EntryUnsupported(entry)) \in Nat
           /\ Records(entry) = Len(EntryRows(entry)) + Cardinality(EntryUnsupported(entry))
<1> DEFINE rows == EntryRows(entry)
           reports == EntryUnsupported(entry)
<1>1. entry.lines \in Seq(Lines(V)) /\ entry.table \in Seq(V) /\ entry.kind \in EntryKinds
  BY DEF Entries
<1>2. IsFiniteSet({}) /\ Cardinality({}) = 0
  BY FS_EmptySet
<1>3. IsList(<<>>) /\ Len(<<>>) = 0
  <2>1. <<>> \in Seq({})
    OBVIOUS
  <2> QED
    BY <2>1, SeqIsList
<1>4. CASE entry.kind = "transactions"
  <2>1. rows = TabularRows(entry) /\ reports = {} /\ Records(entry) = Len(entry.table)
    BY <1>4 DEF EntryRows, EntryUnsupported, Records, LineFormats
  <2>2. /\ DOMAIN TabularRows(entry) = 1..Len(entry.table) /\ Len(entry.table) \in Nat
        /\ TabularRows(entry) = [i \in 1..Len(entry.table) |-> TabularRows(entry)[i]]
    BY <1>1 DEF TabularRows
  <2>3. IsList(TabularRows(entry))
    BY <2>2 DEF IsList
  <2>4. Len(TabularRows(entry)) = Len(entry.table)
    <3>1. DOMAIN TabularRows(entry) = 1..Len(TabularRows(entry)) /\ Len(TabularRows(entry)) \in Nat
      BY <2>3, ListFacts
    <3> QED
      BY <2>2, <3>1
  <2> QED
    BY <1>2, <2>1, <2>2, <2>3, <2>4
<1>5. CASE entry.kind \in LineFormats
  <2> DEFINE bad == {n \in DOMAIN entry.lines : entry.lines[n].status \in {"invalid", "scalar"}}
             objects == {n \in DOMAIN entry.lines : entry.lines[n].status = "object"}
             report == [n \in bad |->
                [name |-> entry.name, line |-> n,
                 reason |-> IF entry.lines[n].status = "invalid" THEN "invalid_jsonl"
                            ELSE "jsonl_row_not_object"]]
  <2>1. /\ rows = JsonlRows(entry)
        /\ Records(entry) = Cardinality({n \in DOMAIN entry.lines : entry.lines[n].status # "blank"})
    BY <1>5 DEF EntryRows, Records, LineFormats
  <2>2. reports = {report[n] : n \in bad}
    BY <1>5 DEF EntryUnsupported, LineFormats
  <2>3. IsList(JsonlRows(entry)) /\ Len(JsonlRows(entry)) = Cardinality(objects)
    BY JsonlRowFacts
  <2>4. /\ IsFiniteSet(bad) /\ Cardinality(bad) \in Nat /\ Cardinality(objects) \in Nat
        /\ Cardinality({n \in DOMAIN entry.lines : entry.lines[n].status # "blank"})
              = Cardinality(objects) + Cardinality(bad)
    BY <1>1, LinesOfStatus
  <2>5. DOMAIN report = bad /\ \A m, n \in bad : report[m] = report[n] => m = n
    <3>1. \A n \in bad : report[n].line = n
      OBVIOUS
    <3> QED
      BY <3>1
  <2> HIDE DEF report, bad, objects
  <2>6. IsFiniteSet({report[n] : n \in bad}) /\ Cardinality({report[n] : n \in bad}) = Cardinality(bad)
    BY <2>4, <2>5, ImagesAreAsMany
  <2> HIDE DEF rows, reports
  <2>7. IsList(rows) /\ IsFiniteSet(reports) /\ Len(rows) \in Nat /\ Cardinality(reports) \in Nat
    BY <2>1, <2>2, <2>3, <2>4, <2>6
  <2>8. Records(entry) = Len(rows) + Cardinality(reports)
    BY <2>1, <2>2, <2>3, <2>4, <2>6
  <2> QED
    BY <2>7, <2>8 DEF rows, reports
<1>6. CASE entry.kind = "annotations"
  <2>1. rows = <<SkeletonRow(entry)>> /\ reports = {} /\ Records(entry) = 1
    BY <1>6 DEF EntryRows, EntryUnsupported, Records, LineFormats
  <2>2. <<SkeletonRow(entry)>> \in Seq({SkeletonRow(entry)}) /\ Len(<<SkeletonRow(entry)>>) = 1
    OBVIOUS
  <2>3. IsList(<<SkeletonRow(entry)>>)
    BY <2>2, SeqIsList
  <2> QED
    BY <1>2, <2>1, <2>2, <2>3
<1>7. CASE entry.kind = "other"
  <2> DEFINE report == [name |-> entry.name, line |-> Missing, reason |-> "unsupported_entry"]
  <2>1. rows = <<>> /\ reports = {report} /\ Records(entry) = 1
    BY <1>7 DEF EntryRows, EntryUnsupported, Records, LineFormats
  <2> HIDE DEF report
  <2>2. IsFiniteSet({report}) /\ Cardinality({report}) = 1
    BY FS_Singleton
  <2> QED
    BY <1>3, <2>1, <2>2
<1>8. CASE entry.kind \in {"predictions", "readme"}
  <2>1. rows = <<>> /\ reports = {} /\ Records(entry) = 0
    BY <1>8 DEF EntryRows, EntryUnsupported, Records, LineFormats
  <2> QED
    BY <1>2, <1>3, <2>1
<1> QED
  BY <1>1, <1>4, <1>5, <1>6, <1>7, <1>8 DEF EntryKinds

\* What the rows of an entry are: of a record of it, or of the entry itself.
LEMMA EntryRowFacts ==
    ASSUME NEW V, NEW entry \in Entries(V), NEW row \in Range(EntryRows(entry))
    PROVE  /\ \E system, record, place : IsRowOf(row, system, record, place)
           /\ DOMAIN row = {"object", "modality", "hash", "label", "source", "segment", "system"}
<1>1. entry.kind \in EntryKinds /\ IsList(EntryRows(entry))
  BY EntryIsCounted DEF Entries
<1>2. CASE entry.kind = "transactions"
  <2>1. PICK i \in DOMAIN entry.table : row =
           ManifestRow("transactions", "tabular", entry.table[i], entry.table[i], RowLabel(entry.table[i]))
    <3>1. EntryRows(entry) = TabularRows(entry)
      BY <1>2 DEF EntryRows, LineFormats
    <3>2. row \in Range(TabularRows(entry))
      BY <3>1
    <3> QED
      BY <3>2 DEF TabularRows, Range
  <2>2. IsRowOf(row, "transactions", entry.table[i], entry.table[i])
    BY <2>1 DEF ManifestRow, IsRowOf
  <2> QED
    BY <2>1, <2>2 DEF ManifestRow
<1>3. CASE entry.kind \in LineFormats
  <2>1. EntryRows(entry) = JsonlRows(entry)
    BY <1>3 DEF EntryRows, LineFormats
  <2>2. PICK n \in DOMAIN entry.lines : row =
           ManifestRow(entry.kind, Modality(entry.kind), entry.lines[n].record, n, Missing)
    BY <2>1, JsonlRowFacts
  <2>3. IsRowOf(row, entry.kind, entry.lines[n].record, n)
    BY <2>2 DEF ManifestRow, IsRowOf
  <2> QED
    BY <2>2, <2>3 DEF ManifestRow
<1>4. CASE entry.kind = "annotations"
  <2>1. row = SkeletonRow(entry)
    BY <1>4 DEF EntryRows, Range, LineFormats
  <2> DEFINE record == [file |-> entry.name]
  <2>2. Field(record, "object_id") = Missing
    BY DEF Field
  <2>3. IsRowOf(row, "annotations_sample", record, entry.name)
    BY <2>1, <2>2 DEF SkeletonRow, ManifestRow, IsRowOf
  <2> QED
    BY <2>1, <2>3 DEF SkeletonRow, ManifestRow
<1>5. CASE entry.kind \in {"other", "predictions", "readme"}
  BY <1>5 DEF EntryRows, Range, LineFormats
<1> QED
  BY <1>1, <1>2, <1>3, <1>4, <1>5 DEF EntryKinds

\* The rows of a manifest are those of the files, joined.
LEMMA ManifestRows ==
    ASSUME NEW V, NEW archive \in ArchivesOf(V)
    PROVE  LET manifest == AssetManifest(archive)
               files == Contents(archive)
           IN  /\ IsList(manifest.rows)
               /\ Range(manifest.rows) = UNION {Range(EntryRows(archive.entries[i])) : i \in files}
               /\ Len(manifest.rows) = SumFunction([i \in files |-> Len(EntryRows(archive.entries[i]))])
<1> DEFINE entries == archive.entries
           files == Contents(archive)
           lists == [i \in DOMAIN entries |-> IF entries[i].dir THEN <<>> ELSE EntryRows(entries[i])]
           lengths == [i \in DOMAIN lists |-> Len(lists[i])]
           part == [i \in files |-> Len(EntryRows(entries[i]))]
<1>1. /\ DOMAIN entries = 1..Len(entries) /\ Len(entries) \in Nat
      /\ \A i \in DOMAIN entries : entries[i] \in Entries(V)
  <2>1. entries \in Seq(Entries(V))
    BY DEF ArchivesOf
  <2> QED
    BY <2>1
<1>2. /\ files = {i \in DOMAIN entries : ~entries[i].dir} /\ files \in SUBSET DOMAIN entries
      /\ IsFiniteSet(DOMAIN entries)
  BY <1>1, FS_Interval DEF Contents
<1>3. DOMAIN lists = DOMAIN entries /\ IsList(lists)
  <2>1. DOMAIN lists = DOMAIN entries /\ lists = [i \in 1..Len(entries) |-> lists[i]]
    BY <1>1
  <2> HIDE DEF lists
  <2> QED
    BY <1>1, <2>1 DEF IsList
<1>4. \A i \in DOMAIN entries \ files : lists[i] = <<>>
  BY <1>2
<1>5. \A i \in files : lists[i] = EntryRows(entries[i])
  BY <1>2
<1>6. IsList(<<>>) /\ Len(<<>>) = 0 /\ Range(<<>>) = {}
  <2>1. <<>> \in Seq({})
    OBVIOUS
  <2>2. IsList(<<>>)
    BY <2>1, SeqIsList
  <2>3. Len(<<>>) = 0 /\ Range(<<>>) = {}
    BY DEF Range
  <2> QED
    BY <2>2, <2>3
<1>7. AssetManifest(archive).rows = FlattenSeq(lists)
  BY DEF AssetManifest
<1> HIDE DEF lists, entries, files
<1>8. \A i \in DOMAIN lists : IsList(lists[i])
  <2>1. \A i \in files : IsList(EntryRows(entries[i]))
    BY <1>1, <1>2, EntryIsCounted
  <2> QED
    BY <1>3, <1>4, <1>5, <1>6, <2>1
<1>9. /\ IsList(FlattenSeq(lists))
      /\ Range(FlattenSeq(lists)) = UNION {Range(lists[i]) : i \in DOMAIN lists}
      /\ Len(FlattenSeq(lists)) = SumFunction(lengths)
  BY <1>3, <1>8, JoinedFacts
<1>10. UNION {Range(lists[i]) : i \in DOMAIN lists} = UNION {Range(EntryRows(entries[i])) : i \in files}
  BY <1>2, <1>3, <1>4, <1>5, <1>6
<1>11. SumFunction(lengths) = SumFunction(part)
  <2>1. /\ lengths \in [DOMAIN entries -> Int] /\ \A i \in DOMAIN entries \ files : lengths[i] = 0
        /\ \A i \in DOMAIN entries : lengths[i] = Len(lists[i])
    <3>1. \A i \in DOMAIN lists : Len(lists[i]) \in Int
      BY <1>8, ListFacts
    <3> QED
      BY <1>3, <1>4, <1>6, <3>1
  <2>2. part = [i \in files |-> lengths[i]]
    BY <1>2, <1>5, <2>1
  <2> HIDE DEF lengths, part
  <2> QED
    BY <1>2, <2>1, <2>2, SumOfPart
<1> QED
  BY <1>7, <1>9, <1>10, <1>11 DEF entries, files

\* Every record of the files is a row of the manifest or is reported.
LEMMA RecordsAreCounted ==
    ASSUME NEW V, NEW archive \in ArchivesOf(V)
    PROVE  Len(AssetManifest(archive).rows) + Cardinality(AssetManifest(archive).unsupported)
              = RecordCount(archive)
<1> DEFINE entries == archive.entries
           files == Contents(archive)
           At(i) == {i} \X EntryUnsupported(entries[i])
           reports == UNION {At(i) : i \in files}
           records == [i \in files |-> Records(entries[i])]
           lengths == [i \in files |-> Len(EntryRows(entries[i]))]
           reported == [i \in files |-> Cardinality(EntryUnsupported(entries[i]))]
           place == [x \in reports |-> x[1]]
<1>1. \A i \in DOMAIN entries : entries[i] \in Entries(V)
  <2>1. entries \in Seq(Entries(V))
    BY DEF ArchivesOf
  <2> QED
    BY <2>1
<1>2. files \subseteq DOMAIN entries /\ IsFiniteSet(files)
  <2>1. entries \in Seq(Entries(V))
    BY DEF ArchivesOf
  <2>2. DOMAIN entries = 1..Len(entries) /\ Len(entries) \in Nat
    BY <2>1
  <2>3. files \subseteq DOMAIN entries /\ IsFiniteSet(DOMAIN entries)
    BY <2>2, FS_Interval DEF Contents
  <2> QED
    BY <2>3, FS_Subset
<1>3. \A i \in files :
         /\ IsFiniteSet(EntryUnsupported(entries[i]))
         /\ Len(EntryRows(entries[i])) \in Nat /\ Cardinality(EntryUnsupported(entries[i])) \in Nat
         /\ Records(entries[i]) = Len(EntryRows(entries[i])) + Cardinality(EntryUnsupported(entries[i]))
  BY <1>1, <1>2, EntryIsCounted
<1>4. \A i \in files : IsFiniteSet(At(i)) /\ Cardinality(At(i)) = reported[i]
  <2> SUFFICES ASSUME NEW i \in files
               PROVE  IsFiniteSet(At(i)) /\ Cardinality(At(i)) = reported[i]
    OBVIOUS
  <2> DEFINE U == EntryUnsupported(entries[i])
             tagged == [u \in U |-> <<i, u>>]
  <2>1. IsFiniteSet(U) /\ reported[i] = Cardinality(U)
    BY <1>3
  <2>2. At(i) = {tagged[u] : u \in U} /\ DOMAIN tagged = U
    OBVIOUS
  <2>3. \A u, v \in U : tagged[u] = tagged[v] => u = v
    OBVIOUS
  <2> HIDE DEF U, tagged
  <2>4. IsFiniteSet({tagged[u] : u \in U}) /\ Cardinality({tagged[u] : u \in U}) = Cardinality(U)
    BY <2>1, <2>2, <2>3, ImagesAreAsMany
  <2> QED
    BY <2>1, <2>2, <2>4
<1>5. IsFiniteSet(reports)
  <2>1. IsFiniteSet({At(i) : i \in files})
    <3> DEFINE image == [i \in files |-> At(i)]
    <3>1. DOMAIN image = files /\ {At(i) : i \in files} = {image[i] : i \in files}
      OBVIOUS
    <3> HIDE DEF image, At
    <3> QED
      BY <1>2, <3>1, ImageIsFinite
  <2>2. \A S \in {At(i) : i \in files} : IsFiniteSet(S)
    BY <1>4
  <2> HIDE DEF At
  <2> QED
    BY <2>1, <2>2, FS_UNION
<1>6. place \in [reports -> files] /\ \A i \in files : {x \in reports : place[x] = i} = At(i)
  <2>1. \A x \in reports : place[x] = x[1] /\ x[1] \in files
    OBVIOUS
  <2>2. \A i \in files : \A x \in At(i) : x \in reports /\ x[1] = i
    OBVIOUS
  <2>3. \A x \in reports : x \in At(x[1])
    OBVIOUS
  <2>4. place = [x \in reports |-> place[x]]
    OBVIOUS
  <2> HIDE DEF place, reports, At
  <2> QED
    BY <2>1, <2>2, <2>3, <2>4
<1>7. reported \in [files -> Int] /\ lengths \in [files -> Int] /\ records \in [files -> Int]
      /\ \A i \in files : lengths[i] = records[i] - reported[i]
  BY <1>3
<1>8. SumFunction(reported) = Cardinality(reports)
  <2>1. \A i \in files : reported[i] = Cardinality({x \in reports : place[x] = i})
    BY <1>4, <1>6
  <2>2. place \in [reports -> files] /\ reported \in [files -> Int]
    BY <1>6, <1>7
  <2> HIDE DEF reported, reports, place, files
  <2> QED
    BY <1>2, <1>5, <2>1, <2>2, PartitionSum
<1>9. SumFunction(lengths) = SumFunction(records) - SumFunction(reported)
  <2> HIDE DEF lengths, records, reported, files
  <2> QED
    BY <1>2, <1>7, SumOfDifferences
<1>10. Len(AssetManifest(archive).rows) = SumFunction(lengths)
  BY ManifestRows
<1>11. AssetManifest(archive).unsupported = reports /\ RecordCount(archive) = SumFunction(records)
  BY DEF AssetManifest, RecordCount
<1>12. SumFunction(records) \in Int /\ SumFunction(reported) \in Int
  <2> HIDE DEF records, reported, files
  <2> QED
    BY <1>2, <1>7, SumOfPart
<1> HIDE DEF records, lengths, reported, reports
<1> QED
  BY <1>8, <1>9, <1>10, <1>11, <1>12

-----------------------------------------------------------------------------
(* A record with an id keeps its object when the lines move.               *)

\* The objects of the rows of an entry that have an id.
Named(entry) == {r.object : r \in {q \in Range(EntryRows(entry)) : q.source # Missing}}

\* The same by the records alone.
IdsOf(records) ==
    {DerivedId(<<"id", r["object_id"]>>, r) : r \in {q \in records : Field(q, "object_id") # Missing}}

RecordsOf(lines) == {lines[n].record : n \in {m \in DOMAIN lines : lines[m].status = "object"}}

LEMMA NamedByRecords ==
    ASSUME NEW V, NEW entry \in Entries(V), entry.kind \in LineFormats
    PROVE  Named(entry) = IdsOf(RecordsOf(entry.lines))
<1> DEFINE objects == {n \in DOMAIN entry.lines : entry.lines[n].status = "object"}
           LineRow(n) == ManifestRow(entry.kind, Modality(entry.kind), entry.lines[n].record, n, Missing)
<1>1. EntryRows(entry) = JsonlRows(entry)
  BY DEF EntryRows, LineFormats
<1>2. Range(EntryRows(entry)) = {LineRow(n) : n \in objects}
  BY <1>1, JsonlRowFacts
<1>3. \A n \in objects :
         /\ LineRow(n).source = Field(entry.lines[n].record, "object_id")
         /\ Field(entry.lines[n].record, "object_id") # Missing =>
               LineRow(n).object = DerivedId(<<"id", entry.lines[n].record["object_id"]>>, entry.lines[n].record)
  BY DEF ManifestRow, RowKey
<1> HIDE DEF LineRow
<1>4. Named(entry) = {LineRow(n).object : n \in {m \in objects : LineRow(m).source # Missing}}
  BY <1>2 DEF Named
<1>5. RecordsOf(entry.lines) = {entry.lines[n].record : n \in objects}
  BY DEF RecordsOf
<1> DEFINE identified == {m \in objects : Field(entry.lines[m].record, "object_id") # Missing}
<1>6. {m \in objects : LineRow(m).source # Missing} = identified
  BY <1>3
<1>7. IdsOf(RecordsOf(entry.lines)) =
         {DerivedId(<<"id", entry.lines[n].record["object_id"]>>, entry.lines[n].record) : n \in identified}
  <2> DEFINE records == {q \in RecordsOf(entry.lines) : Field(q, "object_id") # Missing}
  <2>1. records = {entry.lines[n].record : n \in identified}
    BY <1>5
  <2>2. IdsOf(RecordsOf(entry.lines)) = {DerivedId(<<"id", r["object_id"]>>, r) : r \in records}
    BY DEF IdsOf
  <2> HIDE DEF records, identified
  <2> QED
    BY <2>1, <2>2
<1>8. \A n \in identified :
         LineRow(n).object = DerivedId(<<"id", entry.lines[n].record["object_id"]>>, entry.lines[n].record)
  BY <1>3
<1>9. Named(entry) = {LineRow(n).object : n \in identified}
  BY <1>4, <1>6
<1> HIDE DEF identified
<1> QED
  BY <1>7, <1>8, <1>9

LEMMA ReversedLines ==
    ASSUME NEW V, NEW lines \in Seq(Lines(V))
    PROVE  Reverse(lines) \in Seq(Lines(V)) /\ RecordsOf(Reverse(lines)) = RecordsOf(lines)
<1> DEFINE back == Reverse(lines)
           n == Len(lines)
<1>1. n \in Nat /\ DOMAIN lines = 1..n /\ \A i \in 1..n : lines[i] \in Lines(V)
  OBVIOUS
<1>2. DOMAIN back = 1..n /\ \A i \in 1..n : back[i] = lines[(n - i) + 1]
  BY DEF Reverse
<1>3. \A i \in 1..n : (n - i) + 1 \in 1..n /\ (n - ((n - i) + 1)) + 1 = i
  BY <1>1
<1>4. back = [i \in 1..n |-> back[i]]
  BY <1>2 DEF Reverse
<1> HIDE DEF back, n
<1>5. \A i \in 1..n : back[i] \in Lines(V)
  BY <1>1, <1>2, <1>3
<1>6. back \in Seq(Lines(V))
  BY <1>1, <1>4, <1>5
<1>7. RecordsOf(back) \subseteq RecordsOf(lines)
  BY <1>1, <1>2, <1>3 DEF RecordsOf
<1>8. RecordsOf(lines) \subseteq RecordsOf(back)
  <2> SUFFICES ASSUME NEW m \in 1..n, lines[m].status = "object"
               PROVE  lines[m].record \in RecordsOf(back)
    BY <1>1 DEF RecordsOf
  <2>1. (n - m) + 1 \in DOMAIN back /\ back[(n - m) + 1] = lines[m]
    BY <1>2, <1>3
  <2> QED
    BY <2>1 DEF RecordsOf
<1> QED
  BY <1>6, <1>7, <1>8 DEF back

LEMMA EntryBackwards ==
    ASSUME NEW V, NEW entry \in Entries(V), NEW other, other = LinesBackwards(entry)
    PROVE  other \in Entries(V) /\ other.dir = entry.dir /\ Named(other) = Named(entry)
<1>1. entry.lines \in Seq(Lines(V)) /\ Reverse(entry.lines) \in Seq(Lines(V))
  BY ReversedLines DEF Entries
<1>2. other \in Entries(V)
  BY <1>1 DEF Entries, LinesBackwards
<1>3. /\ other.kind = entry.kind /\ other.dir = entry.dir /\ other.table = entry.table
      /\ other.name = entry.name /\ other.lines = Reverse(entry.lines)
  BY DEF Entries, LinesBackwards
<1>4. CASE entry.kind \in LineFormats
  <2>1. Named(entry) = IdsOf(RecordsOf(entry.lines))
    BY <1>4, NamedByRecords
  <2>2. Named(other) = IdsOf(RecordsOf(other.lines))
    BY <1>2, <1>3, <1>4, NamedByRecords
  <2>3. RecordsOf(other.lines) = RecordsOf(entry.lines)
    BY <1>1, <1>3, ReversedLines
  <2> QED
    BY <1>2, <1>3, <2>1, <2>2, <2>3
<1>5. CASE entry.kind \notin LineFormats
  <2>1. TabularRows(other) = TabularRows(entry) /\ SkeletonRow(other) = SkeletonRow(entry)
    BY <1>3 DEF TabularRows, SkeletonRow
  <2>2. EntryRows(other) = EntryRows(entry)
    BY <1>3, <1>5, <2>1 DEF EntryRows
  <2> QED
    BY <1>2, <1>3, <2>2 DEF Named
<1> QED
  BY <1>4, <1>5

LEMMA IdentifiedByEntries ==
    ASSUME NEW V, NEW archive \in ArchivesOf(V)
    PROVE  Identified(archive) = UNION {Named(archive.entries[i]) : i \in Contents(archive)}
<1>1. Range(AssetManifest(archive).rows) = UNION {Range(EntryRows(archive.entries[i])) : i \in Contents(archive)}
  BY ManifestRows
<1> QED
  BY <1>1 DEF Identified, Named

LEMMA BackwardsIdentified ==
    ASSUME NEW V, NEW archive \in ArchivesOf(V)
    PROVE  Identified(Backwards(archive)) = Identified(archive)
<1> DEFINE back == Backwards(archive)
           turned == [i \in DOMAIN archive.entries |-> LinesBackwards(archive.entries[i])]
<1>1. archive.entries \in Seq(Entries(V))
  BY DEF ArchivesOf
<1>2. /\ DOMAIN archive.entries = 1..Len(archive.entries) /\ Len(archive.entries) \in Nat
      /\ \A i \in DOMAIN archive.entries : archive.entries[i] \in Entries(V)
  BY <1>1
<1>3. \A i \in DOMAIN archive.entries :
         turned[i] \in Entries(V) /\ turned[i].dir = archive.entries[i].dir
         /\ Named(turned[i]) = Named(archive.entries[i])
  <2> SUFFICES ASSUME NEW i \in DOMAIN archive.entries
               PROVE  turned[i] \in Entries(V) /\ turned[i].dir = archive.entries[i].dir
                      /\ Named(turned[i]) = Named(archive.entries[i])
    OBVIOUS
  <2>1. turned[i] = LinesBackwards(archive.entries[i]) /\ archive.entries[i] \in Entries(V)
    BY <1>2
  <2> HIDE DEF turned
  <2> QED
    BY <2>1, EntryBackwards
<1>4. DOMAIN turned = 1..Len(archive.entries) /\ turned = [i \in 1..Len(archive.entries) |-> turned[i]]
  BY <1>2
<1>5. back = [archive EXCEPT !.entries = turned]
  BY DEF Backwards
<1> HIDE DEF turned, back
<1>6. turned \in Seq(Entries(V))
  BY <1>2, <1>3, <1>4
<1>7. back \in ArchivesOf(V) /\ back.entries = turned
  BY <1>5, <1>6 DEF ArchivesOf
<1>8. Contents(back) = Contents(archive)
  BY <1>2, <1>3, <1>4, <1>7 DEF Contents
<1>9. /\ Identified(back) = UNION {Named(turned[i]) : i \in Contents(archive)}
      /\ Identified(archive) = UNION {Named(archive.entries[i]) : i \in Contents(archive)}
  BY <1>7, <1>8, IdentifiedByEntries
<1>10. \A i \in Contents(archive) : Named(turned[i]) = Named(archive.entries[i])
  BY <1>3 DEF Contents
<1> QED
  BY <1>9, <1>10 DEF back

-----------------------------------------------------------------------------
(* The manifest itself.                                                    *)

LEMMA RowsOfManifest ==
    ASSUME NEW V, NEW archive \in ArchivesOf(V), NEW row \in Range(AssetManifest(archive).rows)
    PROVE  /\ \E system, record, place : IsRowOf(row, system, record, place)
           /\ DOMAIN row = {"object", "modality", "hash", "label", "source", "segment", "system"}
<1>1. archive.entries \in Seq(Entries(V))
  BY DEF ArchivesOf
<1>2. \A i \in DOMAIN archive.entries : archive.entries[i] \in Entries(V)
  BY <1>1
<1>3. PICK i \in Contents(archive) : row \in Range(EntryRows(archive.entries[i]))
  <2>1. Range(AssetManifest(archive).rows) = UNION {Range(EntryRows(archive.entries[i])) : i \in Contents(archive)}
    BY ManifestRows
  <2> QED
    BY <2>1
<1> QED
  BY <1>2, <1>3, EntryRowFacts DEF Contents

\* Only equal records share an object.
LEMMA EqualObjects ==
    ASSUME NEW V, NEW archive \in ArchivesOf(V),
           NEW r \in Range(AssetManifest(archive).rows), NEW q \in Range(AssetManifest(archive).rows),
           r.object = q.object
    PROVE  r.hash = q.hash /\ r.source = q.source
<1>1. PICK s1, record1, place1 : IsRowOf(r, s1, record1, place1)
  BY RowsOfManifest
<1>2. PICK s2, record2, place2 : IsRowOf(q, s2, record2, place2)
  BY RowsOfManifest
<1>3. r.object = <<RowKey(s1, record1, place1), record1>> /\ q.object = <<RowKey(s2, record2, place2), record2>>
  BY <1>1, <1>2 DEF IsRowOf, DerivedId
<1> DEFINE object1 == <<RowKey(s1, record1, place1), record1>>
           object2 == <<RowKey(s2, record2, place2), record2>>
<1>4. record1 = record2
  <2>1. object1 = object2
    BY <1>3
  <2>2. object1[2] = record1 /\ object2[2] = record2
    OBVIOUS
  <2> HIDE DEF object1, object2
  <2> QED
    BY <2>1, <2>2
<1> QED
  BY <1>1, <1>2, <1>4 DEF IsRowOf

\* The bytes of a manifest with rows pass; those of an empty one do not.
LEMMA ManifestPasses ==
    ASSUME NoneIsNoText, NEW V, NEW archive \in ArchivesOf(V)
    PROVE  LET manifest == AssetManifest(archive)
           IN  JsonlFailure(ManifestBytes(manifest), "manifest") = Missing <=> manifest.rows # <<>>
<1> DEFINE manifest == AssetManifest(archive)
           rows == manifest.rows
           data == ManifestBytes(manifest)
           blank == \A l \in Range(data.lines) : l.status = "blank"
           a == When(~data.utf8, "not_utf8_jsonl")
           b == When(blank, "empty_manifest")
           two == <<a, b>>
           each == [n \in DOMAIN data.lines |->
                CASE data.lines[n].status = "invalid" -> "invalid_json"
                  [] data.lines[n].status = "scalar" -> "row_not_object"
                  [] data.lines[n].status = "blank" -> Missing
                  [] data.lines[n].status = "object" -> RowFailure("manifest", data.lines[n].record)]
<1>1. IsList(rows)
  BY ManifestRows
<1>2. /\ data.utf8 = TRUE /\ DOMAIN data.lines = DOMAIN rows
      /\ \A n \in DOMAIN rows : data.lines[n].status = "object" /\ data.lines[n].record = rows[n]
  BY DEF ManifestBytes
<1>3. DOMAIN rows = 1..Len(rows) /\ Len(rows) \in Nat /\ rows \in Seq(Range(rows))
  BY <1>1, ListFacts
<1>4. JsonlFailure(data, "manifest") = FirstReason(two \o each)
  BY DEF JsonlFailure
<1>5. \A n \in DOMAIN rows : each[n] = Missing
  <2> SUFFICES ASSUME NEW n \in DOMAIN rows PROVE each[n] = Missing
    OBVIOUS
  <2>1. rows[n] \in Range(rows)
    BY DEF Range
  <2>2. DOMAIN rows[n] = {"object", "modality", "hash", "label", "source", "segment", "system"}
    <3> HIDE DEF rows
    <3> QED
      BY <2>1, RowsOfManifest DEF rows
  <2>3. RowFailure("manifest", rows[n]) = Missing
    BY <2>2 DEF RowFailure, ManifestRowFailure, When
  <2>4. n \in DOMAIN data.lines /\ data.lines[n].status = "object" /\ data.lines[n].record = rows[n]
    BY <1>2
  <2> HIDE DEF data, rows
  <2> QED
    BY <2>3, <2>4
<1>6. IsList(each) /\ DOMAIN each = DOMAIN rows
  <2>1. DOMAIN each = DOMAIN rows /\ each = [n \in 1..Len(rows) |-> each[n]]
    BY <1>2, <1>3
  <2> HIDE DEF each
  <2> QED
    BY <1>3, <2>1 DEF IsList
<1>7. blank <=> rows = <<>>
  <2>1. rows = <<>> <=> DOMAIN rows = {}
    BY <1>3
  <2>2. DOMAIN rows # {} => ~blank
    BY <1>2 DEF Range
  <2>3. DOMAIN rows = {} => blank
    BY <1>2 DEF Range
  <2> QED
    BY <2>1, <2>2, <2>3
<1>8. "not_utf8_jsonl" \in IngestionTexts /\ "empty_manifest" \in IngestionTexts
  BY DEF IngestionTexts
<1>9. a = Missing /\ (b = Missing <=> rows # <<>>)
  <2> HIDE DEF blank, rows
  <2> QED
    BY <1>2, <1>7, <1>8, WhenApplies
<1>10. two \in Seq({a, b}) /\ DOMAIN two = 1..2 /\ two[1] = a /\ two[2] = b
  <2> HIDE DEF a, b
  <2> QED
    OBVIOUS
<1> HIDE DEF two, each, a, b, blank, data, rows
<1>11. IsList(two)
  BY <1>10, SeqIsList
<1>12. FirstReason(two \o each) = Missing <=>
          (\A i \in DOMAIN two : two[i] = Missing) /\ (\A n \in DOMAIN each : each[n] = Missing)
  BY <1>6, <1>11, NoReasonInTwo
<1>13. (\A i \in DOMAIN two : two[i] = Missing) <=> a = Missing /\ b = Missing
  <2>1. \A i \in 1..2 : i = 1 \/ i = 2
    OBVIOUS
  <2> QED
    BY <1>10, <2>1
<1> QED
  BY <1>4, <1>5, <1>6, <1>9, <1>12, <1>13 DEF rows, data

\* A manifest is validated unless it is empty or is no longer the one registered.
LEMMA ManifestIsValidated ==
    ASSUME NoneIsNoText, NEW V, NEW archive \in ArchivesOf(V),
           NEW raw, raw = [stored |-> ManifestBytes(AssetManifest(archive)),
                           registered |-> ManifestBytes(AssetManifest(archive))]
    PROVE  /\ ValidatedManifest(raw).artifacts = IF AssetManifest(archive).rows = <<>> THEN {} ELSE {raw.stored}
           /\ ValidatedManifest([raw EXCEPT !.stored.utf8 = FALSE]).artifacts = {}
<1> DEFINE failure == JsonlFailure(raw.stored, "manifest")
           changed == [raw EXCEPT !.stored.utf8 = FALSE]
           later == JsonlFailure(changed.stored, "manifest")
<1>1. "raw_hash_mismatch" \in IngestionTexts
  BY DEF IngestionTexts
<1>2. raw.stored = raw.registered /\ raw.stored = ManifestBytes(AssetManifest(archive)) /\ raw.stored.utf8 = TRUE
  BY DEF ManifestBytes
<1>3. failure = Missing <=> AssetManifest(archive).rows # <<>>
  BY <1>2, ManifestPasses
<1>4. changed.stored.utf8 = FALSE /\ changed.registered.utf8 = TRUE
  BY DEF ManifestBytes
<1>5. changed.stored # changed.registered
  BY <1>4
<1> HIDE DEF failure, changed, later
<1>6. FirstReason(<<When(raw.stored # raw.registered, "raw_hash_mismatch"), failure>>) = Missing
         <=> failure = Missing
  <2>1. When(raw.stored # raw.registered, "raw_hash_mismatch") = Missing
    BY <1>1, <1>2, WhenApplies
  <2> QED
    BY <2>1, NoReasonOfTwo
<1>7. FirstReason(<<When(changed.stored # changed.registered, "raw_hash_mismatch"), later>>) # Missing
  <2>1. When(changed.stored # changed.registered, "raw_hash_mismatch") # Missing
    BY <1>1, <1>5, WhenApplies
  <2> QED
    BY <2>1, NoReasonOfTwo
<1>8. ValidatedManifest(raw).artifacts = IF AssetManifest(archive).rows = <<>> THEN {} ELSE {raw.stored}
  BY <1>3, <1>6 DEF ValidatedManifest, Validated, failure
<1>9. ValidatedManifest(changed).artifacts = {}
  BY <1>7 DEF ValidatedManifest, Validated, later
<1> QED
  BY <1>8, <1>9 DEF changed

\* What an archive of any size becomes; every row, report and object of it is
\* accounted for.
LEMMA ArchivesBecomeManifests ==
    ASSUME IsIngestionCase(subject)
    PROVE  ArchiveBecomesManifest(subject)
<1> DEFINE archive == subject.archive
           manifest == AssetManifest(archive)
           raw == [stored |-> ManifestBytes(manifest), registered |-> ManifestBytes(manifest)]
<1>1. PICK V : archive \in ArchivesOf(V)
  BY DEF IsIngestionCase
<1>2. NoneIsNoText
  BY DEF IsIngestionCase
<1>3. OpenFailure(archive, Policy) = Missing <=>
         /\ archive.exists /\ archive.zip
         /\ archive.size <= Policy.compressed /\ Len(archive.entries) <= Policy.files
         /\ \A i \in DOMAIN archive.entries : archive.entries[i].path = {} /\ ~archive.entries[i].link
         /\ \A i \in Contents(archive) : archive.entries[i].extension \in Policy.extensions
         /\ SumFunction([i \in Contents(archive) |-> archive.entries[i].size]) <= Policy.uncompressed
         /\ \E i \in Contents(archive) : archive.entries[i].kind = "transactions"
  <2> HIDE DEF archive
  <2> QED
    BY <1>1, <1>2, OpenedIsSafe
<1>4. Len(manifest.rows) + Cardinality(manifest.unsupported) = RecordCount(archive)
  <2> HIDE DEF archive
  <2> QED
    BY <1>1, RecordsAreCounted
<1>5. Identified(Backwards(archive)) = Identified(archive)
  <2> HIDE DEF archive
  <2> QED
    BY <1>1, BackwardsIdentified
<1>6. \A r, q \in Range(manifest.rows) : r.object = q.object => r.hash = q.hash /\ r.source = q.source
  <2> HIDE DEF archive
  <2> QED
    BY <1>1, EqualObjects
<1>7. /\ ValidatedManifest(raw).artifacts = IF manifest.rows = <<>> THEN {} ELSE {raw.stored}
      /\ ValidatedManifest([raw EXCEPT !.stored.utf8 = FALSE]).artifacts = {}
  <2> HIDE DEF archive
  <2>1. raw = [stored |-> ManifestBytes(AssetManifest(archive)),
               registered |-> ManifestBytes(AssetManifest(archive))]
    OBVIOUS
  <2> HIDE DEF raw
  <2> QED
    BY <1>1, <1>2, <2>1, ManifestIsValidated
<1> HIDE DEF archive
<1> QED
  BY <1>3, <1>4, <1>5, <1>6, <1>7 DEF ArchiveBecomesManifest, archive

-----------------------------------------------------------------------------
(* Predictions that pass the checks.                                       *)

\* A prediction: the probabilities of its classes are whole tenths.
Predictions(V) ==
    [object : V, defect : V, proba : Seq(V \X Nat), predicted : V, confidence : V]

PredictionFiles(V) ==
    {data \in [utf8 : BOOLEAN, lines : Seq(Lines(V))] :
        \A n \in DOMAIN data.lines : data.lines[n].status = "object" => data.lines[n].record \in Predictions(V)}

\* An analysis of any archive, with any predictions or none.
IsPredictionCase(s) ==
    /\ NoneIsNoText /\ s.kind = "analysis"
    /\ \E V : s.archive \in ArchivesOf(V) /\ s.predictions \in PredictionFiles(V) \cup {Missing}

\* A prediction that passes names its likeliest class, and has one.
LEMMA PredictionAgrees ==
    ASSUME NoneIsNoText, NEW V, NEW row \in Predictions(V), PredictionRowFailure(row) = Missing
    PROVE  row.predicted = PredictedClass(row) /\ Confidence(row) \in Int
<1> DEFINE a == row.defect
           b == When(row.proba = <<>>, "empty_probability_map")
           c == When(FoldLeft(+, 0, Probabilities(row)) # 10, "probability_sum_invalid")
           d == When(row.predicted # PredictedClass(row), "argmax_mismatch")
           e == When(row.confidence # Confidence(row), "confidence_mismatch")
           two == <<a, b>>
           three == <<c, d, e>>
           more == IF row.proba = <<>> THEN <<>> ELSE three
<1>1. FirstReason(two \o more) = Missing
  BY DEF PredictionRowFailure
<1> HIDE DEF c
<1>2. two \in Seq({a, b}) /\ DOMAIN two = 1..2 /\ two[2] = b
  <2> HIDE DEF a, b
  <2> QED
    OBVIOUS
<1>3. three \in Seq({c, d, e}) /\ DOMAIN three = 1..3 /\ three[2] = d
  <2> HIDE DEF c, d, e
  <2> QED
    OBVIOUS
<1>4. more \in Seq({c, d, e})
  <2> HIDE DEF three
  <2> QED
    BY <1>3
<1>5. IsList(two) /\ IsList(more)
  <2> HIDE DEF two, more
  <2> QED
    BY <1>2, <1>4, SeqIsList
<1>6. (\A i \in DOMAIN two : two[i] = Missing) /\ (\A i \in DOMAIN more : more[i] = Missing)
  <2> HIDE DEF two, more
  <2> QED
    BY <1>1, <1>5, NoReasonInTwo
<1>7. "empty_probability_map" \in IngestionTexts /\ "argmax_mismatch" \in IngestionTexts
  BY DEF IngestionTexts
<1>8. row.proba # <<>>
  <2>1. b = Missing
    <3> HIDE DEF two, more, b
    <3> QED
      BY <1>2, <1>6
  <2> QED
    BY <1>7, <2>1, WhenApplies
<1>9. row.predicted = PredictedClass(row)
  <2>1. more = three
    <3> HIDE DEF three
    <3> QED
      BY <1>8
  <2>2. d = Missing
    <3> HIDE DEF three, d, more
    <3> QED
      BY <1>3, <1>6, <2>1
  <2> QED
    BY <1>7, <2>2, WhenApplies
<1>10. Confidence(row) \in Int
  <2> DEFINE probabilities == Probabilities(row)
             values == Range(probabilities)
  <2>1. row.proba \in Seq(V \X Nat)
    BY DEF Predictions
  <2>2. /\ DOMAIN row.proba = 1..Len(row.proba) /\ Len(row.proba) \in Nat
        /\ \A k \in DOMAIN row.proba : row.proba[k] \in V \X Nat
    BY <2>1
  <2>3. DOMAIN row.proba # {}
    BY <1>8, <2>1, EmptyList
  <2>4. /\ DOMAIN probabilities = DOMAIN row.proba
        /\ \A k \in DOMAIN row.proba : probabilities[k] = row.proba[k][2] /\ row.proba[k][2] \in Nat
    BY <2>2 DEF Probabilities
  <2>5. IsFiniteSet(DOMAIN row.proba)
    BY <2>2, FS_Interval
  <2> HIDE DEF probabilities
  <2>6. values = {probabilities[k] : k \in DOMAIN row.proba} /\ values # {} /\ \A x \in values : x \in Int
    BY <2>3, <2>4 DEF Range
  <2>7. IsFiniteSet({probabilities[k] : k \in DOMAIN row.proba})
    BY <2>4, <2>5, ImageIsFinite
  <2> HIDE DEF values
  <2>8. Max(values) \in Int
    BY <2>6, <2>7, MaxOfFinite
  <2> QED
    BY <2>8 DEF Confidence, values, probabilities
<1> QED
  BY <1>9, <1>10

\* A file that passes holds predictions that pass.
LEMMA FilesOfPredictions ==
    ASSUME NoneIsNoText, NEW V, NEW data \in PredictionFiles(V), JsonlFailure(data, "predictions") = Missing
    PROVE  /\ IsList(PredictionRows(data))
           /\ \A p \in Range(PredictionRows(data)) :
                 p.predicted = PredictedClass(p) /\ Confidence(p) \in Int
<1> DEFINE blank == \A l \in Range(data.lines) : l.status = "blank"
           a == When(~data.utf8, "not_utf8_jsonl")
           b == When(blank, "empty_predictions")
           two == <<a, b>>
           Of(l) == CASE l.status = "invalid" -> "invalid_json"
                      [] l.status = "scalar" -> "row_not_object"
                      [] l.status = "blank" -> Missing
                      [] l.status = "object" -> RowFailure("predictions", l.record)
           each == [n \in DOMAIN data.lines |-> Of(data.lines[n])]
           objects == {n \in DOMAIN data.lines : data.lines[n].status = "object"}
           order == InOrder(objects)
           rows == [k \in DOMAIN order |-> data.lines[order[k]].record]
<1>1. FirstReason(two \o each) = Missing
  BY DEF JsonlFailure
<1>2. data.lines \in Seq(Lines(V))
  BY DEF PredictionFiles
<1>3. IsList(two)
  <2>1. two \in Seq({a, b})
    <3> HIDE DEF a, b
    <3> QED
      OBVIOUS
  <2> QED
    BY <2>1, SeqIsList
<1>4. IsList(each) /\ DOMAIN each = DOMAIN data.lines
  <2>1. /\ DOMAIN each = DOMAIN data.lines /\ each = [n \in 1..Len(data.lines) |-> each[n]]
        /\ Len(data.lines) \in Nat
    <3> HIDE DEF Of
    <3> QED
      BY <1>2
  <2> HIDE DEF each
  <2> QED
    BY <2>1 DEF IsList
<1>5. \A n \in objects : each[n] = PredictionRowFailure(data.lines[n].record)
  <2> SUFFICES ASSUME NEW n \in objects
               PROVE  Of(data.lines[n]) = PredictionRowFailure(data.lines[n].record)
    OBVIOUS
  <2>1. data.lines[n].status = "object"
    OBVIOUS
  <2>2. RowFailure("predictions", data.lines[n].record) = PredictionRowFailure(data.lines[n].record)
    BY DEF RowFailure
  <2> QED
    BY <2>1, <2>2
<1>6. \A n \in DOMAIN each : each[n] = Missing
  <2> HIDE DEF two, each
  <2> QED
    BY <1>1, <1>3, <1>4, NoReasonInTwo
<1>7. /\ DOMAIN order = 1..Cardinality(objects) /\ Cardinality(objects) \in Nat
      /\ Range(order) = objects
  <2>1. objects \in SUBSET Int /\ IsFiniteSet(objects)
    BY <1>2, LinesOfStatus
  <2> HIDE DEF objects
  <2> QED
    BY <2>1, InOrderLists
<1>8. PredictionRows(data) = rows
  BY DEF PredictionRows, ObjectLines
<1>9. IsList(rows)
  <2>1. rows = [k \in 1..Cardinality(objects) |-> rows[k]]
    BY <1>7
  <2> HIDE DEF rows, objects
  <2> QED
    BY <1>7, <2>1 DEF IsList
<1>10. ASSUME NEW p \in Range(rows) PROVE p.predicted = PredictedClass(p) /\ Confidence(p) \in Int
  <2>1. PICK k \in DOMAIN order : p = data.lines[order[k]].record
    BY DEF Range
  <2>2. order[k] \in objects
    BY <1>7 DEF Range
  <2>3. p \in Predictions(V)
    BY <2>1, <2>2 DEF PredictionFiles
  <2>4. PredictionRowFailure(p) = Missing
    <3>1. each[order[k]] = PredictionRowFailure(p) /\ order[k] \in DOMAIN each
      BY <1>4, <1>5, <2>1, <2>2
    <3> HIDE DEF each, order
    <3> QED
      BY <1>6, <3>1
  <2> HIDE DEF rows
  <2> QED
    BY <2>3, <2>4, PredictionAgrees
<1> HIDE DEF rows
<1> QED
  BY <1>8, <1>9, <1>10

-----------------------------------------------------------------------------
(* The report of the model errors.                                         *)

\* An object has a label when a row of it has one.
LEMMA LabelledObjects ==
    ASSUME NEW rows, IsList(rows), NEW object
    PROVE  LabelOf(rows, object) # Missing <=> \E r \in Range(rows) : r.object = object /\ r.label # Missing
<1> DEFINE labelled == LabelledRows(rows, object)
<1>1. DOMAIN rows \subseteq Int /\ IsFiniteSet(DOMAIN rows)
  BY ListFacts
<1>2. labelled \subseteq DOMAIN rows /\ labelled \subseteq Int
  BY <1>1 DEF LabelledRows
<1>3. IsFiniteSet(labelled)
  BY <1>1, <1>2, FS_Subset
<1>4. labelled # {} <=> \E r \in Range(rows) : r.object = object /\ r.label # Missing
  BY DEF LabelledRows, Range
<1>5. CASE labelled = {}
  BY <1>4, <1>5 DEF LabelOf
<1>6. CASE labelled # {}
  <2>1. Max(labelled) \in labelled
    <3> HIDE DEF labelled
    <3> QED
      BY <1>2, <1>3, <1>6, MaxOfFinite
  <2>2. rows[Max(labelled)].label # Missing
    BY <2>1 DEF LabelledRows
  <2>3. LabelOf(rows, object) = rows[Max(labelled)].label
    BY <1>6 DEF LabelOf
  <2> QED
    BY <1>4, <1>6, <2>2, <2>3
<1> QED
  BY <1>5, <1>6

\* The predictions that the report is made of, and what it says of each.
Joined(rows, predictions) ==
    InOrder({i \in DOMAIN predictions : LabelOf(rows, predictions[i].object) # Missing})

Signals(rows, predictions) ==
    [k \in DOMAIN Joined(rows, predictions) |->
        ObjectSignals(predictions[Joined(rows, predictions)[k]],
                      LabelOf(rows, predictions[Joined(rows, predictions)[k]].object))]

ReportSays(report, signals) ==
    /\ report.signals = signals
    /\ report.correct = Cardinality({k \in DOMAIN signals : ~signals[k].conflict})
    /\ report.conflicts = Cardinality({k \in DOMAIN signals : signals[k].conflict})
    /\ report.probable = Cardinality({k \in DOMAIN signals :
          signals[k].conflict /\ (signals[k].confidence >= 85 \/ signals[k].margin >= 60)})
    /\ report.confusion = [pair \in {<<s.label, s.predicted>> : s \in Range(signals)} |->
          Cardinality({k \in DOMAIN signals : <<signals[k].label, signals[k].predicted>> = pair})]
    /\ report.classes = [label \in {s.label : s \in Range(signals)} |->
          [total |-> Cardinality({k \in DOMAIN signals : signals[k].label = label}),
           errors |-> Cardinality({k \in DOMAIN signals : signals[k].label = label /\ signals[k].conflict})]]
    /\ report.highConfidence = {s.object : s \in {q \in Range(signals) : q.conflict /\ q.confidence >= 85}}

LEMMA ReportFields ==
    ASSUME NEW rows, NEW predictions, NEW report, report = ModelErrorReport(rows, predictions),
           NEW signals, signals = Signals(rows, predictions)
    PROVE  ReportSays(report, signals)
<1>1. report.signals = signals
  BY DEF ModelErrorReport, Signals, Joined
<1>2. report.correct = Cardinality({k \in DOMAIN signals : ~signals[k].conflict})
  BY DEF ModelErrorReport, Signals, Joined
<1>3. report.conflicts = Cardinality({k \in DOMAIN signals : signals[k].conflict})
  BY DEF ModelErrorReport, Signals, Joined
<1>4. report.probable = Cardinality({k \in DOMAIN signals :
         signals[k].conflict /\ (signals[k].confidence >= 85 \/ signals[k].margin >= 60)})
  BY DEF ModelErrorReport, Signals, Joined
<1>5. report.confusion = [pair \in {<<s.label, s.predicted>> : s \in Range(signals)} |->
         Cardinality({k \in DOMAIN signals : <<signals[k].label, signals[k].predicted>> = pair})]
  BY DEF ModelErrorReport, Signals, Joined
<1>6. report.classes = [label \in {s.label : s \in Range(signals)} |->
         [total |-> Cardinality({k \in DOMAIN signals : signals[k].label = label}),
          errors |-> Cardinality({k \in DOMAIN signals : signals[k].label = label /\ signals[k].conflict})]]
  BY DEF ModelErrorReport, Signals, Joined
<1>7. report.highConfidence = {s.object : s \in {q \in Range(signals) : q.conflict /\ q.confidence >= 85}}
  BY DEF ModelErrorReport, Signals, Joined
<1> QED
  BY <1>1, <1>2, <1>3, <1>4, <1>5, <1>6, <1>7 DEF ReportSays

\* What a signal takes from its prediction and the label of its object.
LEMMA SignalFacts ==
    ASSUME NEW rows, NEW predictions, IsList(predictions),
           \A p \in Range(predictions) : Confidence(p) \in Int,
           NEW signals, signals = Signals(rows, predictions)
    PROVE  /\ DOMAIN signals \subseteq Int /\ IsFiniteSet(DOMAIN signals) /\ IsList(signals)
           /\ \A k \in DOMAIN signals :
                 /\ signals[k].conflict \in BOOLEAN
                 /\ "probable_label_error" \in signals[k].reasons
                       <=> signals[k].conflict /\ signals[k].confidence >= 85
           /\ {q.object : q \in Range(signals)} =
                 {p.object : p \in {q \in Range(predictions) : LabelOf(rows, q.object) # Missing}}
<1> DEFINE places == {i \in DOMAIN predictions : LabelOf(rows, predictions[i].object) # Missing}
           joined == Joined(rows, predictions)
           Taken(k) == predictions[joined[k]]
           Label(k) == LabelOf(rows, predictions[joined[k]].object)
<1>1. places \in SUBSET Int /\ IsFiniteSet(places)
  <2>1. DOMAIN predictions \subseteq Int /\ IsFiniteSet(DOMAIN predictions)
    BY ListFacts
  <2>2. places \subseteq DOMAIN predictions
    OBVIOUS
  <2> HIDE DEF places
  <2> QED
    BY <2>1, <2>2, FS_Subset
<1>2. /\ DOMAIN joined = 1..Cardinality(places) /\ Cardinality(places) \in Nat /\ Range(joined) = places
  <2> HIDE DEF places
  <2>1. joined = InOrder(places)
    BY DEF Joined, places
  <2> QED
    BY <1>1, <2>1, InOrderLists
<1>3. signals = [k \in DOMAIN joined |-> ObjectSignals(Taken(k), Label(k))]
  BY DEF Signals
<1>4. DOMAIN signals = 1..Cardinality(places) /\ signals = [k \in 1..Cardinality(places) |-> signals[k]]
  BY <1>2, <1>3
<1>5. IsList(signals) /\ DOMAIN signals \subseteq Int /\ IsFiniteSet(DOMAIN signals)
  <2> HIDE DEF places
  <2>1. IsList(signals)
    BY <1>2, <1>4 DEF IsList
  <2>2. DOMAIN signals \subseteq Int
    BY <1>4
  <2> QED
    BY <2>1, <2>2, ListFacts
<1>6. ASSUME NEW k \in DOMAIN signals
      PROVE  /\ signals[k].object = Taken(k).object /\ Taken(k) \in Range(predictions)
             /\ signals[k].conflict \in BOOLEAN
             /\ "probable_label_error" \in signals[k].reasons
                   <=> signals[k].conflict /\ signals[k].confidence >= 85
  <2>1. signals[k] = ObjectSignals(Taken(k), Label(k))
    BY <1>2, <1>3, <1>4
  <2>2. joined[k] \in places
    BY <1>2, <1>4 DEF Range
  <2>3. Taken(k) \in Range(predictions)
    BY <2>2 DEF Range
  <2> HIDE DEF Taken, Label
  <2>4. Confidence(Taken(k)) \in Int
    BY <2>3
  <2>5. /\ signals[k].object = Taken(k).object
        /\ signals[k].conflict = (Taken(k).predicted # Label(k))
        /\ signals[k].confidence = 10 * Confidence(Taken(k))
        /\ signals[k].reasons = SignalReasons(Taken(k), Taken(k).predicted # Label(k))
    BY <2>1 DEF ObjectSignals
  <2>6. "probable_label_error" \in SignalReasons(Taken(k), Taken(k).predicted # Label(k))
           <=> Taken(k).predicted # Label(k) /\ 100 * Confidence(Taken(k)) >= 850
    BY DEF SignalReasons
  <2>7. 100 * Confidence(Taken(k)) >= 850 <=> 10 * Confidence(Taken(k)) >= 85
    BY <2>4
  <2>8. signals[k].conflict \in BOOLEAN
    BY <2>5
  <2>9. signals[k].confidence >= 85 <=> 100 * Confidence(Taken(k)) >= 850
    BY <2>5, <2>7
  <2>10. "probable_label_error" \in signals[k].reasons
            <=> Taken(k).predicted # Label(k) /\ 100 * Confidence(Taken(k)) >= 850
    BY <2>5, <2>6
  <2>11. signals[k].conflict <=> Taken(k).predicted # Label(k)
    BY <2>5
  <2>12. signals[k].object = Taken(k).object
    BY <2>5
  <2> QED
    BY ONLY <2>3, <2>8, <2>9, <2>10, <2>11, <2>12
<1>7. {q.object : q \in Range(signals)} =
         {p.object : p \in {q \in Range(predictions) : LabelOf(rows, q.object) # Missing}}
  <2>1. {q.object : q \in Range(signals)} = {signals[k].object : k \in DOMAIN signals}
    BY DEF Range
  <2>2. \A k \in DOMAIN signals : signals[k].object = predictions[joined[k]].object
    BY <1>6
  <2>3. {signals[k].object : k \in DOMAIN signals} = {predictions[joined[k]].object : k \in DOMAIN joined}
    BY <1>2, <1>4, <2>2
  <2>4. {predictions[joined[k]].object : k \in DOMAIN joined} = {predictions[i].object : i \in places}
    <3> HIDE DEF places, joined
    <3> QED
      BY <1>2 DEF Range
  <2>5. {p.object : p \in {q \in Range(predictions) : LabelOf(rows, q.object) # Missing}}
           = {predictions[i].object : i \in places}
    BY DEF Range
  <2> QED
    BY <2>1, <2>3, <2>4, <2>5
<1> QED
  BY <1>5, <1>6, <1>7

\* Each prediction of a labelled object is counted once: right or in conflict,
\* in its cell and in its class.
LEMMA ReportAddsUp ==
    ASSUME NEW rows, NEW predictions, IsList(predictions),
           \A p \in Range(predictions) : Confidence(p) \in Int,
           NEW report, report = ModelErrorReport(rows, predictions)
    PROVE  /\ report.correct + report.conflicts = Len(report.signals)
           /\ SumFunction(report.confusion) = Len(report.signals)
           /\ SumFunction([l \in DOMAIN report.classes |-> report.classes[l].errors]) = report.conflicts
           /\ {report.signals[k].object : k \in Candidates(report, "probable_label_error")} = report.highConfidence
           /\ Cardinality(Candidates(report, "probable_label_error")) <= report.probable
<1> DEFINE signals == Signals(rows, predictions)
           D == DOMAIN signals
           right == {k \in D : ~signals[k].conflict}
           wrong == {k \in D : signals[k].conflict}
           labels == {s.label : s \in Range(signals)}
           pairs == {<<s.label, s.predicted>> : s \in Range(signals)}
           errors == [l \in DOMAIN report.classes |-> report.classes[l].errors]
           probable == Candidates(report, "probable_label_error")
           high == {k \in D : signals[k].conflict /\ (signals[k].confidence >= 85 \/ signals[k].margin >= 60)}
<1>1. /\ D \subseteq Int /\ IsFiniteSet(D) /\ IsList(signals)
      /\ \A k \in D : /\ signals[k].conflict \in BOOLEAN
                      /\ "probable_label_error" \in signals[k].reasons
                            <=> signals[k].conflict /\ signals[k].confidence >= 85
  <2>1. signals = Signals(rows, predictions)
    OBVIOUS
  <2> HIDE DEF signals
  <2> QED
    BY <2>1, SignalFacts
<1>2. /\ report.signals = signals /\ report.correct = Cardinality(right)
      /\ report.conflicts = Cardinality(wrong) /\ report.probable = Cardinality(high)
      /\ report.confusion = [pair \in pairs |->
            Cardinality({k \in D : <<signals[k].label, signals[k].predicted>> = pair})]
      /\ report.classes = [label \in labels |->
            [total |-> Cardinality({k \in D : signals[k].label = label}),
             errors |-> Cardinality({k \in D : signals[k].label = label /\ signals[k].conflict})]]
      /\ report.highConfidence = {s.object : s \in {q \in Range(signals) : q.conflict /\ q.confidence >= 85}}
  <2>1. signals = Signals(rows, predictions)
    OBVIOUS
  <2> HIDE DEF signals
  <2>2. ReportSays(report, signals)
    BY <2>1, ReportFields
  <2> QED
    BY <2>2 DEF ReportSays
<1> HIDE DEF signals
<1>3. Cardinality(D) = Len(signals) /\ Len(signals) \in Nat
  BY <1>1, ListFacts
<1>4. /\ IsFiniteSet(right) /\ IsFiniteSet(wrong) /\ IsFiniteSet(high)
      /\ right \cup wrong = D /\ right \cap wrong = {}
  <2>1. right \subseteq D /\ wrong \subseteq D /\ high \subseteq D /\ right \cup wrong = D /\ right \cap wrong = {}
    OBVIOUS
  <2> HIDE DEF right, wrong, high, D
  <2> QED
    BY <1>1, <2>1, FS_Subset
<1>5. report.correct + report.conflicts = Len(report.signals)
  <2> HIDE DEF right, wrong, high, D
  <2>1. Cardinality(D) = Cardinality(right) + Cardinality(wrong) - Cardinality({})
    BY <1>4, FS_Union
  <2>2. Cardinality({}) = 0 /\ Cardinality(right) \in Nat /\ Cardinality(wrong) \in Nat
    BY <1>4, FS_EmptySet, FS_CardinalityType
  <2> QED
    BY <1>2, <1>3, <2>1, <2>2
<1>6. IsFiniteSet(labels) /\ IsFiniteSet(pairs)
  <2> DEFINE label == [k \in D |-> signals[k].label]
             pair == [k \in D |-> <<signals[k].label, signals[k].predicted>>]
  <2>1. labels = {label[k] : k \in D} /\ DOMAIN label = D
    BY DEF Range
  <2>2. pairs = {pair[k] : k \in D} /\ DOMAIN pair = D
    BY DEF Range
  <2>3. IsFiniteSet(D) /\ DOMAIN label = D /\ DOMAIN pair = D
    BY <1>1
  <2> HIDE DEF label, pair, D, labels, pairs
  <2>4. IsFiniteSet({label[k] : k \in D})
    BY <2>3, ImageIsFinite
  <2>5. IsFiniteSet({pair[k] : k \in D})
    BY <2>3, ImageIsFinite
  <2> QED
    BY <2>1, <2>2, <2>4, <2>5
<1>7. SumFunction(report.confusion) = Len(report.signals)
  <2> DEFINE at == [k \in D |-> <<signals[k].label, signals[k].predicted>>]
             c == report.confusion
  <2>1. at \in [D -> pairs]
    BY DEF Range
  <2>2. \A pair \in pairs : c[pair] = Cardinality({k \in D : at[k] = pair})
    <3>1. \A pair \in pairs : {k \in D : at[k] = pair}
                                 = {k \in D : <<signals[k].label, signals[k].predicted>> = pair}
      OBVIOUS
    <3> HIDE DEF at, pairs
    <3> QED
      BY <1>2, <3>1
  <2>3. \A pair \in pairs : Cardinality({k \in D : at[k] = pair}) \in Int
    <3> SUFFICES ASSUME NEW pair \in pairs PROVE Cardinality({k \in D : at[k] = pair}) \in Int
      OBVIOUS
    <3>1. {k \in D : at[k] = pair} \subseteq D
      OBVIOUS
    <3> HIDE DEF at, D, pairs
    <3>2. IsFiniteSet({k \in D : at[k] = pair})
      BY <1>1, <3>1, FS_Subset
    <3> QED
      BY <3>2, FS_CardinalityType
  <2>4. c \in [pairs -> Int]
    <3>1. DOMAIN c = pairs /\ c = [pair \in pairs |-> c[pair]]
      BY <1>2
    <3> HIDE DEF c, at, pairs
    <3> QED
      BY <2>2, <2>3, <3>1
  <2> HIDE DEF at, c, D, pairs
  <2>5. SumFunction(c) = Cardinality(D)
    BY <1>1, <1>6, <2>1, <2>2, <2>4, PartitionSum
  <2> QED
    BY <1>2, <1>3, <2>5 DEF c
<1>8. SumFunction(errors) = report.conflicts
  <2> DEFINE at == [k \in wrong |-> signals[k].label]
  <2>1. at \in [wrong -> labels]
    BY DEF Range
  <2>2. DOMAIN errors = labels
    BY <1>2
  <2>3. \A l \in labels : errors[l] = Cardinality({k \in wrong : at[k] = l})
    <3> SUFFICES ASSUME NEW l \in labels PROVE errors[l] = Cardinality({k \in wrong : at[k] = l})
      OBVIOUS
    <3>1. {k \in wrong : at[k] = l} = {k \in D : signals[k].label = l /\ signals[k].conflict}
      OBVIOUS
    <3>2. errors[l] = report.classes[l].errors
      BY <2>2
    <3>3. report.classes[l].errors = Cardinality({k \in D : signals[k].label = l /\ signals[k].conflict})
      <4> HIDE DEF labels
      <4> QED
        BY <1>2
    <3> HIDE DEF errors, labels, wrong, at, D
    <3> QED
      BY <3>1, <3>2, <3>3
  <2>4. \A l \in labels : Cardinality({k \in wrong : at[k] = l}) \in Int
    <3> SUFFICES ASSUME NEW l \in labels PROVE Cardinality({k \in wrong : at[k] = l}) \in Int
      OBVIOUS
    <3>1. {k \in wrong : at[k] = l} \subseteq wrong
      OBVIOUS
    <3> HIDE DEF at, wrong, labels
    <3>2. IsFiniteSet({k \in wrong : at[k] = l})
      BY <1>4, <3>1, FS_Subset
    <3> QED
      BY <3>2, FS_CardinalityType
  <2>5. errors \in [labels -> Int]
    <3>1. errors = [l \in labels |-> errors[l]]
      BY <2>2
    <3> HIDE DEF errors, labels, wrong, at
    <3> QED
      BY <2>3, <2>4, <3>1
  <2> HIDE DEF at, errors, labels, wrong
  <2>6. SumFunction(errors) = Cardinality(wrong)
    BY <1>4, <1>6, <2>1, <2>3, <2>5, PartitionSum, SMTT(30)
  <2> QED
    BY <1>2, <2>6
<1>9. probable = {k \in D : signals[k].conflict /\ signals[k].confidence >= 85}
  <2>1. probable = {k \in DOMAIN report.signals : "probable_label_error" \in report.signals[k].reasons}
    BY DEF Candidates
  <2> HIDE DEF probable
  <2> QED
    BY <1>1, <1>2, <2>1
<1>10. {report.signals[k].object : k \in probable} = report.highConfidence
  <2>1. {signals[k].object : k \in probable}
           = {s.object : s \in {q \in Range(signals) : q.conflict /\ q.confidence >= 85}}
    <3> HIDE DEF probable
    <3> QED
      BY <1>9 DEF Range
  <2>2. report.signals = signals
    BY <1>2
  <2>3. report.highConfidence = {s.object : s \in {q \in Range(signals) : q.conflict /\ q.confidence >= 85}}
    BY <1>2
  <2> HIDE DEF probable
  <2> QED
    BY <2>1, <2>2, <2>3
<1>11. Cardinality(probable) <= report.probable
  <2>1. probable \subseteq high
    <3> HIDE DEF probable
    <3> QED
      BY <1>9
  <2> HIDE DEF probable, high
  <2> QED
    BY <1>2, <1>4, <2>1, FS_Subset
<1> HIDE DEF errors, probable
<1> QED
  BY <1>5, <1>7, <1>8, <1>10, <1>11 DEF errors, probable

LEMMA PredictionsAdd ==
    ASSUME IsPredictionCase(subject), subject.predictions # Missing,
           JsonlFailure(subject.predictions, "predictions") = Missing
    PROVE  PredictionsAreCounted(subject)
<1> DEFINE rows == AssetManifest(subject.archive).rows
           predictions == PredictionRows(subject.predictions)
           report == ModelErrorReport(rows, predictions)
           objects == {r.object : r \in Range(rows)}
           coverage == Coverage(objects, predictions)
           Labelled(o) == \E r \in Range(rows) : r.object = o /\ r.label # Missing
<1>1. PICK V : subject.archive \in ArchivesOf(V) /\ subject.predictions \in PredictionFiles(V)
  BY DEF IsPredictionCase
<1>2. NoneIsNoText
  BY DEF IsPredictionCase
<1>3. IsList(rows)
  BY <1>1, ManifestRows
<1>4. /\ IsList(predictions)
      /\ \A p \in Range(predictions) : p.predicted = PredictedClass(p) /\ Confidence(p) \in Int
  BY <1>1, <1>2, FilesOfPredictions
<1> HIDE DEF rows, predictions
<1>5. /\ coverage.matched = objects \cap {p.object : p \in Range(predictions)}
      /\ coverage.missing = objects \ {p.object : p \in Range(predictions)}
  BY DEF Coverage
<1>6. coverage.matched \cup coverage.missing = objects
  <2> HIDE DEF coverage, objects
  <2> QED
    BY <1>5
<1>7. {q.object : q \in Range(report.signals)} = {o \in coverage.matched : Labelled(o)}
  <2> DEFINE signals == Signals(rows, predictions)
             labelled == {p.object : p \in {q \in Range(predictions) : LabelOf(rows, q.object) # Missing}}
  <2>1. report.signals = signals
    <3>1. ReportSays(report, signals)
      <4>1. signals = Signals(rows, predictions) /\ report = ModelErrorReport(rows, predictions)
        OBVIOUS
      <4> HIDE DEF signals, report
      <4> QED
        BY <4>1, ReportFields
    <3> HIDE DEF signals, report
    <3> QED
      BY <3>1 DEF ReportSays
  <2>2. {q.object : q \in Range(signals)} = labelled
    <3>1. signals = Signals(rows, predictions)
      OBVIOUS
    <3> HIDE DEF signals
    <3> QED
      BY <1>4, <3>1, SignalFacts
  <2>3. \A o : LabelOf(rows, o) # Missing <=> Labelled(o)
    BY <1>3, LabelledObjects
  <2>4. labelled = {o \in {p.object : p \in Range(predictions)} : Labelled(o)}
    <3> HIDE DEF Labelled
    <3> QED
      BY <2>3
  <2>5. \A o : Labelled(o) => o \in objects
    OBVIOUS
  <2> HIDE DEF coverage, objects, Labelled, report, signals, labelled
  <2>6. {o \in coverage.matched : Labelled(o)} = {o \in {p.object : p \in Range(predictions)} : Labelled(o)}
    BY <1>5, <2>5
  <2> QED
    BY <2>1, <2>2, <2>4, <2>6
<1>8. /\ report.correct + report.conflicts = Len(report.signals)
      /\ SumFunction(report.confusion) = Len(report.signals)
      /\ SumFunction([l \in DOMAIN report.classes |-> report.classes[l].errors]) = report.conflicts
      /\ {report.signals[k].object : k \in Candidates(report, "probable_label_error")} = report.highConfidence
      /\ Cardinality(Candidates(report, "probable_label_error")) <= report.probable
  <2>1. report = ModelErrorReport(rows, predictions)
    OBVIOUS
  <2> HIDE DEF report
  <2> QED
    BY <1>4, <2>1, ReportAddsUp
<1> HIDE DEF report, coverage, objects, Labelled
<1>9. \A p \in Range(predictions) : p.predicted = PredictedClass(p)
  BY <1>4
<1> QED
  BY <1>6, <1>7, <1>8, <1>9 DEF PredictionsAreCounted, rows, predictions, report, coverage, objects, Labelled

\* ingestion and model errors: whatever archive is read and whatever
\* predictions are joined to it, every record becomes a row or is reported, and
\* every prediction that passes is counted once.
THEOREM EveryRecordIsAccountedFor ==
    IsIngestionCase(subject) \/ IsPredictionCase(subject) => IngestionAccountsForRecords
<1>1. CASE IsIngestionCase(subject)
  <2>1. ArchiveBecomesManifest(subject)
    BY <1>1, ArchivesBecomeManifests
  <2>2. subject.kind = "ingestion"
    BY <1>1 DEF IsIngestionCase
  <2> QED
    BY <2>1, <2>2 DEF IngestionAccountsForRecords
<1>2. CASE IsPredictionCase(subject)
  <2>1. subject.kind = "analysis"
    BY <1>2 DEF IsPredictionCase
  <2>2. subject.predictions # Missing /\ JsonlFailure(subject.predictions, "predictions") = Missing
           => PredictionsAreCounted(subject)
    BY <1>2, PredictionsAdd
  <2> QED
    BY <2>1, <2>2 DEF IngestionAccountsForRecords
<1> QED
  BY <1>1, <1>2

-----------------------------------------------------------------------------
(* Redaction.                                                              *)

\* What the redaction names: its reasons and the categories of personal data.
RedactionTexts ==
    Range(Detectors) \cup
    {"unsupported_action_step_type", "unsupported_text_ocr_source_kind", "source_kind_mismatch",
     "source_name_mismatch", "redacted_export_requires_complete_records",
     "unsupported_text_ocr_artifact_media_type", "UnicodeDecodeError", "empty_redacted_text_ocr_output"}

NoneIsNoRedaction ==
    /\ Missing \notin RedactionTexts
    /\ \A records : Missing # [kind |-> "text_ocr_redacted_jsonl", records |-> records]

TextTokens == [matches : SUBSET Range(Detectors), luhn : BOOLEAN]

TextValues(V) == [string : BOOLEAN, words : V, length : Nat, tokens : Seq(TextTokens)]

\* Any record, with a text, something else under that name or nothing.
TextLines(V) ==
    [status : {"blank", "invalid", "scalar", "object"},
     record : {r \in V : Field(r, "text") \in {Missing} \cup TextValues(V)}]

IsRedactionCase(s) ==
    /\ NoneIsNoRedaction
    /\ \E V : s \in [kind : {"redaction"}, step : [type : V, kind : V, name : V, clean : BOOLEAN],
                     source : [kind : V, name : V, media : V,
                               data : [utf8 : BOOLEAN, lines : Seq(TextLines(V))]]]

LEMMA PersonalTokens ==
    ASSUME NoneIsNoRedaction, NEW t \in TextTokens
    PROVE  TokenCategory(t) # Missing <=> Personal(t)
<1> DEFINE accepting == {d \in t.matches : d = "payment_card" => t.luhn}
<1>1. accepting \subseteq Range(Detectors)
  BY DEF TextTokens
<1>2. accepting # {} <=> Personal(t)
  BY DEF Personal
<1>3. TokenCategory(t) = IF accepting = {} THEN Missing ELSE FirstOf(Detectors, accepting)
  BY DEF TokenCategory
<1> HIDE DEF accepting
<1>4. CASE accepting # {}
  <2>1. DOMAIN Detectors \subseteq Nat
    BY DEF Detectors
  <2>2. \E i \in DOMAIN Detectors : Detectors[i] \in accepting
    BY <1>1, <1>4 DEF Range
  <2>3. FirstOf(Detectors, accepting) \in accepting
    BY <2>1, <2>2, FirstIsListed
  <2> QED
    BY <1>1, <1>2, <1>3, <1>4, <2>3 DEF NoneIsNoRedaction, RedactionTexts
<1> QED
  BY <1>2, <1>3, <1>4

\* A redacted record keeps what is not personal and counts what is.
LEMMA RedactedRecordFacts ==
    ASSUME NoneIsNoRedaction, NEW id, NEW text, text.tokens \in Seq(TextTokens)
    PROVE  /\ RedactedRecord(id, text).id = id
           /\ RedactedRecord(id, text).left = {t \in Range(text.tokens) : ~Personal(t)}
           /\ RedactedRecord(id, text).count \in Nat
           /\ RedactedRecord(id, text).count > 0 <=> \E t \in Range(text.tokens) : Personal(t)
<1> DEFINE tokens == text.tokens
           found == {i \in DOMAIN tokens : Personal(tokens[i])}
<1>1. \A i \in DOMAIN tokens : tokens[i] \in TextTokens
  OBVIOUS
<1>2. Found(text) = found
  BY <1>1, PersonalTokens DEF Found
<1>3. IsFiniteSet(found) /\ Cardinality(found) \in Nat /\ (Cardinality(found) = 0 <=> found = {})
  <2>1. DOMAIN tokens = 1..Len(tokens) /\ Len(tokens) \in Nat
    OBVIOUS
  <2>2. IsFiniteSet(DOMAIN tokens)
    <3>1. \A n \in Nat : IsFiniteSet(1..n)
      BY FS_Interval
    <3> QED
      BY <2>1, <3>1
  <2>3. found \subseteq DOMAIN tokens
    OBVIOUS
  <2> HIDE DEF found
  <2>4. IsFiniteSet(found)
    BY <2>2, <2>3, FS_Subset
  <2> QED
    BY <2>4, FS_CardinalityType, FS_EmptySet
<1>4. /\ RedactedRecord(id, text).id = id
      /\ RedactedRecord(id, text).left = {tokens[i] : i \in DOMAIN tokens \ found}
      /\ RedactedRecord(id, text).count = Cardinality(found)
  BY <1>2 DEF RedactedRecord
<1>5. {tokens[i] : i \in DOMAIN tokens \ found} = {t \in Range(tokens) : ~Personal(t)}
  BY DEF Range
<1>6. found = {} <=> ~\E t \in Range(tokens) : Personal(t)
  BY DEF Range
<1> HIDE DEF found
<1> QED
  BY <1>3, <1>4, <1>5, <1>6

\* The records of a source are those of its texts, one for each.
LEMMA RecordsOfTexts ==
    ASSUME NEW V, NEW data, data.lines \in Seq(TextLines(V))
    PROVE  LET Text(n) == RedactedRecord(data.lines[n].record["object_id"], TextOf(data.lines[n].record))
           IN  /\ StringLines(data.lines) \subseteq DOMAIN data.lines /\ Cardinality(StringLines(data.lines)) \in Nat
               /\ IsList(RedactedRecords(data))
               /\ Len(RedactedRecords(data)) = Cardinality(StringLines(data.lines))
               /\ RedactedRecords(data) = <<>> <=> StringLines(data.lines) = {}
               /\ Range(RedactedRecords(data)) = {Text(n) : n \in StringLines(data.lines)}
<1> DEFINE lines == data.lines
           places == StringLines(lines)
           order == InOrder(places)
           Text(n) == RedactedRecord(lines[n].record["object_id"], TextOf(lines[n].record))
           records == [k \in DOMAIN order |-> Text(order[k])]
<1>1. places \subseteq DOMAIN lines /\ DOMAIN lines = 1..Len(lines) /\ Len(lines) \in Nat
  BY DEF StringLines
<1>2. IsFiniteSet(places) /\ places \in SUBSET Int
  <2> HIDE DEF places
  <2>1. \A n \in Nat : IsFiniteSet(1..n)
    BY FS_Interval
  <2> QED
    BY <1>1, <2>1, FS_Subset
<1>3. /\ DOMAIN order = 1..Cardinality(places) /\ Cardinality(places) \in Nat
      /\ Range(order) = places
  <2> HIDE DEF places
  <2> QED
    BY <1>2, InOrderLists
<1>4. RedactedRecords(data) = records
  BY DEF RedactedRecords
<1> HIDE DEF places, order, Text
<1>5. records = [k \in 1..Cardinality(places) |-> records[k]] /\ DOMAIN records = 1..Cardinality(places)
      /\ \A k \in DOMAIN records : records[k] = Text(order[k])
  BY <1>3
<1>6. Range(records) = {Text(n) : n \in places}
  BY <1>3, <1>5 DEF Range
<1> HIDE DEF records
<1>7. IsList(records)
  BY <1>3, <1>5 DEF IsList
<1>8. records \in Seq(Range(records)) /\ DOMAIN records = 1..Len(records) /\ Len(records) \in Nat
  BY <1>7, ListFacts
<1>9. Len(records) = Cardinality(places)
  BY <1>3, <1>5, <1>8
<1>10. records = <<>> <=> places = {}
  <2>1. places = {} <=> Cardinality(places) = 0
    BY <1>2, FS_EmptySet
  <2>2. records = <<>> <=> Len(records) = 0
    BY <1>8
  <2> QED
    BY <1>9, <2>1, <2>2
<1> QED
  BY <1>1, <1>3, <1>4, <1>6, <1>7, <1>9, <1>10 DEF places, Text

\* There are findings exactly if a record has one.
LEMMA FindingsCounted ==
    ASSUME NEW records, IsList(records), \A r \in Range(records) : r.count \in Nat
    PROVE  /\ Len(Findings(records)) \in Nat
           /\ Len(Findings(records)) > 0 <=> \E r \in Range(records) : r.count > 0
           /\ Range(Findings(records)) = {r \in Range(records) : r.count > 0}
<1> DEFINE places == {i \in DOMAIN records : records[i].count > 0}
           order == InOrder(places)
           found == [k \in DOMAIN order |-> records[order[k]]]
<1>1. DOMAIN records = 1..Len(records) /\ Len(records) \in Nat /\ IsFiniteSet(DOMAIN records)
  BY ListFacts
<1>2. IsFiniteSet(places) /\ places \in SUBSET Int
  <2>1. places \subseteq DOMAIN records
    OBVIOUS
  <2> HIDE DEF places
  <2> QED
    BY <1>1, <2>1, FS_Subset
<1>3. /\ DOMAIN order = 1..Cardinality(places) /\ Cardinality(places) \in Nat
      /\ Range(order) = places
  <2> HIDE DEF places
  <2> QED
    BY <1>2, InOrderLists
<1>4. Findings(records) = found
  BY DEF Findings
<1>5. places = {} <=> ~\E r \in Range(records) : r.count > 0
  BY DEF Range
<1>6. {records[i] : i \in places} = {r \in Range(records) : r.count > 0}
  BY DEF Range
<1> HIDE DEF places, order
<1>7. Range(found) = {records[i] : i \in places}
  BY <1>3 DEF Range
<1>8. found = [k \in 1..Cardinality(places) |-> found[k]] /\ DOMAIN found = 1..Cardinality(places)
  BY <1>3
<1> HIDE DEF found
<1>9. IsList(found)
  BY <1>3, <1>8 DEF IsList
<1>10. Len(found) = Cardinality(places)
  <2>1. DOMAIN found = 1..Len(found) /\ Len(found) \in Nat
    BY <1>9, ListFacts
  <2> QED
    BY <1>3, <1>8, <2>1
<1>11. Cardinality(places) = 0 <=> places = {}
  BY <1>2, FS_EmptySet
<1> QED
  BY <1>3, <1>4, <1>5, <1>6, <1>7, <1>10, <1>11

\* An approved redaction is complete, whatever the source holds.
LEMMA RedactionsComplete ==
    ASSUME IsRedactionCase(subject)
    PROVE  RedactionIsComplete(subject)
<1> DEFINE source == subject.source
           step == subject.step
           lines == source.data.lines
           texts == {n \in DOMAIN lines : /\ lines[n].status = "object" /\ StringId(lines[n].record)
                                          /\ TextOf(lines[n].record).string}
           Tokens(n) == Range(TextOf(lines[n].record).tokens)
           pii == {n \in texts : \E t \in Tokens(n) : Personal(t)}
           r == ExecuteRedaction(step, source)
           records == RedactedRecords(source.data)
           Text(n) == RedactedRecord(lines[n].record["object_id"], TextOf(lines[n].record))
<1>1. PICK V : /\ source.data \in [utf8 : BOOLEAN, lines : Seq(TextLines(V))]
               /\ step \in [type : V, kind : V, name : V, clean : BOOLEAN]
  BY DEF IsRedactionCase
<1>2. NoneIsNoRedaction /\ lines \in Seq(TextLines(V))
  BY <1>1 DEF IsRedactionCase
<1>3. \A n \in DOMAIN lines : TextOf(lines[n].record).tokens \in Seq(TextTokens)
  <2> SUFFICES ASSUME NEW n \in DOMAIN lines
               PROVE  TextOf(lines[n].record).tokens \in Seq(TextTokens)
    OBVIOUS
  <2>1. lines[n] \in TextLines(V)
    BY <1>2
  <2>2. Field(lines[n].record, "text") \in {Missing} \cup TextValues(V)
    BY <2>1 DEF TextLines
  <2>3. Field(lines[n].record, "text") # Missing => Field(lines[n].record, "text") = lines[n].record["text"]
    BY DEF Field
  <2> QED
    BY <2>2, <2>3 DEF TextOf, TextValues
<1>4. texts = StringLines(lines)
  BY DEF StringLines
<1>5. /\ IsList(records) /\ Len(records) = Cardinality(texts) /\ Cardinality(texts) \in Nat
      /\ records = <<>> <=> texts = {}
      /\ Range(records) = {Text(n) : n \in texts}
  <2> HIDE DEF texts
  <2> QED
    BY <1>2, <1>4, RecordsOfTexts
<1>6. \A n \in texts : /\ Text(n).id = lines[n].record["object_id"]
                       /\ Text(n).left = {t \in Tokens(n) : ~Personal(t)}
                       /\ Text(n).count \in Nat
                       /\ Text(n).count > 0 <=> n \in pii
  BY <1>2, <1>3, RedactedRecordFacts
<1> HIDE DEF texts, Text, Tokens, records, pii
<1>7. /\ Len(Findings(records)) \in Nat
      /\ Len(Findings(records)) > 0 <=> pii # {}
  <2>1. \A q \in Range(records) : q.count \in Nat
    BY <1>5, <1>6
  <2>2. (\E q \in Range(records) : q.count > 0) <=> pii # {}
    BY <1>5, <1>6 DEF pii
  <2> QED
    BY <1>5, <2>1, <2>2, FindingsCounted
<1> DEFINE artifact == [kind |-> "text_ocr_redacted_jsonl", records |-> records]
           failure == FirstReason(<<RedactionStepFailure(step, source), ReportFailure(source.data),
                                    When(records = <<>>, "empty_redacted_text_ocr_output")>>)
<1>8. r = IF failure # Missing THEN [failure |-> failure, artifacts |-> {}, policy |-> Missing]
          ELSE [failure |-> Missing, artifacts |-> {artifact},
                policy |-> ExportPolicy(Len(Findings(records)), source, artifact)]
  BY DEF ExecuteRedaction, records
<1>9. failure = Missing => step.clean /\ source.data.utf8 /\ texts # {}
  <2>1. failure = Missing =>
           /\ RedactionStepFailure(step, source) = Missing /\ ReportFailure(source.data) = Missing
           /\ When(records = <<>>, "empty_redacted_text_ocr_output") = Missing
    <3>1. ASSUME NEW a, NEW b, NEW c, FirstReason(<<a, b, c>>) = Missing
          PROVE  a = Missing /\ b = Missing /\ c = Missing
      <4> DEFINE list == <<a, b, c>>
      <4>1. list = [i \in 1..3 |-> list[i]] /\ DOMAIN list = 1..3
        OBVIOUS
      <4>2. list[1] = a /\ list[2] = b /\ list[3] = c
        OBVIOUS
      <4> HIDE DEF list
      <4>3. IsList(list)
        BY <4>1 DEF IsList
      <4>4. FirstReason(list) = Missing
        BY <3>1 DEF list
      <4>5. \A i \in 1..3 : list[i] = Missing
        BY <4>1, <4>3, <4>4, NoReason
      <4> QED
        BY <4>2, <4>5
    <3> QED
      BY <3>1
  <2>2. RedactionStepFailure(step, source) = Missing => step.clean
    <3> DEFINE list == <<When(step.type # "REDACT_PII", "unsupported_action_step_type"),
                         When(source.kind \notin {"support_messages", "ocr_records"},
                              "unsupported_text_ocr_source_kind"),
                         When(step.kind \notin {Missing, source.kind}, "source_kind_mismatch"),
                         When(step.name \notin {Missing, source.name}, "source_name_mismatch"),
                         When(~step.clean, "redacted_export_requires_complete_records"),
                         When(source.media # "application/jsonl",
                              "unsupported_text_ocr_artifact_media_type")>>
    <3>1. RedactionStepFailure(step, source) = FirstReason(list)
      BY DEF RedactionStepFailure
    <3>2. list = [i \in 1..6 |-> list[i]] /\ DOMAIN list = 1..6
      OBVIOUS
    <3>3. list[5] = When(~step.clean, "redacted_export_requires_complete_records")
      OBVIOUS
    <3> HIDE DEF list
    <3>4. IsList(list)
      BY <3>2 DEF IsList
    <3>5. FirstReason(list) = Missing => list[5] = Missing
      BY <3>2, <3>4, NoReason
    <3>6. "redacted_export_requires_complete_records" # Missing
      BY <1>2 DEF NoneIsNoRedaction, RedactionTexts
    <3> QED
      BY <3>1, <3>3, <3>5, <3>6 DEF When
  <2>3. "UnicodeDecodeError" # Missing /\ "empty_redacted_text_ocr_output" # Missing
    BY <1>2 DEF NoneIsNoRedaction, RedactionTexts
  <2>4. ReportFailure(source.data) = Missing => source.data.utf8
    BY <2>3 DEF ReportFailure, When
  <2>5. When(records = <<>>, "empty_redacted_text_ocr_output") = Missing => texts # {}
    BY <1>5, <2>3 DEF When
  <2> QED
    BY <2>1, <2>2, <2>4, <2>5
<1>10. artifact # Missing
  BY <1>2 DEF NoneIsNoRedaction
<1> DEFINE policy == ExportPolicy(Len(Findings(records)), source, artifact)
<1>11. /\ policy.ready
       /\ policy.raw <=> pii = {}
       /\ policy.raw => policy.export = source
       /\ pii # {} => policy.export = artifact
  <2>1. CASE Len(Findings(records)) = 0
    BY <1>7, <2>1 DEF ExportPolicy
  <2>2. CASE Len(Findings(records)) > 0
    <3>1. artifact.kind = "text_ocr_redacted_jsonl"
      OBVIOUS
    <3> HIDE DEF artifact
    <3>2. policy = [ready |-> TRUE, raw |-> FALSE, export |-> artifact,
                    reasons |-> {"raw_text_ocr_export_replaced_by_redacted_artifact"}]
      BY <1>7, <1>10, <2>2, <3>1 DEF ExportPolicy
    <3> QED
      BY <1>7, <2>2, <3>2
  <2> QED
    BY <1>7, <2>1, <2>2
<1>12. \A n \in texts : \E k \in DOMAIN records :
          /\ records[k].id = lines[n].record["object_id"]
          /\ records[k].left = {t \in Tokens(n) : ~Personal(t)}
          /\ records[k].count > 0 <=> n \in pii
  <2> TAKE n \in texts
  <2>1. PICK k \in DOMAIN records : records[k] = Text(n)
    <3>1. Text(n) \in Range(records)
      BY <1>5
    <3> QED
      BY <3>1 DEF Range
  <2> QED
    BY <1>6, <2>1
<1> DEFINE Complete(result) ==
             IF result.failure # Missing THEN result.artifacts = {}
             ELSE /\ result.policy.ready /\ source.data.utf8 /\ step.clean /\ texts # {}
                  /\ result.policy.raw <=> pii = {}
                  /\ result.policy.raw => result.policy.export = source
                  /\ pii # {} =>
                        LET exported == result.policy.export.records
                        IN  /\ Len(exported) = Cardinality(texts)
                            /\ \A n \in texts : \E k \in DOMAIN exported :
                                  /\ exported[k].id = lines[n].record["object_id"]
                                  /\ exported[k].left = {t \in Tokens(n) : ~Personal(t)}
                                  /\ exported[k].count > 0 <=> n \in pii
<1>13. Complete(r)
  <2>1. CASE failure # Missing
    <3>1. r.failure = failure /\ r.artifacts = {}
      BY <1>8, <2>1
    <3> QED
      BY <2>1, <3>1
  <2>2. CASE failure = Missing
    <3>1. r.failure = Missing /\ r.policy = policy
      BY <1>8, <2>2
    <3>2. artifact.records = records
      OBVIOUS
    <3> HIDE DEF r, policy, artifact, failure
    <3> QED
      BY <1>5, <1>9, <1>11, <1>12, <2>2, <3>1, <3>2
  <2> QED
    BY <2>1, <2>2
<1> QED
  BY <1>13 DEF RedactionIsComplete, texts, Tokens, pii, r

\* text_ocr: whatever source an approved redaction reads, each of its texts is
\* exported without its personal data, and nothing raw if any has some.
THEOREM RedactionsLeaveNoFinding ==
    IsRedactionCase(subject) => PassportsCarryFindings
<1> SUFFICES ASSUME IsRedactionCase(subject) PROVE PassportsCarryFindings
  OBVIOUS
<1>1. RedactionIsComplete(subject)
  BY RedactionsComplete
<1>2. subject.kind = "redaction"
  BY DEF IsRedactionCase
<1>3. Evidence!FindingsReachTheirObject(subject)
  BY <1>2 DEF Evidence!FindingsReachTheirObject
<1> QED
  BY <1>1, <1>3 DEF PassportsCarryFindings

-----------------------------------------------------------------------------
(* From texts to passports.                                                *)

\* The reasons of the validator that its records are kept apart by.
ValidatorTexts ==
    {"missing_required_field", "invalid_text_type", "empty_text", "text_too_short",
     "invalid_object_id_type", "invalid_ocr_confidence"}

NoneIsNoFailure == Missing \notin ValidatorTexts

\* A line without a failure has an id and a text, so that its redaction is stored.
LEMMA ValidLineIsText ==
    ASSUME NoneIsNoFailure, NEW V, NEW line \in TextLines(V), line.status = "object",
           LineFailure(line, 1) = Missing
    PROVE  /\ StringId(line.record) /\ TextOf(line.record).string
           /\ TextOf(line.record) = line.record["text"]
           /\ TextOf(line.record).tokens \in Seq(TextTokens)
<1> DEFINE record == line.record
           text == TextOf(record)
           a == When(Missing \in {Field(record, "object_id"), Field(record, "text")}, "missing_required_field")
           b == When(~text.string, "invalid_text_type")
           c == When(text.length = 0, "empty_text")
           d == When(text.length < 1, "text_too_short")
           e == When(~StringId(record), "invalid_object_id_type")
           f == When(Field(record, "ocr_confidence") = "out_of_range", "invalid_ocr_confidence")
           list == <<a, b, c, d, e, f>>
<1>1. FirstReason(list) = Missing
  <2>1. LineFailure(line, 1) = ParseFailure(record, 1)
    BY DEF LineFailure
  <2> QED
    BY <2>1 DEF ParseFailure
<1>2. b = Missing => text.string
  BY DEF When, NoneIsNoFailure, ValidatorTexts
<1>3. e = Missing => StringId(record)
  BY DEF When, NoneIsNoFailure, ValidatorTexts
<1> HIDE DEF a, b, c, d, e, f
<1>4. list \in Seq({a, b, c, d, e, f}) /\ DOMAIN list = 1..6 /\ list[2] = b /\ list[5] = e
  OBVIOUS
<1> HIDE DEF list
<1>5. \A i \in DOMAIN list : list[i] = Missing
  BY <1>1, <1>4, SeqIsList, NoReason
<1>6. b = Missing /\ e = Missing
  <2>1. 2 \in 1..6 /\ 5 \in 1..6
    OBVIOUS
  <2> QED
    BY <1>4, <1>5, <2>1
<1>7. text.string /\ StringId(record)
  BY <1>2, <1>3, <1>6
<1>8. Field(record, "text") # Missing
  BY <1>7 DEF TextOf
<1>9. text = record["text"] /\ text = Field(record, "text")
  BY <1>8 DEF TextOf, Field
<1>10. Field(record, "text") \in TextValues(V)
  BY <1>8 DEF TextLines
<1>11. text.tokens \in Seq(TextTokens)
  BY <1>9, <1>10 DEF TextValues
<1> QED
  BY <1>7, <1>9, <1>11

\* What a text source reports: each finding is stored redacted, comes from a
\* record with an id, and no token that is left is personal.
LEMMA FindingsOfSource ==
    ASSUME NoneIsNoRedaction, NoneIsNoFailure, NEW V, NEW kind, NEW data,
           data.lines \in Seq(TextLines(V))
    PROVE  LET report == SourceReport(kind, data, 1)
           IN  /\ Range(report.findings) \subseteq Range(report.stored)
               /\ \A f \in Range(report.stored) : \A t \in f.left : ~Personal(t)
               /\ \A f \in Range(report.findings) : \E n \in ValidLines(data, 1) :
                     /\ n \in DOMAIN data.lines /\ data.lines[n].status = "object"
                     /\ f.id = Field(data.lines[n].record, "object_id") /\ f.id # Missing
                     /\ \E t \in Range(TextOf(data.lines[n].record).tokens) : Personal(t)
               /\ \A n \in ValidLines(data, 1) :
                     (\E t \in Range(TextOf(data.lines[n].record).tokens) : Personal(t)) =>
                        \E f \in Range(report.findings) :
                           f.id = Field(data.lines[n].record, "object_id") /\ f.id # Missing
<1> DEFINE lines == data.lines
           valid == ValidLines(data, 1)
           IsPersonal(n) == \E t \in Range(TextOf(lines[n].record).tokens) : Personal(t)
           order == InOrder(valid)
           strings == StringLines(lines)
           Text(n) == RedactedRecord(lines[n].record["object_id"], TextOf(lines[n].record))
           Plain(n) == RedactedRecord(lines[n].record["object_id"], lines[n].record["text"])
           redacted == [i \in DOMAIN order |-> Plain(order[i])]
           report == SourceReport(kind, data, 1)
<1>1. DOMAIN lines = 1..Len(lines) /\ Len(lines) \in Nat /\ \A n \in DOMAIN lines : lines[n] \in TextLines(V)
  OBVIOUS
<1>2. \A n \in valid : n \in DOMAIN lines /\ lines[n].status = "object" /\ LineFailure(lines[n], 1) = Missing
  <2>1. \A n \in DOMAIN Readable(data) : n \in DOMAIN lines
    BY DEF Readable
  <2> QED
    BY <2>1 DEF ValidLines, WellFormed
<1> HIDE DEF valid
<1>3. \A n \in valid : /\ StringId(lines[n].record) /\ TextOf(lines[n].record).string
                       /\ TextOf(lines[n].record) = lines[n].record["text"]
                       /\ TextOf(lines[n].record).tokens \in Seq(TextTokens)
  BY <1>1, <1>2, ValidLineIsText
<1>4. valid \subseteq strings /\ \A n \in valid : Plain(n) = Text(n)
  BY <1>2, <1>3 DEF StringLines
<1>5. IsFiniteSet(valid) /\ valid \in SUBSET Int
  <2>1. valid \subseteq 1..Len(lines)
    BY <1>1, <1>2
  <2>2. \A n \in Nat : IsFiniteSet(1..n)
    BY FS_Interval
  <2>3. IsFiniteSet(1..Len(lines)) /\ \A n \in 1..Len(lines) : n \in Int
    BY <1>1, <2>2
  <2>4. IsFiniteSet(valid)
    BY <2>1, <2>3, FS_Subset
  <2> QED
    BY <2>1, <2>3, <2>4
<1>6. /\ DOMAIN order = 1..Cardinality(valid) /\ Cardinality(valid) \in Nat /\ Range(order) = valid
  BY <1>5, InOrderLists
<1>7. report.findings = Findings(redacted) /\ report.stored = Findings(RedactedRecords(data))
  BY DEF SourceReport, PersistedRedaction, valid
<1> HIDE DEF order, Text, Plain
<1>8. redacted = [i \in 1..Cardinality(valid) |-> redacted[i]] /\ Range(redacted) = {Plain(n) : n \in valid}
  BY <1>6 DEF Range
<1> HIDE DEF redacted
<1>9. IsList(redacted)
  BY <1>6, <1>8 DEF IsList
<1>10. IsList(RedactedRecords(data)) /\ Range(RedactedRecords(data)) = {Text(n) : n \in strings}
  BY RecordsOfTexts DEF Text
<1>11. \A n \in strings : /\ Text(n).id = lines[n].record["object_id"] /\ Text(n).count \in Nat
                          /\ Text(n).left = {t \in Range(TextOf(lines[n].record).tokens) : ~Personal(t)}
                          /\ Text(n).count > 0 <=> IsPersonal(n)
  <2> SUFFICES ASSUME NEW n \in strings
               PROVE  /\ Text(n).id = lines[n].record["object_id"] /\ Text(n).count \in Nat
                      /\ Text(n).left = {t \in Range(TextOf(lines[n].record).tokens) : ~Personal(t)}
                      /\ Text(n).count > 0 <=> IsPersonal(n)
    OBVIOUS
  <2>1. n \in DOMAIN lines /\ TextOf(lines[n].record).string
    BY DEF StringLines
  <2>2. Field(lines[n].record, "text") \in TextValues(V)
    BY <1>1, <2>1 DEF TextLines, TextOf
  <2>3. TextOf(lines[n].record).tokens \in Seq(TextTokens)
    BY <2>2 DEF TextOf, TextValues, Field
  <2> QED
    BY <2>3, RedactedRecordFacts DEF Text
<1>12. /\ Range(report.findings) = {r \in {Plain(n) : n \in valid} : r.count > 0}
       /\ Range(report.stored) = {r \in {Text(n) : n \in strings} : r.count > 0}
  <2>1. \A r \in Range(redacted) : r.count \in Nat
    BY <1>4, <1>8, <1>11
  <2>2. \A r \in Range(RedactedRecords(data)) : r.count \in Nat
    BY <1>10, <1>11
  <2>3. Range(Findings(redacted)) = {r \in Range(redacted) : r.count > 0}
    BY <1>9, <2>1, FindingsCounted
  <2>4. Range(Findings(RedactedRecords(data))) = {r \in Range(RedactedRecords(data)) : r.count > 0}
    BY <1>10, <2>2, FindingsCounted
  <2> QED
    BY <1>7, <1>8, <1>10, <2>3, <2>4
<1> HIDE DEF report, strings, IsPersonal
<1>13. Range(report.findings) \subseteq Range(report.stored)
  BY <1>4, <1>12
<1>14. \A f \in Range(report.stored) : \A t \in f.left : ~Personal(t)
  BY <1>11, <1>12
<1>15. \A n \in valid : /\ Field(lines[n].record, "object_id") # Missing
                         /\ Field(lines[n].record, "object_id") = lines[n].record["object_id"]
  <2>1. \A n \in valid : Field(lines[n].record, "object_id") # Missing
    BY <1>3 DEF StringId
  <2> QED
    BY <2>1 DEF Field
<1>16. \A f \in Range(report.findings) : \E n \in valid :
          /\ n \in DOMAIN lines /\ lines[n].status = "object"
          /\ f.id = Field(lines[n].record, "object_id") /\ f.id # Missing /\ IsPersonal(n)
  <2> SUFFICES ASSUME NEW f \in Range(report.findings)
               PROVE  \E n \in valid :
                         /\ n \in DOMAIN lines /\ lines[n].status = "object"
                         /\ f.id = Field(lines[n].record, "object_id") /\ f.id # Missing /\ IsPersonal(n)
    OBVIOUS
  <2>1. PICK n \in valid : f = Plain(n) /\ f.count > 0
    BY <1>12
  <2>2. f.id = lines[n].record["object_id"] /\ IsPersonal(n)
    BY <1>4, <1>11, <2>1
  <2> QED
    BY <1>2, <1>15, <2>2
<1>17. \A n \in valid : IsPersonal(n) =>
          \E f \in Range(report.findings) : f.id = Field(lines[n].record, "object_id") /\ f.id # Missing
  <2> SUFFICES ASSUME NEW n \in valid, IsPersonal(n)
               PROVE  \E f \in Range(report.findings) :
                         f.id = Field(lines[n].record, "object_id") /\ f.id # Missing
    OBVIOUS
  <2>1. Plain(n) = Text(n) /\ Text(n).count > 0 /\ Text(n).id = lines[n].record["object_id"]
    BY <1>4, <1>11
  <2>2. Plain(n) \in Range(report.findings)
    BY <1>12, <2>1
  <2> QED
    BY <1>15, <2>1, <2>2
<1> QED
  BY <1>13, <1>14, <1>16, <1>17 DEF report, valid, IsPersonal

\* The texts of an archive are lines of one of its files of that kind.
LEMMA TextsOfArchive ==
    ASSUME NEW V, NEW archive \in ArchivesOf(V), NEW kind, OfKind(archive, kind) # {}
    PROVE  \E i \in Contents(archive) :
              /\ archive.entries[i] \in Entries(V) /\ archive.entries[i].kind = kind
              /\ TextData(archive, kind).lines = archive.entries[i].lines
<1> DEFINE places == OfKind(archive, kind)
           last == Max(places)
<1>1. archive.entries \in Seq(Entries(V))
  BY DEF ArchivesOf
<1>2. /\ DOMAIN archive.entries = 1..Len(archive.entries) /\ Len(archive.entries) \in Nat
      /\ \A i \in DOMAIN archive.entries : archive.entries[i] \in Entries(V)
  BY <1>1
<1>3. /\ places \subseteq Contents(archive) /\ Contents(archive) \subseteq DOMAIN archive.entries
      /\ \A i \in places : archive.entries[i].kind = kind
  BY DEF OfKind, Contents
<1> HIDE DEF places
<1>4. IsFiniteSet(places) /\ \A i \in places : i \in Int
  <2>1. \A n \in Nat : IsFiniteSet(1..n)
    BY FS_Interval
  <2>2. IsFiniteSet(DOMAIN archive.entries) /\ \A i \in DOMAIN archive.entries : i \in Int
    BY <1>2, <2>1
  <2>3. places \subseteq DOMAIN archive.entries
    BY <1>3
  <2>4. IsFiniteSet(places)
    BY <2>2, <2>3, FS_Subset
  <2> QED
    BY <2>2, <2>3, <2>4
<1>5. last \in places
  <2>1. places # {}
    BY DEF places
  <2> QED
    BY <1>4, <2>1, MaxOfFinite
<1>6. TextData(archive, kind) = [utf8 |-> archive.entries[last].utf8, lines |-> archive.entries[last].lines]
  BY DEF TextData, places
<1> HIDE DEF last
<1>7. TextData(archive, kind).lines = archive.entries[last].lines
  BY <1>6
<1> QED
  BY <1>2, <1>3, <1>5, <1>7

\* Each record of a file of lines has a row in the manifest.
LEMMA RecordHasRow ==
    ASSUME NEW V, NEW archive \in ArchivesOf(V), NEW i \in Contents(archive),
           archive.entries[i] \in Entries(V), archive.entries[i].kind \in LineFormats,
           NEW n \in DOMAIN archive.entries[i].lines, archive.entries[i].lines[n].status = "object"
    PROVE  \E row \in Range(AssetManifest(archive).rows) :
              /\ row.source = Field(archive.entries[i].lines[n].record, "object_id")
              /\ row.hash = archive.entries[i].lines[n].record /\ row.system = archive.entries[i].kind
<1> DEFINE entry == archive.entries[i]
           row == ManifestRow(entry.kind, Modality(entry.kind), entry.lines[n].record, n, Missing)
<1>1. EntryRows(entry) = JsonlRows(entry)
  BY DEF EntryRows, LineFormats
<1>2. row \in Range(JsonlRows(entry))
  BY JsonlRowFacts
<1>3. row \in Range(AssetManifest(archive).rows)
  <2>1. Range(AssetManifest(archive).rows) = UNION {Range(EntryRows(archive.entries[j])) : j \in Contents(archive)}
    BY ManifestRows
  <2> HIDE DEF row
  <2> QED
    BY <1>1, <1>2, <2>1
<1>4. /\ row.source = Field(entry.lines[n].record, "object_id")
      /\ row.hash = entry.lines[n].record /\ row.system = entry.kind
  BY DEF ManifestRow
<1> HIDE DEF row
<1> QED
  BY <1>3, <1>4

\* A row of a file of texts is a text.
LEMMA RowsOfTexts ==
    ASSUME NEW V, NEW archive \in ArchivesOf(V), NEW row \in Range(AssetManifest(archive).rows),
           row.system \in {"support_messages", "ocr_records"}
    PROVE  row.modality \in TextModalities /\ row.source = Field(row.hash, "object_id")
<1>1. archive.entries \in Seq(Entries(V))
  BY DEF ArchivesOf
<1>2. \A i \in DOMAIN archive.entries : archive.entries[i] \in Entries(V)
  BY <1>1
<1>3. PICK i \in Contents(archive) : row \in Range(EntryRows(archive.entries[i]))
  <2>1. Range(AssetManifest(archive).rows) = UNION {Range(EntryRows(archive.entries[i])) : i \in Contents(archive)}
    BY ManifestRows
  <2> QED
    BY <2>1
<1> DEFINE entry == archive.entries[i]
<1>4. entry \in Entries(V)
  BY <1>2, <1>3 DEF Contents
<1>5. entry.kind \in EntryKinds
  BY <1>4 DEF Entries
<1>6. CASE entry.kind = "transactions"
  <2>1. EntryRows(entry) = TabularRows(entry)
    BY <1>6 DEF EntryRows, LineFormats
  <2>2. row.system = "transactions"
    BY <1>3, <2>1 DEF TabularRows, ManifestRow, Range
  <2> QED
    BY <2>2
<1>7. CASE entry.kind \in LineFormats
  <2>1. EntryRows(entry) = JsonlRows(entry)
    BY <1>7 DEF EntryRows, LineFormats
  <2>2. PICK n \in DOMAIN entry.lines : row =
           ManifestRow(entry.kind, Modality(entry.kind), entry.lines[n].record, n, Missing)
    BY <1>3, <1>4, <2>1, JsonlRowFacts
  <2>3. /\ row.system = entry.kind /\ row.modality = Modality(entry.kind)
        /\ row.source = Field(row.hash, "object_id")
    BY <2>2 DEF ManifestRow
  <2> QED
    BY <2>3 DEF Modality, TextModalities
<1>8. CASE entry.kind = "annotations"
  <2>1. row = SkeletonRow(entry)
    BY <1>3, <1>8 DEF EntryRows, Range, LineFormats
  <2>2. row.system = "annotations_sample"
    BY <2>1 DEF SkeletonRow, ManifestRow
  <2> QED
    BY <2>2
<1>9. CASE entry.kind \in {"other", "predictions", "readme"}
  BY <1>3, <1>9 DEF EntryRows, Range, LineFormats
<1> QED
  BY <1>5, <1>6, <1>7, <1>8, <1>9 DEF EntryKinds

\* The map leads from an id to the object of a row that has it.
LEMMA MapLeadsToRow ==
    ASSUME NEW rows, IsList(rows), NEW id
    PROVE  /\ id \in DOMAIN SourceMap(rows) <=> id # Missing /\ \E row \in Range(rows) : row.source = id
           /\ id \in DOMAIN SourceMap(rows) =>
                 /\ \E row \in Range(rows) : row.source = id /\ SourceMap(rows)[id] = row.object
                 /\ SourceMap(rows)[id] = LastObject(rows, id)
<1> DEFINE named == {i \in DOMAIN rows : rows[i].source = id}
           last == Max(named)
<1>1. id \in DOMAIN SourceMap(rows) <=> id # Missing /\ \E row \in Range(rows) : row.source = id
  BY DEF SourceMap
<1>2. ASSUME id \in DOMAIN SourceMap(rows)
      PROVE  /\ \E row \in Range(rows) : row.source = id /\ SourceMap(rows)[id] = row.object
             /\ SourceMap(rows)[id] = LastObject(rows, id)
  <2>1. named # {}
    BY <1>1, <1>2 DEF Range
  <2>2. IsFiniteSet(named) /\ \A i \in named : i \in Int
    <3>1. DOMAIN rows = 1..Len(rows) /\ Len(rows) \in Nat /\ IsFiniteSet(DOMAIN rows)
      BY ListFacts
    <3>2. named \subseteq DOMAIN rows /\ \A i \in DOMAIN rows : i \in Int
      BY <3>1
    <3> HIDE DEF named
    <3>3. IsFiniteSet(named)
      BY <3>1, <3>2, FS_Subset
    <3> QED
      BY <3>2, <3>3
  <2>3. last \in named
    <3> HIDE DEF named
    <3> QED
      BY <2>1, <2>2, MaxOfFinite
  <2>4. SourceMap(rows)[id] = rows[last].object /\ SourceMap(rows)[id] = LastObject(rows, id)
    BY <1>2 DEF SourceMap, LastObject
  <2> HIDE DEF last
  <2>5. rows[last] \in Range(rows) /\ rows[last].source = id
    BY <2>3 DEF Range
  <2> QED
    BY <2>4, <2>5
<1> QED
  BY <1>1, <1>2

\* What the passport of a row says of the texts of its object.
LEMMA PassportOfTexts ==
    ASSUME NEW in, NEW row
    PROVE  LET passport == Passport(in, row)
               flagged == UNION {{f.id : f \in Range(r.findings)} : r \in Range(in.text.sources)}
           IN  /\ passport.privacy.detected <=>
                     /\ row.modality \in TextModalities
                     /\ flagged \cap SourceIds(in.rows, row.object) # {}
               /\ passport.privacy.detected =>
                     passport.privacy.export = "redacted_only" /\ "pii_detected" \in passport.reasons
               /\ ~passport.privacy.detected => passport.privacy.export # "redacted_only"
<1> DEFINE passport == Passport(in, row)
           flagged == UNION {{f.id : f \in Range(r.findings)} : r \in Range(in.text.sources)}
           ids == SourceIds(in.rows, row.object)
           text == TextSignals(in.rows, in.text, row.object)
           privacy == Privacy(row, text)
           model == ModelSignal(in.errors, row.object)
           duplicates == {SourceMap(in.rows)[id] : id \in in.profile.duplicates.affected \cap DOMAIN SourceMap(in.rows)}
           quality == Quality(row, text, OutlierColumns(in.profile, ids), ViolatedRules(in.profile, in.table, ids))
           duplicate == DuplicateScore(row, text, duplicates)
           learning == LearningValue(row, model, RareScore(in.profile, row.label))
<1>1. text.pii \in BOOLEAN /\ (text.pii <=> flagged \cap ids # {})
  <2> DEFINE findings == UNION {{f \in Range(r.findings) : f.id \in ids} : r \in Range(in.text.sources)}
  <2>1. text.pii = (findings # {})
    BY DEF TextSignals
  <2>2. findings # {} <=> flagged \cap ids # {}
    OBVIOUS
  <2> QED
    BY <2>1, <2>2
<1>2. /\ passport.privacy = privacy
      /\ passport.reasons = IF row.modality \in Skeleton THEN {"validated_skeleton_only"}
                            ELSE PassportReasons(quality, privacy, duplicate, learning)
  BY DEF Passport
<1> HIDE DEF passport, flagged, ids, text, model, duplicates, quality, duplicate, learning
<1>3. row.modality \in TextModalities => row.modality \notin Skeleton
  BY DEF TextModalities, Skeleton
<1>4. row.modality \in TextModalities =>
         privacy = [risk |-> text.risk, detected |-> text.pii, types |-> text.types,
                    export |-> IF text.pii THEN "redacted_only" ELSE "allowed"]
  BY <1>3 DEF Privacy
<1>5. row.modality \notin TextModalities => privacy.detected = FALSE /\ privacy.export # "redacted_only"
  BY DEF Privacy
<1>6. privacy.detected <=> row.modality \in TextModalities /\ flagged \cap ids # {}
  BY <1>1, <1>4, <1>5
<1>7. /\ privacy.detected => privacy.export = "redacted_only"
      /\ ~privacy.detected => privacy.export # "redacted_only"
  BY <1>4, <1>5
<1> HIDE DEF privacy
<1>8. privacy.detected => "pii_detected" \in PassportReasons(quality, privacy, duplicate, learning)
  <2> SUFFICES ASSUME privacy.detected PROVE "pii_detected" \in PassportReasons(quality, privacy, duplicate, learning)
    OBVIOUS
  <2> QED
    BY DEF PassportReasons
<1>9. privacy.detected => "pii_detected" \in passport.reasons
  BY <1>2, <1>3, <1>6, <1>8
<1> QED
  BY <1>2, <1>6, <1>7, <1>9 DEF passport, flagged, ids

\* text_ocr and object_analytics: whatever the texts of an archive and the rest
\* of the analysis say, what is found in a record is stored redacted; it is on
\* the passport of the last row with the id of the record, if that is a text,
\* and on no other; so an object with an id of its own is restricted exactly if
\* its record is one with personal data.
THEOREM TextFindingsReachPassports ==
    ASSUME NoneIsNoRedaction, NoneIsNoFailure, NEW V, NEW archive \in ArchivesOf(V),
           \A i \in DOMAIN archive.entries :
              archive.entries[i].kind \in {"support_messages", "ocr_records"} =>
                 archive.entries[i].lines \in Seq(TextLines(V)),
           OfKind(archive, "support_messages") # {}, OfKind(archive, "ocr_records") # {},
           NEW in, in.rows = AssetManifest(archive).rows, in.text = TextReportOf(archive)
    PROVE  FindingsReachPassports(archive, in.rows, PassportsOf(in))
<1> DEFINE rows == AssetManifest(archive).rows
           Source(kind) == SourceReport(kind, TextData(archive, kind), 1)
           sources == TextReportOf(archive).sources
           flagged == UNION {{f.id : f \in Range(r.findings)} : r \in Range(sources)}
           stored == UNION {Range(r.stored) : r \in Range(sources)}
           passports == PassportsOf(in)
           detected == {i \in DOMAIN rows : passports[i].privacy.detected}
           personal == PersonalRows(archive, rows)
           kinds == {"support_messages", "ocr_records"}
<1>1. IsList(rows)
  BY ManifestRows
<1>2. Range(sources) = {Source(kind) : kind \in kinds}
  <2>1. sources = <<Source("support_messages"), Source("ocr_records")>>
    BY DEF TextReportOf, TextReport
  <2> HIDE DEF Source
  <2> QED
    BY <2>1 DEF Range
<1>3. \A i \in DOMAIN rows :
         i \in personal <=>
            /\ rows[i].system \in kinds /\ \E t \in Range(TextOf(rows[i].hash).tokens) : Personal(t)
            /\ \E n \in ValidLines(TextData(archive, rows[i].system), 1) :
                  TextData(archive, rows[i].system).lines[n].record = rows[i].hash
  BY DEF PersonalRows
<1>4. \A i \in DOMAIN rows : rows[i] \in Range(rows)
  BY DEF Range
<1>5. \A i \in personal : /\ i \in DOMAIN rows /\ rows[i].system \in kinds
                          /\ rows[i].modality \in TextModalities
                          /\ rows[i].source = Field(rows[i].hash, "object_id")
  <2>1. \A i \in personal : i \in DOMAIN rows
    BY DEF PersonalRows
  <2> QED
    BY <1>3, <1>4, <2>1, RowsOfTexts
<1> HIDE DEF personal
<1>6. ASSUME NEW kind \in kinds
      PROVE  /\ Range(Source(kind).findings) \subseteq Range(Source(kind).stored)
             /\ \A f \in Range(Source(kind).stored) : \A t \in f.left : ~Personal(t)
             /\ \A f \in Range(Source(kind).findings) :
                   f.id # Missing /\ \E i \in personal : rows[i].source = f.id
             /\ \A i \in personal : rows[i].system = kind =>
                   rows[i].source \in {f.id : f \in Range(Source(kind).findings)}
  <2> DEFINE data == TextData(archive, kind)
             report == SourceReport(kind, data, 1)
             IsPersonal(record) == \E t \in Range(TextOf(record).tokens) : Personal(t)
  <2>1. PICK i \in Contents(archive) :
           /\ archive.entries[i] \in Entries(V) /\ archive.entries[i].kind = kind
           /\ data.lines = archive.entries[i].lines
    BY TextsOfArchive
  <2>2. i \in DOMAIN archive.entries /\ kind \in LineFormats
    BY DEF Contents, LineFormats
  <2>3. data.lines \in Seq(TextLines(V))
    BY <2>1, <2>2 DEF Entries
  <2> HIDE DEF data, report
  <2>4. /\ Range(report.findings) \subseteq Range(report.stored)
        /\ \A f \in Range(report.stored) : \A t \in f.left : ~Personal(t)
        /\ \A f \in Range(report.findings) : \E n \in ValidLines(data, 1) :
              /\ n \in DOMAIN data.lines /\ data.lines[n].status = "object"
              /\ f.id = Field(data.lines[n].record, "object_id") /\ f.id # Missing
              /\ IsPersonal(data.lines[n].record)
        /\ \A n \in ValidLines(data, 1) : IsPersonal(data.lines[n].record) =>
              \E f \in Range(report.findings) :
                 f.id = Field(data.lines[n].record, "object_id") /\ f.id # Missing
    BY <2>3, FindingsOfSource DEF report
  <2> HIDE DEF IsPersonal
  <2>5. \A f \in Range(report.findings) : f.id # Missing /\ \E k \in personal : rows[k].source = f.id
    <3> SUFFICES ASSUME NEW f \in Range(report.findings)
                 PROVE  f.id # Missing /\ \E k \in personal : rows[k].source = f.id
      OBVIOUS
    <3>1. PICK n \in ValidLines(data, 1) :
             /\ n \in DOMAIN data.lines /\ data.lines[n].status = "object"
             /\ f.id = Field(data.lines[n].record, "object_id") /\ f.id # Missing
             /\ IsPersonal(data.lines[n].record)
      BY <2>4
    <3>2. PICK row \in Range(AssetManifest(archive).rows) :
             /\ row.source = Field(archive.entries[i].lines[n].record, "object_id")
             /\ row.hash = archive.entries[i].lines[n].record /\ row.system = archive.entries[i].kind
      BY <2>1, <2>2, <3>1, RecordHasRow
    <3>3. PICK k \in DOMAIN rows : row = rows[k]
      BY <3>2 DEF Range
    <3>4. /\ rows[k].source = f.id /\ rows[k].hash = data.lines[n].record /\ rows[k].system = kind
          /\ IsPersonal(rows[k].hash)
      BY <2>1, <3>1, <3>2, <3>3
    <3> HIDE DEF rows
    <3>5. k \in personal
      BY <1>3, <3>1, <3>3, <3>4 DEF data, IsPersonal
    <3> QED
      BY <3>1, <3>4, <3>5
  <2>6. \A k \in personal : rows[k].system = kind =>
           rows[k].source \in {f.id : f \in Range(report.findings)}
    <3> SUFFICES ASSUME NEW k \in personal, rows[k].system = kind
                 PROVE  rows[k].source \in {f.id : f \in Range(report.findings)}
      OBVIOUS
    <3> HIDE DEF rows
    <3>1. PICK n \in ValidLines(data, 1) : data.lines[n].record = rows[k].hash
      BY <1>3, <1>5 DEF data
    <3>2. IsPersonal(rows[k].hash)
      BY <1>3, <1>5 DEF IsPersonal
    <3>3. PICK f \in Range(report.findings) : f.id = Field(data.lines[n].record, "object_id")
      BY <2>4, <3>1, <3>2
    <3> QED
      BY <1>5, <3>1, <3>3
  <2> QED
    BY <2>4, <2>5, <2>6 DEF report, data
<1> HIDE DEF Source
<1>7. /\ \A r \in Range(sources) : Range(r.findings) \subseteq Range(r.stored)
      /\ \A r \in Range(sources) : \A f \in Range(r.stored) : \A t \in f.left : ~Personal(t)
      /\ \A id \in flagged : id # Missing /\ \E i \in personal : rows[i].source = id
  BY <1>2, <1>6
<1>8. \A i \in personal : rows[i].source \in flagged
  BY <1>2, <1>5, <1>6
<1>9. flagged \subseteq {f.id : f \in stored}
  BY <1>7
<1>10. \A f \in stored : \A t \in f.left : t.matches \ {"payment_card"} = {}
  BY <1>7 DEF Personal
<1>11. /\ DOMAIN passports = DOMAIN rows
       /\ \A i \in DOMAIN rows : passports[i] = Passport(in, rows[i])
  BY DEF PassportsOf
<1>12. \A i \in DOMAIN rows :
          /\ i \in detected <=> /\ rows[i].modality \in TextModalities
                                /\ flagged \cap SourceIds(rows, rows[i].object) # {}
          /\ i \in detected => /\ passports[i].privacy.export = "redacted_only"
                               /\ "pii_detected" \in passports[i].reasons
          /\ i \notin detected => passports[i].privacy.export # "redacted_only"
  <2> SUFFICES ASSUME NEW i \in DOMAIN rows
               PROVE  /\ i \in detected <=> /\ rows[i].modality \in TextModalities
                                            /\ flagged \cap SourceIds(rows, rows[i].object) # {}
                      /\ i \in detected => /\ passports[i].privacy.export = "redacted_only"
                                           /\ "pii_detected" \in passports[i].reasons
                      /\ i \notin detected => passports[i].privacy.export # "redacted_only"
    OBVIOUS
  <2>1. passports[i] = Passport(in, rows[i])
    BY <1>11
  <2>2. i \in detected <=> passports[i].privacy.detected
    OBVIOUS
  <2> HIDE DEF rows, sources, passports, detected
  <2>3. in.rows = rows /\ in.text.sources = sources
    BY DEF rows, sources
  <2> QED
    BY <2>1, <2>2, <2>3, PassportOfTexts
<1> HIDE DEF sources, flagged, stored, passports, detected
<1>13. \A i \in DOMAIN rows :
          flagged \cap SourceIds(rows, rows[i].object) # {} <=>
             rows[i].source \in flagged /\ rows[i].object = LastObject(rows, rows[i].source)
  <2> SUFFICES ASSUME NEW i \in DOMAIN rows
               PROVE  flagged \cap SourceIds(rows, rows[i].object) # {} <=>
                         rows[i].source \in flagged /\ rows[i].object = LastObject(rows, rows[i].source)
    OBVIOUS
  <2>1. ASSUME NEW id \in flagged, id \in SourceIds(rows, rows[i].object)
        PROVE  rows[i].source = id /\ rows[i].object = LastObject(rows, rows[i].source)
    <3>1. id \in DOMAIN SourceMap(rows) /\ SourceMap(rows)[id] = rows[i].object
      BY <2>1 DEF SourceIds
    <3>2. PICK row \in Range(rows) : row.source = id /\ row.object = rows[i].object
      BY <1>1, <3>1, MapLeadsToRow
    <3>3. rows[i].source = row.source
      BY <1>4, <3>2, EqualObjects
    <3>4. SourceMap(rows)[id] = LastObject(rows, id)
      BY <1>1, <3>1, MapLeadsToRow
    <3> QED
      BY <3>1, <3>2, <3>3, <3>4
  <2>2. ASSUME rows[i].source \in flagged, rows[i].object = LastObject(rows, rows[i].source)
        PROVE  rows[i].source \in SourceIds(rows, rows[i].object)
    <3>1. rows[i].source # Missing
      BY <1>7, <2>2
    <3>2. rows[i].source \in DOMAIN SourceMap(rows)
      BY <1>1, <1>4, <3>1, MapLeadsToRow
    <3>3. SourceMap(rows)[rows[i].source] = LastObject(rows, rows[i].source)
      BY <1>1, <3>2, MapLeadsToRow
    <3> QED
      BY <2>2, <3>2, <3>3 DEF SourceIds
  <2> QED
    BY <2>1, <2>2
<1>14. \A i \in DOMAIN rows : rows[i].source \in flagged <=> rows[i].source \in {rows[j].source : j \in personal}
  BY <1>7, <1>8
<1>15. \A i \in DOMAIN rows :
          i \in detected <=> /\ rows[i].modality \in TextModalities
                             /\ rows[i].source \in {rows[j].source : j \in personal}
                             /\ rows[i].object = LastObject(rows, rows[i].source)
  BY <1>12, <1>13, <1>14
<1>16. \A i \in DOMAIN rows : (\A j \in DOMAIN rows : rows[j].source = rows[i].source => j = i) =>
          (i \in detected <=> i \in personal)
  <2> SUFFICES ASSUME NEW i \in DOMAIN rows, \A j \in DOMAIN rows : rows[j].source = rows[i].source => j = i
               PROVE  i \in detected <=> i \in personal
    OBVIOUS
  <2>1. i \in detected => i \in personal
    BY <1>5, <1>15
  <2>2. {k \in DOMAIN rows : rows[k].source = rows[i].source} = {i}
    OBVIOUS
  <2>3. i \in Int
    BY <1>1, ListFacts
  <2>4. Max({i}) = i
    <3>1. IsFiniteSet({i})
      BY FS_Singleton
    <3> QED
      BY <2>3, <3>1, MaxOfFinite
  <2>5. rows[i].object = LastObject(rows, rows[i].source)
    BY <2>2, <2>4 DEF LastObject
  <2> QED
    BY <1>5, <1>15, <2>1, <2>5
<1>17. \A i \in DOMAIN rows :
          IF i \in detected
          THEN passports[i].privacy.export = "redacted_only" /\ "pii_detected" \in passports[i].reasons
          ELSE passports[i].privacy.export # "redacted_only"
  BY <1>12
<1> HIDE DEF rows
<1>18. FindingsReachPassports(archive, rows, passports)
  BY <1>9, <1>10, <1>15, <1>16, <1>17
     DEF FindingsReachPassports, sources, flagged, stored, detected, personal
<1>19. in.rows = rows /\ PassportsOf(in) = passports
  BY DEF rows, passports
<1> QED
  BY <1>18, <1>19

=============================================================================
