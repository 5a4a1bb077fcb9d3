---------------------------- MODULE BatchProofs ----------------------------
(***************************************************************************)
(* Theorems about aggregateBatch, for batches of any length: the rows it   *)
(* returns are in order, and storing them has the effect of storing the    *)
(* metrics of the batch one by one.                                        *)
(*                                                                         *)
(* The inductions are over sets of lengths: a set of naturals that holds 0 *)
(* and the successor of each of its members is Nat.                        *)
(***************************************************************************)
EXTENDS BatchAggregation, SequenceTheorems, FunctionTheorems, FiniteSetTheorems,
        WellFoundedInduction, TLAPS

\* A set of naturals has a least member.
LEMMA LeastNatural ==
    ASSUME NEW N \in SUBSET Nat, N # {}
    PROVE  \E x \in N : \A y \in N : ~(y < x)
<1>1. PICK x \in N : \A y \in N : ~(<<y, x>> \in OpToRel(<, Nat))
  BY WFMin, NatLessThanWellFounded
<1>2. \A y \in N : y < x => <<y, x>> \in OpToRel(<, Nat)
  BY DEF OpToRel
<1> QED
  BY <1>1, <1>2

LEMMA AllNaturals ==
    ASSUME NEW N \in SUBSET Nat, 0 \in N, \A n \in N : n + 1 \in N
    PROVE  N = Nat
<1> SUFFICES ASSUME N # Nat
             PROVE  FALSE
  OBVIOUS
<1>1. PICK x \in Nat \ N : \A y \in Nat \ N : ~(y < x)
  BY LeastNatural
<1>2. x # 0 /\ x - 1 \in Nat /\ x - 1 < x
  BY <1>1
<1>3. x - 1 \in N
  BY <1>1, <1>2
<1>4. (x - 1) + 1 \in N
  BY <1>3
<1> QED
  BY <1>1, <1>4

-----------------------------------------------------------------------------
(* What FoldLeft computes, for the two operations a batch is folded with.     *)

Step(op, x, m) == IF op = "merge" THEN Merge(x, m) ELSE Upsert(x, m)

\* The function FoldLeft is defined by, for sets of places.
Folding(f, op, base, seq, D) ==
    f = [t \in SUBSET D |->
            IF t = {} THEN base ELSE Step(op, f[t \ {Max(t)}], seq[Max(t)])]

LEMMA LastPlace ==
    ASSUME NEW n \in Nat, NEW t \in SUBSET (1..(n + 1)), n + 1 \in t
    PROVE  Max(t) = n + 1
<1>1. \A y \in t : n + 1 >= y
  OBVIOUS
<1>2. \A x \in t : (\A y \in t : x >= y) => x = n + 1
  OBVIOUS
<1> QED
  BY <1>1, <1>2 DEF Max

LEMMA FoldingExists ==
    ASSUME NEW op, NEW base, NEW seq, NEW n \in Nat
    PROVE  \E f : Folding(f, op, base, seq, 1..n)
<1> DEFINE N == {k \in Nat : \E f : Folding(f, op, base, seq, 1..k)}
<1>1. 0 \in N
  <2> DEFINE f == [t \in SUBSET (1..0) |-> base]
  <2>1. SUBSET (1..0) = {{}}
    OBVIOUS
  <2>2. Folding(f, op, base, seq, 1..0)
    BY <2>1 DEF Folding
  <2> QED
    BY <2>2
<1>2. ASSUME NEW k \in N
      PROVE  k + 1 \in N
  <2>1. PICK f : Folding(f, op, base, seq, 1..k)
    OBVIOUS
  <2> DEFINE g == [t \in SUBSET (1..(k + 1)) |->
                     IF k + 1 \in t THEN Step(op, f[t \ {k + 1}], seq[k + 1]) ELSE f[t]]
  <2>2. ASSUME NEW t \in SUBSET (1..(k + 1))
        PROVE  g[t] = IF t = {} THEN base ELSE Step(op, g[t \ {Max(t)}], seq[Max(t)])
    <3>1. CASE k + 1 \in t
      <4>1. Max(t) = k + 1
        BY <3>1, LastPlace
      <4>2. t \ {k + 1} \in SUBSET (1..(k + 1)) /\ k + 1 \notin t \ {k + 1}
        OBVIOUS
      <4>3. g[t \ {k + 1}] = f[t \ {k + 1}]
        BY <4>2
      <4> QED
        BY <3>1, <4>1, <4>3
    <3>2. CASE k + 1 \notin t
      <4>1. t \in SUBSET (1..k) /\ g[t] = f[t]
        BY <3>2
      <4>2. f[t] = IF t = {} THEN base ELSE Step(op, f[t \ {Max(t)}], seq[Max(t)])
        BY <2>1, <4>1 DEF Folding
      <4>3. t \ {Max(t)} \in SUBSET (1..(k + 1)) /\ k + 1 \notin t \ {Max(t)}
        BY <3>2
      <4>4. g[t \ {Max(t)}] = f[t \ {Max(t)}]
        BY <4>3
      <4> QED
        BY <4>1, <4>2, <4>4
    <3> QED
      BY <3>1, <3>2
  <2>3. Folding(g, op, base, seq, 1..(k + 1))
    <3>1. g = [t \in SUBSET (1..(k + 1)) |-> g[t]]
      OBVIOUS
    <3> HIDE DEF g
    <3> QED
      BY <2>2, <3>1 DEF Folding
  <2> QED
    BY <2>3
<1>3. N = Nat
  <2> HIDE DEF N
  <2>1. N \in SUBSET Nat
    BY DEF N
  <2> QED
    BY <1>1, <1>2, <2>1, AllNaturals
<1> QED
  BY <1>3

\* What it gives for the first places of seq.
Stepwise(f, op, base, seq, n) ==
    /\ f[1..0] = base
    /\ \A k \in Nat : k < n => f[1..(k + 1)] = Step(op, f[1..k], seq[k + 1])

LEMMA FoldingStep ==
    ASSUME NEW op, NEW base, NEW seq, NEW n \in Nat, NEW f, Folding(f, op, base, seq, 1..n)
    PROVE  Stepwise(f, op, base, seq, n)
<1>1. 1..0 = {} /\ 1..0 \in SUBSET (1..n)
  OBVIOUS
<1>2. f[1..0] = base
  BY <1>1 DEF Folding
<1>3. ASSUME NEW k \in Nat, k < n
      PROVE  f[1..(k + 1)] = Step(op, f[1..k], seq[k + 1])
  <2>1. 1..(k + 1) \in SUBSET (1..n) /\ 1..(k + 1) \in SUBSET (1..(k + 1)) /\ k + 1 \in 1..(k + 1)
    BY <1>3
  <2>2. 1..(k + 1) # {} /\ (1..(k + 1)) \ {k + 1} = 1..k
    <3>1. \A i \in 1..(k + 1) : i # k + 1 => i \in 1..k
      OBVIOUS
    <3>2. \A i \in 1..k : i \in 1..(k + 1) /\ i # k + 1
      OBVIOUS
    <3> QED
      BY <2>1, <3>1, <3>2
  <2>3. Max(1..(k + 1)) = k + 1
    BY <2>1, LastPlace
  <2>4. f[1..(k + 1)] = Step(op, f[(1..(k + 1)) \ {Max(1..(k + 1))}], seq[Max(1..(k + 1))])
    BY <2>1, <2>2 DEF Folding
  <2> QED
    BY <2>2, <2>3, <2>4
<1> QED
  BY <1>2, <1>3 DEF Stepwise

LEMMA FoldingsAgree ==
    ASSUME NEW op, NEW base,
           NEW s, NEW n \in Nat, NEW f, Folding(f, op, base, s, 1..n),
           NEW u, NEW m \in Nat, NEW g, Folding(g, op, base, u, 1..m),
           n <= m, \A i \in 1..n : s[i] = u[i]
    PROVE  f[1..n] = g[1..n]
<1> DEFINE N == {j \in Nat : j <= n => f[1..j] = g[1..j]}
<1>0. Stepwise(f, op, base, s, n) /\ Stepwise(g, op, base, u, m)
  BY FoldingStep
<1>1. 0 \in N
  BY <1>0 DEF Stepwise
<1>2. ASSUME NEW j \in N
      PROVE  j + 1 \in N
  <2> SUFFICES ASSUME j + 1 <= n
               PROVE  f[1..(j + 1)] = g[1..(j + 1)]
    OBVIOUS
  <2>1. j < n /\ j < m /\ j \in Nat /\ s[j + 1] = u[j + 1] /\ f[1..j] = g[1..j]
    OBVIOUS
  <2>2. f[1..(j + 1)] = Step(op, f[1..j], s[j + 1])
    BY <1>0, <2>1 DEF Stepwise
  <2>3. g[1..(j + 1)] = Step(op, g[1..j], u[j + 1])
    BY <1>0, <2>1 DEF Stepwise
  <2> QED
    BY <2>1, <2>2, <2>3
<1>3. N = Nat
  <2> HIDE DEF N
  <2>1. N \in SUBSET Nat
    BY DEF N
  <2> QED
    BY <1>1, <1>2, <2>1, AllNaturals
<1> QED
  BY <1>3

Folded(op, base, seq) ==
    (CHOOSE h : Folding(h, op, base, seq, 1..Len(seq)))[1..Len(seq)]

LEMMA FoldedEmpty ==
    ASSUME NEW op, NEW base
    PROVE  Folded(op, base, <<>>) = base
<1>1. Len(<<>>) = 0
  OBVIOUS
<1> DEFINE f == CHOOSE h : Folding(h, op, base, <<>>, 1..0)
<1>2. Folding(f, op, base, <<>>, 1..0)
  BY FoldingExists
<1>3. Folded(op, base, <<>>) = f[1..0]
  BY <1>1 DEF Folded
<1> HIDE DEF f
<1>4. Stepwise(f, op, base, <<>>, 0)
  BY <1>2, FoldingStep
<1> QED
  BY <1>3, <1>4 DEF Stepwise

LEMMA FoldedAppend ==
    ASSUME NEW op, NEW base, NEW S, NEW seq \in Seq(S), NEW m \in S
    PROVE  Folded(op, base, Append(seq, m)) = Step(op, Folded(op, base, seq), m)
<1> DEFINE n == Len(seq)
           u == Append(seq, m)
           f == CHOOSE h : Folding(h, op, base, seq, 1..n)
           g == CHOOSE h : Folding(h, op, base, u, 1..(n + 1))
<1>1. n \in Nat /\ n + 1 \in Nat /\ Len(u) = n + 1 /\ u[n + 1] = m
  BY LenProperties, AppendProperties
<1>2. \A i \in 1..n : seq[i] = u[i]
  BY AppendProperties
<1>3. Folding(f, op, base, seq, 1..n)
  <2> HIDE DEF n
  <2> QED
    BY <1>1, FoldingExists
<1>4. Folding(g, op, base, u, 1..(n + 1))
  <2> HIDE DEF n, u
  <2> QED
    BY <1>1, FoldingExists
<1> HIDE DEF n, u, f, g
<1>5. f[1..n] = g[1..n]
  <2>1. n <= n + 1
    BY <1>1
  <2> QED
    BY <1>1, <1>2, <1>3, <1>4, <2>1, FoldingsAgree
<1>6. g[1..(n + 1)] = Step(op, g[1..n], u[n + 1])
  <2>1. Stepwise(g, op, base, u, n + 1)
    BY <1>1, <1>4, FoldingStep
  <2> QED
    BY <1>1, <2>1 DEF Stepwise
<1>7. Folded(op, base, seq) = f[1..n] /\ Folded(op, base, u) = g[1..(n + 1)]
  BY <1>1 DEF Folded, f, g, n
<1> QED
  BY <1>1, <1>5, <1>6, <1>7 DEF u

LEMMA FoldLeftMerge ==
    ASSUME NEW base, NEW S, NEW seq \in Seq(S)
    PROVE  FoldLeft(Merge, base, seq) = Folded("merge", base, seq)
<1>1. DOMAIN seq = 1..Len(seq)
  BY LenProperties
<1> DEFINE D == DOMAIN seq
           f == CHOOSE h : h = [t \in SUBSET D |->
                    IF t = {} THEN base ELSE Merge(h[t \ {Max(t)}], seq[Max(t)])]
           g == CHOOSE h : h = [t \in SUBSET D |->
                    IF t = {} THEN base ELSE Step("merge", h[t \ {Max(t)}], seq[Max(t)])]
<1>2. FoldLeft(Merge, base, seq) = f[D]
  BY DEF FoldLeft, MapThenFoldSet
<1>3. Folded("merge", base, seq) = g[D]
  BY <1>1 DEF Folded, Folding
<1>4. f = g
  BY DEF Step
<1> QED
  BY <1>2, <1>3, <1>4

LEMMA FoldLeftUpsert ==
    ASSUME NEW base, NEW S, NEW seq \in Seq(S)
    PROVE  FoldLeft(Upsert, base, seq) = Folded("upsert", base, seq)
<1>1. DOMAIN seq = 1..Len(seq)
  BY LenProperties
<1> DEFINE D == DOMAIN seq
           f == CHOOSE h : h = [t \in SUBSET D |->
                    IF t = {} THEN base ELSE Upsert(h[t \ {Max(t)}], seq[Max(t)])]
           g == CHOOSE h : h = [t \in SUBSET D |->
                    IF t = {} THEN base ELSE Step("upsert", h[t \ {Max(t)}], seq[Max(t)])]
<1>2. FoldLeft(Upsert, base, seq) = f[D]
  BY DEF FoldLeft, MapThenFoldSet
<1>3. Folded("upsert", base, seq) = g[D]
  BY <1>1 DEF Folded, Folding
<1>4. f = g
  BY DEF Step
<1> QED
  BY <1>2, <1>3, <1>4

-----------------------------------------------------------------------------
(* The effect of metrics no two of which have the same key.                   *)

\* The metrics that pass the validation, with values of gauges from V.
Metrics(V) ==
    {m \in [mtype : {"gauge", "counter"}, id : Nat, amount : V \cup Int] :
        m.amount \in IF m.mtype = "counter" THEN Int ELSE V}

\* What a storage holds.
Counting(rows) == \A k \in DOMAIN rows : k[1] = "counter" => rows[k] \in Int

Distinct(out) == \A i, j \in DOMAIN out : Key(out[i]) = Key(out[j]) => i = j

\* What the row of the metric holds, once the metric is stored.
Stored(rows, m) ==
    IF m.mtype = "counter" /\ Key(m) \in DOMAIN rows THEN rows[Key(m)] + m.amount ELSE m.amount

\* The rows new are what storing the metrics of M makes of rows.
HasEffect(rows, M, new) ==
    /\ new = [k \in DOMAIN new |-> new[k]]
    /\ DOMAIN new = DOMAIN rows \cup {Key(m) : m \in M}
    /\ \A m \in M : new[Key(m)] = Stored(rows, m)
    /\ \A k \in DOMAIN rows : (\A m \in M : Key(m) # k) => new[k] = rows[k]

LEMMA EffectUnique ==
    ASSUME NEW rows, NEW M, NEW a, NEW b, HasEffect(rows, M, a), HasEffect(rows, M, b)
    PROVE  a = b
<1>1. DOMAIN a = DOMAIN b
  BY DEF HasEffect
<1>2. ASSUME NEW k \in DOMAIN a
      PROVE  a[k] = b[k]
  <2>1. CASE \E m \in M : Key(m) = k
    BY <2>1 DEF HasEffect
  <2>2. CASE \A m \in M : Key(m) # k
    <3>1. k \in DOMAIN rows
      BY <2>2 DEF HasEffect
    <3> QED
      BY <2>2, <3>1 DEF HasEffect
  <2> QED
    BY <2>1, <2>2
<1>3. a = [k \in DOMAIN a |-> a[k]] /\ b = [k \in DOMAIN b |-> b[k]]
  BY DEF HasEffect
<1> QED
  BY <1>1, <1>2, <1>3

LEMMA EffectNone ==
    ASSUME NEW rows, rows = [k \in DOMAIN rows |-> rows[k]]
    PROVE  HasEffect(rows, {}, rows)
<1>1. {Key(m) : m \in {}} = {}
  OBVIOUS
<1> QED
  BY <1>1 DEF HasEffect

LEMMA UpsertRows ==
    ASSUME NEW rows, NEW m
    PROVE  /\ Upsert(rows, m) = [k \in DOMAIN Upsert(rows, m) |-> Upsert(rows, m)[k]]
           /\ DOMAIN Upsert(rows, m) = DOMAIN rows \cup {Key(m)}
           /\ Upsert(rows, m)[Key(m)] = Stored(rows, m)
           /\ \A k \in DOMAIN rows : k # Key(m) => Upsert(rows, m)[k] = rows[k]
BY DEF Upsert, Stored

LEMMA EffectAnother ==
    ASSUME NEW V, NEW M \in SUBSET Metrics(V), NEW rows, NEW new, HasEffect(rows, M, new),
           NEW m \in Metrics(V), \A x \in M : Key(x) # Key(m)
    PROVE  HasEffect(rows, M \cup {m}, Upsert(new, m))
<1> DEFINE u == Upsert(new, m)
<1>1. /\ u = [k \in DOMAIN u |-> u[k]]
      /\ DOMAIN u = DOMAIN new \cup {Key(m)}
      /\ u[Key(m)] = Stored(new, m)
      /\ \A k \in DOMAIN new : k # Key(m) => u[k] = new[k]
  BY UpsertRows
<1> HIDE DEF u
<1>2. DOMAIN u = DOMAIN rows \cup {Key(x) : x \in M \cup {m}}
  BY <1>1 DEF HasEffect
<1>3. ASSUME NEW x \in M
      PROVE  u[Key(x)] = Stored(rows, x)
  <2>1. Key(x) \in DOMAIN new /\ Key(x) # Key(m)
    BY DEF HasEffect
  <2> QED
    BY <1>1, <2>1 DEF HasEffect
<1>4. u[Key(m)] = Stored(rows, m)
  <2>1. Key(m) \in DOMAIN new <=> Key(m) \in DOMAIN rows
    BY DEF HasEffect
  <2>2. Key(m) \in DOMAIN rows => new[Key(m)] = rows[Key(m)]
    BY DEF HasEffect
  <2> QED
    BY <1>1, <2>1, <2>2 DEF Stored
<1>5. ASSUME NEW k \in DOMAIN rows, \A x \in M \cup {m} : Key(x) # k
      PROVE  u[k] = rows[k]
  <2>1. k \in DOMAIN new /\ k # Key(m) /\ new[k] = rows[k]
    BY <1>5 DEF HasEffect
  <2> QED
    BY <1>1, <2>1
<1>6. HasEffect(rows, M \cup {m}, u)
  BY <1>1, <1>2, <1>3, <1>4, <1>5 DEF HasEffect
<1> QED
  BY <1>6 DEF u

LEMMA MergedMetric ==
    ASSUME NEW V, NEW x \in Metrics(V), NEW m \in Metrics(V), Key(x) = Key(m)
    PROVE  /\ Merged(x, m) \in Metrics(V) /\ Key(Merged(x, m)) = Key(m)
           /\ Merged(x, m).mtype = m.mtype /\ x.mtype = m.mtype
           /\ m.mtype # "counter" => Merged(x, m).amount = m.amount
           /\ m.mtype = "counter" => /\ m.amount \in Int /\ x.amount \in Int
                                     /\ Merged(x, m).amount = m.amount + x.amount
<1>1. x.mtype = m.mtype /\ x.id = m.id
  BY DEF Key
<1>2. CASE m.mtype = "gauge"
  BY <1>1, <1>2 DEF Merged
<1>3. CASE m.mtype = "counter"
  <2>1. m.amount \in Int /\ x.amount \in Int
    BY <1>1, <1>3 DEF Metrics
  <2>2. Merged(x, m) = [mtype |-> m.mtype, id |-> m.id, amount |-> m.amount + x.amount]
    BY <1>3 DEF Merged, Metrics
  <2>3. m.amount + x.amount \in Int /\ m.id \in Nat
    BY <2>1 DEF Metrics
  <2> QED
    BY <1>1, <1>3, <2>1, <2>2, <2>3 DEF Metrics, Key
<1>4. m.mtype = "gauge" \/ m.mtype = "counter"
  BY DEF Metrics
<1> QED
  BY <1>2, <1>3, <1>4

LEMMA EffectMerged ==
    ASSUME NEW V, NEW M \in SUBSET Metrics(V),
           \A a, b \in M : Key(a) = Key(b) => a = b,
           NEW rows, Counting(rows), NEW new, HasEffect(rows, M, new),
           NEW m \in Metrics(V), NEW x \in M, Key(x) = Key(m)
    PROVE  HasEffect(rows, (M \ {x}) \cup {Merged(x, m)}, Upsert(new, m))
<1> DEFINE u == Upsert(new, m)
           y == Merged(x, m)
           L == (M \ {x}) \cup {y}
<1>1. /\ u = [k \in DOMAIN u |-> u[k]]
      /\ DOMAIN u = DOMAIN new \cup {Key(m)}
      /\ u[Key(m)] = Stored(new, m)
      /\ \A k \in DOMAIN new : k # Key(m) => u[k] = new[k]
  BY UpsertRows
<1>2. /\ Key(y) = Key(m) /\ y.mtype = m.mtype /\ x.mtype = m.mtype
      /\ m.mtype # "counter" => y.amount = m.amount
      /\ m.mtype = "counter" => /\ m.amount \in Int /\ x.amount \in Int
                                /\ y.amount = m.amount + x.amount
  BY MergedMetric
<1> HIDE DEF u, y
<1>3. Key(m) \in DOMAIN new /\ new[Key(m)] = Stored(rows, x)
  BY DEF HasEffect
<1>4. {Key(z) : z \in L} = {Key(z) : z \in M}
  BY <1>2
<1>5. DOMAIN u = DOMAIN rows \cup {Key(z) : z \in L}
  <2>1. DOMAIN u = DOMAIN new
    BY <1>1, <1>3
  <2> QED
    BY <1>4, <2>1 DEF HasEffect
<1>6. u[Key(y)] = Stored(rows, y)
  <2>1. CASE m.mtype = "counter"
    <3>1. u[Key(m)] = Stored(rows, x) + m.amount
      BY <1>1, <1>3, <2>1 DEF Stored
    <3>2. CASE Key(m) \in DOMAIN rows
      <4>1. rows[Key(m)] \in Int
        BY <2>1, <3>2 DEF Counting, Key
      <4>2. Stored(rows, x) = rows[Key(m)] + x.amount
        BY <1>2, <2>1, <3>2 DEF Stored
      <4>3. Stored(rows, y) = rows[Key(m)] + (m.amount + x.amount)
        BY <1>2, <2>1, <3>2 DEF Stored
      <4> QED
        BY <1>2, <2>1, <3>1, <4>1, <4>2, <4>3
    <3>3. CASE Key(m) \notin DOMAIN rows
      <4>1. Stored(rows, x) = x.amount
        BY <3>3 DEF Stored
      <4>2. Stored(rows, y) = m.amount + x.amount
        BY <1>2, <2>1, <3>3 DEF Stored
      <4> QED
        BY <1>2, <2>1, <3>1, <4>1, <4>2
    <3> QED
      BY <3>2, <3>3
  <2>2. CASE m.mtype # "counter"
    BY <1>1, <1>2, <2>2 DEF Stored
  <2> QED
    BY <2>1, <2>2
<1>7. ASSUME NEW z \in M, z # x
      PROVE  u[Key(z)] = Stored(rows, z)
  <2>1. Key(z) \in DOMAIN new /\ Key(z) # Key(m)
    BY <1>7 DEF HasEffect
  <2> QED
    BY <1>1, <2>1 DEF HasEffect
<1>8. ASSUME NEW k \in DOMAIN rows, \A z \in L : Key(z) # k
      PROVE  u[k] = rows[k]
  <2>1. \A z \in M : Key(z) # k
    BY <1>2, <1>8
  <2>2. k \in DOMAIN new /\ k # Key(m) /\ new[k] = rows[k]
    BY <2>1 DEF HasEffect
  <2> QED
    BY <1>1, <2>2
<1>9. HasEffect(rows, L, u)
  <2> HIDE DEF L
  <2>1. \A z \in L : z = y \/ (z \in M /\ z # x)
    BY DEF L
  <2> QED
    BY <1>1, <1>5, <1>6, <1>7, <1>8, <2>1 DEF HasEffect
<1> QED
  BY <1>9 DEF u, y

-----------------------------------------------------------------------------
(* Merging keeps the keys distinct, and a list of metrics with distinct keys  *)
(* stored from first to last has the effect of the set of them.               *)

LEMMA DistinctSet ==
    ASSUME NEW out, Distinct(out)
    PROVE  \A a, b \in ToSet(out) : Key(a) = Key(b) => a = b
BY DEF Distinct, ToSet

LEMMA MergeAnother ==
    ASSUME NEW V, NEW out \in Seq(Metrics(V)), Distinct(out), NEW m \in Metrics(V),
           \A i \in DOMAIN out : Key(out[i]) # Key(m)
    PROVE  /\ Merge(out, m) \in Seq(Metrics(V)) /\ Distinct(Merge(out, m))
           /\ ToSet(Merge(out, m)) = ToSet(out) \cup {m}
<1> DEFINE S == Metrics(V)
           u == Append(out, m)
<1> HIDE DEF S
<1>0. out \in Seq(S) /\ m \in S
  BY DEF S
<1>1. Merge(out, m) = u
  BY DEF Merge
<1>2. /\ u \in Seq(S) /\ Len(u) = Len(out) + 1 /\ Len(out) \in Nat
      /\ DOMAIN u = 1..(Len(out) + 1) /\ DOMAIN out = 1..Len(out)
      /\ \A i \in 1..Len(out) : u[i] = out[i]
      /\ u[Len(out) + 1] = m
  BY <1>0, AppendProperties, LenProperties
<1> HIDE DEF u
<1>3. Distinct(u)
  BY <1>2 DEF Distinct
<1>4. ToSet(u) = ToSet(out) \cup {m}
  <2>1. \A i \in DOMAIN u : i \in DOMAIN out \/ i = Len(out) + 1
    BY <1>2
  <2>2. Len(out) + 1 \in DOMAIN u /\ \A i \in DOMAIN out : i \in DOMAIN u
    BY <1>2
  <2> QED
    BY <1>2, <2>1, <2>2 DEF ToSet
<1> QED
  BY <1>1, <1>2, <1>3, <1>4 DEF S

LEMMA MergeSame ==
    ASSUME NEW V, NEW out \in Seq(Metrics(V)), Distinct(out), NEW m \in Metrics(V),
           NEW i \in DOMAIN out, Key(out[i]) = Key(m)
    PROVE  /\ Merge(out, m) \in Seq(Metrics(V)) /\ Distinct(Merge(out, m))
           /\ ToSet(Merge(out, m)) = (ToSet(out) \ {out[i]}) \cup {Merged(out[i], m)}
<1> DEFINE S == Metrics(V)
           u == [j \in DOMAIN out |-> IF j = i THEN Merged(out[i], m) ELSE out[j]]
<1>0. out \in Seq(S) /\ m \in S /\ out[i] \in S
  BY ElementOfSeq, LenProperties
<1>1. \A j \in DOMAIN out : j # i => Key(out[j]) # Key(m)
  BY DEF Distinct
<1>2. Merge(out, m) = u
  BY <1>1 DEF Merge
<1>3. Merged(out[i], m) \in S /\ Key(Merged(out[i], m)) = Key(m)
  BY <1>0, MergedMetric
<1>4. DOMAIN u = DOMAIN out /\ u[i] = Merged(out[i], m) /\ \A j \in DOMAIN out : j # i => u[j] = out[j]
  OBVIOUS
<1>5. u \in Seq(S)
  <2> HIDE DEF S
  <2>1. DOMAIN out = 1..Len(out) /\ Len(out) \in Nat /\ \A j \in 1..Len(out) : out[j] \in S
    BY <1>0, ElementOfSeq, LenProperties
  <2>2. u \in [1..Len(out) -> S]
    BY <1>3, <2>1
  <2> QED
    BY <2>1, <2>2, SeqDef
<1> HIDE DEF u
<1>6. \A j \in DOMAIN out : Key(u[j]) = Key(out[j])
  BY <1>3, <1>4
<1>7. Distinct(u)
  BY <1>4, <1>6 DEF Distinct
<1>8. ToSet(u) = (ToSet(out) \ {out[i]}) \cup {Merged(out[i], m)}
  <2>1. \A j \in DOMAIN out : j # i => out[j] # out[i]
    BY <1>1
  <2> QED
    BY <1>4, <2>1 DEF ToSet
<1> QED
  BY <1>2, <1>5, <1>7, <1>8

LEMMA ListEmptyOrAppend ==
    ASSUME NEW S, NEW n \in Nat, NEW seq \in Seq(S), Len(seq) = n + 1
    PROVE  \E t \in Seq(S), m \in S : Len(t) = n /\ seq = Append(t, m)
<1>1. seq # <<>>
  OBVIOUS
<1>2. PICK t \in Seq(S), m \in S : seq = Append(t, m)
  BY <1>1, SequenceEmptyOrAppend
<1>3. Len(t) + 1 = n + 1 /\ Len(t) \in Nat
  BY <1>2, AppendProperties, LenProperties
<1> QED
  BY <1>2, <1>3

\* Rows that hold values from V: those a storage may hold.
Rowed(rows, V) ==
    /\ rows = [k \in DOMAIN rows |-> rows[k]]
    /\ \A k \in DOMAIN rows :
          k[1] \in {"counter", "gauge"} /\ rows[k] \in IF k[1] = "counter" THEN Int ELSE V

LEMMA UpsertRowed ==
    ASSUME NEW V, NEW rows, Rowed(rows, V), NEW m \in Metrics(V)
    PROVE  Rowed(Upsert(rows, m), V)
<1> DEFINE u == Upsert(rows, m)
<1>1. /\ u = [k \in DOMAIN u |-> u[k]]
      /\ DOMAIN u = DOMAIN rows \cup {Key(m)}
      /\ u[Key(m)] = Stored(rows, m)
      /\ \A k \in DOMAIN rows : k # Key(m) => u[k] = rows[k]
  BY UpsertRows
<1>2. /\ Key(m)[1] = m.mtype /\ m.mtype \in {"counter", "gauge"}
      /\ m.amount \in IF m.mtype = "counter" THEN Int ELSE V
  BY DEF Key, Metrics
<1>3. Stored(rows, m) \in IF m.mtype = "counter" THEN Int ELSE V
  <2>1. CASE m.mtype = "counter" /\ Key(m) \in DOMAIN rows
    <3>1. rows[Key(m)] \in Int
      BY <1>2, <2>1 DEF Rowed
    <3> QED
      BY <1>2, <2>1, <3>1 DEF Stored
  <2>2. CASE ~(m.mtype = "counter" /\ Key(m) \in DOMAIN rows)
    BY <1>2, <2>2 DEF Stored
  <2> QED
    BY <2>1, <2>2
<1> HIDE DEF u
<1>4. Rowed(u, V)
  BY <1>1, <1>2, <1>3 DEF Rowed
<1> QED
  BY <1>4 DEF u

LEMMA FoldedRowed ==
    ASSUME NEW V, NEW seq \in Seq(Metrics(V)), NEW rows, Rowed(rows, V)
    PROVE  Rowed(Folded("upsert", rows, seq), V)
<1> DEFINE S == Metrics(V)
           N == {n \in Nat : \A u \in Seq(S) : Len(u) = n => Rowed(Folded("upsert", rows, u), V)}
<1>1. 0 \in N
  <2> SUFFICES ASSUME NEW u \in Seq(S), Len(u) = 0
               PROVE  Rowed(Folded("upsert", rows, u), V)
    OBVIOUS
  <2>1. u = <<>>
    BY EmptySeq
  <2> QED
    BY <2>1, FoldedEmpty
<1>2. ASSUME NEW n \in N
      PROVE  n + 1 \in N
  <2> SUFFICES ASSUME NEW u \in Seq(S), Len(u) = n + 1
               PROVE  Rowed(Folded("upsert", rows, u), V)
    OBVIOUS
  <2>0. n \in Nat
    OBVIOUS
  <2>1. PICK t \in Seq(S), m \in S : Len(t) = n /\ u = Append(t, m)
    <3> HIDE DEF S, N
    <3> QED
      BY <2>0, ListEmptyOrAppend
  <2>2. Folded("upsert", rows, u) = Upsert(Folded("upsert", rows, t), m)
    <3> HIDE DEF S
    <3> QED
      BY <2>1, FoldedAppend DEF Step
  <2>3. Rowed(Folded("upsert", rows, t), V)
    BY <2>1
  <2> QED
    BY <2>2, <2>3, UpsertRowed
<1>3. N = Nat
  <2> HIDE DEF N
  <2>1. N \in SUBSET Nat
    BY DEF N
  <2> QED
    BY <1>1, <1>2, <2>1, AllNaturals
<1>4. Len(seq) \in Nat
  BY LenProperties
<1> QED
  BY <1>3, <1>4

LEMMA FoldedHead ==
    ASSUME NEW op, NEW base, NEW S, NEW seq \in Seq(S), seq # <<>>
    PROVE  Folded(op, base, seq) = Folded(op, Step(op, base, Head(seq)), Tail(seq))
<1> DEFINE HeadFirst(u) == Folded(op, base, u) = Folded(op, Step(op, base, Head(u)), Tail(u))
           N == {n \in Nat : \A u \in Seq(S) : Len(u) = n + 1 => HeadFirst(u)}
<1>1. 0 \in N
  <2> SUFFICES ASSUME NEW u \in Seq(S), Len(u) = 0 + 1
               PROVE  HeadFirst(u)
    OBVIOUS
  <2>0. u # <<>>
    <3>1. Len(<<>>) = 0 /\ Len(u) = 1
      BY EmptySeq
    <3>2. Len(u) # Len(<<>>)
      BY <3>1, 0 # 1
    <3> QED
      BY <3>2, Zenon
  <2>1. PICK t \in Seq(S), m \in S : u = Append(t, m)
    BY <2>0, SequenceEmptyOrAppend
  <2>2. t = <<>>
    <3>1. Len(u) = Len(t) + 1 /\ Len(t) \in Nat /\ Len(u) = 1
      BY <2>1, AppendProperties, LenProperties
    <3>2. Len(t) = 0
      BY <3>1
    <3> QED
      BY <3>2, EmptySeq
  <2>3. Head(u) = m /\ Tail(u) = <<>>
    BY <2>1, <2>2, HeadTailAppend
  <2>4. Folded(op, base, u) = Step(op, base, m)
    <3>1. Folded(op, base, u) = Step(op, Folded(op, base, t), m)
      <4> HIDE DEF N, HeadFirst
      <4>1. t \in Seq(S) /\ m \in S
        BY <2>1
      <4>2. Folded(op, base, Append(t, m)) = Step(op, Folded(op, base, t), m)
        BY <4>1, FoldedAppend
      <4> QED
        BY <2>1, <4>2
    <3> QED
      BY <2>2, <3>1, FoldedEmpty
  <2> QED
    BY <2>3, <2>4, FoldedEmpty
<1>2. ASSUME NEW n \in N
      PROVE  n + 1 \in N
  <2> SUFFICES ASSUME NEW u \in Seq(S), Len(u) = (n + 1) + 1
               PROVE  HeadFirst(u)
    OBVIOUS
  <2>0. n + 1 \in Nat
    OBVIOUS
  <2>1. PICK t \in Seq(S), m \in S : Len(t) = n + 1 /\ u = Append(t, m)
    <3> HIDE DEF N, HeadFirst
    <3> QED
      BY <2>0, ListEmptyOrAppend
  <2>2. HeadFirst(t) /\ t # <<>>
    BY <2>1
  <2>3. Tail(t) \in Seq(S) /\ Head(u) = Head(t) /\ Tail(u) = Append(Tail(t), m)
    BY <2>1, <2>2, HeadTailAppend, HeadTailProperties
  <2> DEFINE new == Step(op, base, Head(t))
  <2>4. Folded(op, base, u) = Step(op, Folded(op, base, t), m)
    BY <2>1, FoldedAppend
  <2>5. Folded(op, new, Append(Tail(t), m)) = Step(op, Folded(op, new, Tail(t)), m)
    <3>1. Tail(t) \in Seq(S) /\ m \in S
      BY <2>3
    <3> HIDE DEF new, N, HeadFirst
    <3>2. \A x \in Seq(S) : Folded(op, new, Append(x, m)) = Step(op, Folded(op, new, x), m)
      BY FoldedAppend
    <3> QED
      BY <3>1, <3>2
  <2> QED
    BY <2>2, <2>3, <2>4, <2>5
<1>3. N = Nat
  <2> HIDE DEF N
  <2>1. N \in SUBSET Nat
    BY DEF N
  <2> QED
    BY <1>1, <1>2, <2>1, AllNaturals
<1>4. Len(seq) - 1 \in Nat /\ Len(seq) = (Len(seq) - 1) + 1
  BY EmptySeq, LenProperties
<1> QED
  BY <1>3, <1>4

LEMMA DistinctEffect ==
    ASSUME NEW V, NEW out \in Seq(Metrics(V)), Distinct(out),
           NEW rows, rows = [k \in DOMAIN rows |-> rows[k]]
    PROVE  HasEffect(rows, ToSet(out), Folded("upsert", rows, out))
<1> DEFINE S == Metrics(V)
           N == {n \in Nat : \A u \in Seq(S) : Len(u) = n /\ Distinct(u) =>
                               HasEffect(rows, ToSet(u), Folded("upsert", rows, u))}
<1>1. 0 \in N
  <2> SUFFICES ASSUME NEW u \in Seq(S), Len(u) = 0
               PROVE  HasEffect(rows, ToSet(u), Folded("upsert", rows, u))
    OBVIOUS
  <2>1. u = <<>>
    BY EmptySeq
  <2>2. ToSet(<<>>) = {}
    BY DEF ToSet
  <2> QED
    BY <2>1, <2>2, FoldedEmpty, EffectNone
<1>2. ASSUME NEW n \in N
      PROVE  n + 1 \in N
  <2> SUFFICES ASSUME NEW u \in Seq(S), Len(u) = n + 1, Distinct(u)
               PROVE  HasEffect(rows, ToSet(u), Folded("upsert", rows, u))
    OBVIOUS
  <2>1. PICK t \in Seq(S), m \in S : Len(t) = n /\ u = Append(t, m)
    <3> HIDE DEF S
    <3> QED
      BY ListEmptyOrAppend
  <2>2. Folded("upsert", rows, u) = Upsert(Folded("upsert", rows, t), m)
    <3> HIDE DEF S
    <3> QED
      BY <2>1, FoldedAppend DEF Step
  <2>3. /\ DOMAIN u = 1..(n + 1) /\ DOMAIN t = 1..n /\ u[n + 1] = m
        /\ \A i \in 1..n : u[i] = t[i] /\ t[i] \in S
    <3> HIDE DEF S
    <3> QED
      BY <2>1, AppendProperties, LenProperties, ElementOfSeq
  <2>4. Distinct(t) /\ \A x \in ToSet(t) : Key(x) # Key(m)
    BY <2>3 DEF Distinct, ToSet
  <2>5. ToSet(u) = ToSet(t) \cup {m} /\ ToSet(t) \in SUBSET S
    <3>1. \A i \in 1..(n + 1) : i \in 1..n \/ i = n + 1
      OBVIOUS
    <3>2. n + 1 \in 1..(n + 1) /\ \A i \in 1..n : i \in 1..(n + 1)
      OBVIOUS
    <3> HIDE DEF S
    <3> QED
      BY <2>3, <3>1, <3>2 DEF ToSet
  <2>6. HasEffect(rows, ToSet(t), Folded("upsert", rows, t))
    BY <2>1, <2>4
  <2> QED
    BY <2>2, <2>4, <2>5, <2>6, EffectAnother
<1>3. N = Nat
  <2> HIDE DEF N
  <2>1. N \in SUBSET Nat
    BY DEF N
  <2> QED
    BY <1>1, <1>2, <2>1, AllNaturals
<1>4. Len(out) \in Nat
  BY LenProperties
<1> QED
  BY <1>3, <1>4

\* What the folding of a batch returns, and that nothing of its effect is lost.
MergedWell(V, rows, u) ==
    LET out == Folded("merge", <<>>, u)
    IN  /\ out \in Seq(Metrics(V)) /\ Distinct(out)
        /\ HasEffect(rows, ToSet(out), Folded("upsert", rows, u))

LEMMA MergeOneMore ==
    ASSUME NEW V, NEW t \in Seq(Metrics(V)), NEW m \in Metrics(V),
           NEW rows, Counting(rows), MergedWell(V, rows, t)
    PROVE  MergedWell(V, rows, Append(t, m))
<1> DEFINE S == Metrics(V)
           out == Folded("merge", <<>>, t)
           new == Folded("upsert", rows, t)
<1>1. /\ Folded("merge", <<>>, Append(t, m)) = Merge(out, m)
      /\ Folded("upsert", rows, Append(t, m)) = Upsert(new, m)
  <2> HIDE DEF S
  <2>1. t \in Seq(S) /\ m \in S
    BY DEF S
  <2> QED
    BY <2>1, FoldedAppend DEF Step
<1>2. out \in Seq(S) /\ Distinct(out) /\ HasEffect(rows, ToSet(out), new)
  BY DEF MergedWell
<1>3. ToSet(out) \in SUBSET S /\ DOMAIN out = 1..Len(out)
  <2> HIDE DEF S, out
  <2>1. DOMAIN out = 1..Len(out) /\ \A i \in 1..Len(out) : out[i] \in S
    BY <1>2, LenProperties, ElementOfSeq
  <2> QED
    BY <2>1 DEF ToSet
<1> HIDE DEF out, new
<1>4. CASE \A i \in DOMAIN out : Key(out[i]) # Key(m)
  <2>1. /\ Merge(out, m) \in Seq(S) /\ Distinct(Merge(out, m))
        /\ ToSet(Merge(out, m)) = ToSet(out) \cup {m}
    BY <1>2, <1>4, MergeAnother
  <2>2. \A x \in ToSet(out) : Key(x) # Key(m)
    BY <1>4 DEF ToSet
  <2>3. HasEffect(rows, ToSet(out) \cup {m}, Upsert(new, m))
    BY <1>2, <1>3, <2>2, EffectAnother
  <2> QED
    BY <1>1, <2>1, <2>3 DEF MergedWell
<1>5. ASSUME NEW i \in DOMAIN out, Key(out[i]) = Key(m)
      PROVE  MergedWell(V, rows, Append(t, m))
  <2>1. /\ Merge(out, m) \in Seq(S) /\ Distinct(Merge(out, m))
        /\ ToSet(Merge(out, m)) = (ToSet(out) \ {out[i]}) \cup {Merged(out[i], m)}
    BY <1>2, <1>5, MergeSame
  <2>2. out[i] \in ToSet(out)
    BY DEF ToSet
  <2>3. \A a, b \in ToSet(out) : Key(a) = Key(b) => a = b
    BY <1>2, DistinctSet
  <2>4. HasEffect(rows, (ToSet(out) \ {out[i]}) \cup {Merged(out[i], m)}, Upsert(new, m))
    BY <1>2, <1>3, <1>5, <2>2, <2>3, EffectMerged
  <2> QED
    BY <1>1, <2>1, <2>4 DEF MergedWell
<1> QED
  BY <1>4, <1>5

LEMMA MergeKeepsEffect ==
    ASSUME NEW V, NEW seq \in Seq(Metrics(V)),
           NEW rows, Counting(rows), rows = [k \in DOMAIN rows |-> rows[k]]
    PROVE  MergedWell(V, rows, seq)
<1> DEFINE S == Metrics(V)
           N == {n \in Nat : \A u \in Seq(S) : Len(u) = n => MergedWell(V, rows, u)}
<1>1. 0 \in N
  <2> SUFFICES ASSUME NEW u \in Seq(S), Len(u) = 0
               PROVE  MergedWell(V, rows, u)
    OBVIOUS
  <2>1. u = <<>>
    BY EmptySeq
  <2>2. /\ Folded("merge", <<>>, u) = <<>> /\ Folded("upsert", rows, u) = rows
    BY <2>1, FoldedEmpty
  <2>3. ToSet(<<>>) = {} /\ Distinct(<<>>) /\ <<>> \in Seq(S)
    BY DEF ToSet, Distinct
  <2> QED
    BY <2>2, <2>3, EffectNone DEF MergedWell
<1>2. ASSUME NEW n \in N
      PROVE  n + 1 \in N
  <2> SUFFICES ASSUME NEW u \in Seq(S), Len(u) = n + 1
               PROVE  MergedWell(V, rows, u)
    OBVIOUS
  <2>1. PICK t \in Seq(S), m \in S : Len(t) = n /\ u = Append(t, m)
    <3> HIDE DEF S
    <3> QED
      BY ListEmptyOrAppend
  <2>2. MergedWell(V, rows, t)
    BY <2>1
  <2> QED
    BY <2>1, <2>2, MergeOneMore
<1>3. N = Nat
  <2> HIDE DEF N
  <2>1. N \in SUBSET Nat
    BY DEF N
  <2> QED
    BY <1>1, <1>2, <2>1, AllNaturals
<1>4. Len(seq) \in Nat
  BY LenProperties
<1> QED
  BY <1>3, <1>4

-----------------------------------------------------------------------------
(* The order of the rows: each metric has a rank, the number of those that    *)
(* are not after it, and the ranks are the places of the sorted list.         *)

LEMMA BeforeIsOrder ==
    ASSUME NEW V, NEW a \in Metrics(V), NEW b \in Metrics(V)
    PROVE  /\ ~(Before(a, b) /\ Before(b, a)) /\ ~Before(a, a)
           /\ Key(a) # Key(b) => Before(a, b) \/ Before(b, a)
           /\ \A c \in Metrics(V) : Before(a, b) /\ Before(b, c) => Before(a, c)
BY DEF Before, Key, Metrics

LEMMA RanksExist ==
    ASSUME NEW V, NEW out \in Seq(Metrics(V)), Distinct(out)
    PROVE  \E rank \in Bijection(DOMAIN out, DOMAIN out) :
              \A i, j \in DOMAIN out : Before(out[i], out[j]) => rank[i] < rank[j]
<1> DEFINE D == DOMAIN out
           Upto(i) == {j \in D : j = i \/ Before(out[j], out[i])}
           rank == [i \in D |-> Cardinality(Upto(i))]
<1>1. /\ D = 1..Len(out) /\ Len(out) \in Nat /\ \A i \in D : out[i] \in Metrics(V)
  BY LenProperties, ElementOfSeq
<1>2. IsFiniteSet(D) /\ Cardinality(D) = Len(out)
  BY <1>1, FS_Interval
<1>3. ASSUME NEW i \in D
      PROVE  IsFiniteSet(Upto(i)) /\ Cardinality(Upto(i)) \in D
  <2>1. Upto(i) \in SUBSET D /\ {i} \in SUBSET Upto(i)
    OBVIOUS
  <2> HIDE DEF Upto, D
  <2>2. IsFiniteSet(Upto(i)) /\ Cardinality(Upto(i)) <= Cardinality(D)
    BY <1>2, <2>1, FS_Subset
  <2>3. Cardinality({i}) = 1 /\ Cardinality({i}) <= Cardinality(Upto(i))
    BY <2>1, <2>2, FS_Singleton, FS_Subset
  <2>4. Cardinality(Upto(i)) \in Nat
    BY <2>2, FS_CardinalityType
  <2> QED
    BY <1>1, <1>2, <2>2, <2>3, <2>4
<1>4. rank \in [D -> D] /\ \A i \in D : rank[i] = Cardinality(Upto(i))
  BY <1>3
<1>5. ASSUME NEW i \in D, NEW j \in D, Before(out[i], out[j])
      PROVE  rank[i] < rank[j]
  <2>1. Upto(i) \in SUBSET Upto(j)
    <3> SUFFICES ASSUME NEW k \in D, k = i \/ Before(out[k], out[i])
                 PROVE  Before(out[k], out[j])
      OBVIOUS
    <3> QED
      BY <1>1, <1>5, BeforeIsOrder
  <2>2. j \in Upto(j) /\ j \notin Upto(i)
    BY <1>1, <1>5, BeforeIsOrder
  <2>3. /\ IsFiniteSet(Upto(j)) /\ Cardinality(Upto(j)) \in Nat /\ Cardinality(Upto(i)) \in Nat
    <3>1. D \in SUBSET Nat
      BY <1>1
    <3> HIDE DEF Upto, D
    <3> QED
      BY <1>3, <3>1
  <2> HIDE DEF Upto, D
  <2>4. Cardinality(Upto(i)) <= Cardinality(Upto(j)) /\ Cardinality(Upto(i)) # Cardinality(Upto(j))
    BY <2>1, <2>2, <2>3, FS_Subset
  <2> QED
    BY <1>4, <2>3, <2>4
<1> HIDE DEF rank
<1>6. \A i, j \in D : rank[i] = rank[j] => i = j
  <2> SUFFICES ASSUME NEW i \in D, NEW j \in D, i # j
               PROVE  rank[i] # rank[j]
    OBVIOUS
  <2>1. rank[i] \in Nat /\ rank[j] \in Nat
    BY <1>1, <1>4
  <2>2. Before(out[i], out[j]) \/ Before(out[j], out[i])
    BY <1>1, BeforeIsOrder DEF Distinct
  <2> QED
    BY <1>5, <2>1, <2>2
<1>7. rank \in Bijection(D, D)
  <2> HIDE DEF D
  <2>1. rank \in Injection(D, D)
    BY <1>4, <1>6, Fun_IsInj
  <2>2. rank \in Surjection(D, D)
    BY <1>2, <2>1, FS_Injection
  <2> QED
    BY <2>1, <2>2, Fun_IsBij
<1> QED
  BY <1>5, <1>7

\* A rearrangement of a list, p[i] being the place the metric at i was in.
Sorts(p, out) ==
    /\ p \in Bijection(DOMAIN out, DOMAIN out)
    /\ \A i, j \in DOMAIN out : i < j => ~Before(out[p[j]], out[p[i]])

LEMMA SortExists ==
    ASSUME NEW V, NEW out \in Seq(Metrics(V)), Distinct(out)
    PROVE  \E p : Sorts(p, out)
<1> DEFINE D == DOMAIN out
<1>1. PICK rank \in Bijection(D, D) :
         \A i, j \in D : Before(out[i], out[j]) => rank[i] < rank[j]
  BY RanksExist
<1> DEFINE p == Inverse(rank, D, D)
<1>2. D \in SUBSET Nat
  BY LenProperties
<1> HIDE DEF D
<1>3. /\ p \in Bijection(D, D) /\ \A i \in D : p[rank[i]] = i
      /\ \A j \in D : \E i \in D : rank[i] = j
      /\ rank \in [D -> D]
  BY <1>1, Fun_BijInverse, Fun_BijectionProperties
<1> HIDE DEF p
<1>4. \A j \in D : p[j] \in D /\ rank[p[j]] = j
  BY <1>3
<1>5. \A i, j \in D : i < j => ~Before(out[p[j]], out[p[i]])
  <2> SUFFICES ASSUME NEW i \in D, NEW j \in D, i < j, Before(out[p[j]], out[p[i]])
               PROVE  FALSE
    OBVIOUS
  <2>1. rank[p[j]] < rank[p[i]]
    BY <1>1, <1>4
  <2>2. j < i
    BY <1>4, <2>1
  <2> QED
    BY <1>2, <2>2
<1> QED
  BY <1>3, <1>5 DEF Sorts, D

\* What slices.SortFunc makes of a list of different metrics.
LEMMA SortedList ==
    ASSUME NEW V, NEW out \in Seq(Metrics(V)), Distinct(out)
    PROVE  \E p : Sorts(p, out) /\ Sorted(out) = [i \in DOMAIN out |-> out[p[i]]]
<1> DEFINE Arranged(p) == [i \in DOMAIN out |-> out[p[i]]]
           Ordered(list) == \A i, j \in DOMAIN list : i < j => ~Before(list[j], list[i])
<1>1. PICK q : Sorts(q, out)
  BY SortExists
<1>2. q \in Injection(DOMAIN out, DOMAIN out)
  BY <1>1, Fun_BijectionProperties DEF Sorts
<1>3. Arranged(q) \in Rearrangements(out) /\ Ordered(Arranged(q))
  BY <1>1, <1>2 DEF Sorts, Rearrangements
<1>4. Sorted(out) \in Rearrangements(out) /\ Ordered(Sorted(out))
  BY <1>3 DEF Sorted
<1>5. PICK p \in Injection(DOMAIN out, DOMAIN out) : Sorted(out) = Arranged(p)
  BY <1>4 DEF Rearrangements
<1>6. p \in Bijection(DOMAIN out, DOMAIN out)
  <2>1. IsFiniteSet(DOMAIN out)
    BY LenProperties, FS_Interval
  <2>2. p \in Surjection(DOMAIN out, DOMAIN out)
    BY <2>1, FS_Injection
  <2> QED
    BY <2>2, Fun_IsBij
<1> QED
  BY <1>4, <1>5, <1>6 DEF Sorts

LEMMA SortedProperties ==
    ASSUME NEW V, NEW out \in Seq(Metrics(V)), Distinct(out)
    PROVE  /\ Sorted(out) \in Seq(Metrics(V)) /\ Len(Sorted(out)) = Len(out)
           /\ ToSet(Sorted(out)) = ToSet(out) /\ Distinct(Sorted(out))
           /\ \A i, j \in 1..Len(out) : i < j => Before(Sorted(out)[i], Sorted(out)[j])
<1> DEFINE D == DOMAIN out
<1>1. PICK p : Sorts(p, out) /\ Sorted(out) = [i \in D |-> out[p[i]]]
  BY SortedList
<1> DEFINE u == [i \in D |-> out[p[i]]]
<1>2. Sorts(p, out)
  BY <1>1
<1>3. D = 1..Len(out) /\ Len(out) \in Nat /\ \A i \in D : out[i] \in Metrics(V)
  BY LenProperties, ElementOfSeq
<1>4. /\ \A i \in D : p[i] \in D
      /\ \A i, j \in D : p[i] = p[j] => i = j
      /\ \A j \in D : \E i \in D : p[i] = j
  BY <1>2, Fun_BijectionProperties DEF Sorts
<1>5. u \in [1..Len(out) -> Metrics(V)]
  BY <1>3, <1>4
<1>6. u \in Seq(Metrics(V)) /\ Len(u) = Len(out)
  <2>1. u \in Seq(Metrics(V))
    BY <1>3, <1>5, SeqDef
  <2>2. DOMAIN u = 1..Len(out)
    BY <1>3
  <2> HIDE DEF u
  <2> QED
    BY <1>3, <2>1, <2>2, LenProperties
<1>7. DOMAIN u = D /\ DOMAIN out = D /\ \A i \in D : u[i] = out[p[i]]
  OBVIOUS
<1> HIDE DEF u, D
<1>8. ToSet(u) = ToSet(out)
  <2>1. \A i \in D : u[i] \in {out[j] : j \in D}
    BY <1>4, <1>7
  <2>2. \A j \in D : out[j] \in {u[i] : i \in D}
    BY <1>4, <1>7
  <2> QED
    BY <1>7, <2>1, <2>2 DEF ToSet
<1>9. Distinct(u)
  <2> SUFFICES ASSUME NEW i \in D, NEW j \in D, Key(u[i]) = Key(u[j])
               PROVE  i = j
    BY <1>7 DEF Distinct
  <2>1. p[i] \in D /\ p[j] \in D /\ Key(out[p[i]]) = Key(out[p[j]])
    BY <1>4, <1>7
  <2>2. p[i] = p[j]
    BY <1>7, <2>1 DEF Distinct
  <2> QED
    BY <1>4, <2>2
<1>10. ASSUME NEW i \in D, NEW j \in D, i < j
       PROVE  Before(u[i], u[j])
  <2>1. i # j
    BY <1>3, <1>10
  <2>2. Key(u[i]) # Key(u[j])
    BY <1>7, <1>9, <2>1 DEF Distinct
  <2>3. ~Before(u[j], u[i])
    BY <1>2, <1>7, <1>10 DEF Sorts, D
  <2>4. u[i] \in Metrics(V) /\ u[j] \in Metrics(V)
    BY <1>3, <1>4, <1>7
  <2> QED
    BY <2>2, <2>3, <2>4, BeforeIsOrder
<1>11. Sorted(out) = u
  BY <1>1 DEF u, D
<1> QED
  BY <1>3, <1>6, <1>8, <1>9, <1>10, <1>11

-----------------------------------------------------------------------------
(* What aggregateBatch promises.                                              *)

Values(metrics) == {m.amount : m \in ToSet(metrics)}

\* A batch that passes the validation is a list of metrics.
LEMMA ValidBatch ==
    ASSUME NEW s, IsBatch(s), AllValid(s), NEW V, Values(s) \ {Missing} \subseteq V
    PROVE  s \in Seq(Metrics(V))
<1>1. s \in Seq(ToSet(s))
  BY DEF IsBatch
<1>2. ASSUME NEW m \in ToSet(s)
      PROVE  m \in Metrics(V)
  <2>1. Valid(m)
    BY DEF AllValid, ToSet
  <2>2. m = [mtype |-> m.mtype, id |-> m.id, amount |-> m.amount] /\ m.id \in Nat
    BY DEF IsBatch
  <2>3. m.mtype = "counter" => m.amount \in Int
    BY <2>1 DEF IsBatch, Valid
  <2>4. m.amount \in V
    BY <2>1 DEF Valid, Values
  <2> QED
    BY <2>1, <2>2, <2>3, <2>4 DEF Metrics, Valid
<1>3. Len(s) \in Nat /\ s \in [1..Len(s) -> ToSet(s)]
  BY <1>1, LenProperties, ElementOfSeq
<1>4. s \in [1..Len(s) -> Metrics(V)]
  BY <1>2, <1>3
<1> QED
  BY <1>3, <1>4, SeqDef

\* A list of rows no two of which are for the same metric, in the order of types
\* and names.
InOrder(list) ==
    /\ Len(list) \in Nat
    /\ \A i \in 1..Len(list) : list[i].mtype \in {"counter", "gauge"} /\ list[i].id \in Nat
    /\ \A i, j \in 1..Len(list) : i < j => Before(list[i], list[j])

LEMMA Aggregated ==
    ASSUME NEW V, NEW s \in Seq(Metrics(V)),
           NEW rows, Counting(rows), rows = [k \in DOMAIN rows |-> rows[k]]
    PROVE  /\ AggregateBatch(s) \in Seq(Metrics(V))
           /\ InOrder(AggregateBatch(s))
           /\ FoldLeft(Upsert, rows, AggregateBatch(s)) = FoldLeft(Upsert, rows, s)
<1> DEFINE S == Metrics(V)
           out == Folded("merge", <<>>, s)
           list == AggregateBatch(s)
<1>1. list = Sorted(out)
  <2> HIDE DEF S
  <2>1. s \in Seq(S)
    BY DEF S
  <2>2. FoldLeft(Merge, <<>>, s) = out
    BY <2>1, FoldLeftMerge
  <2> QED
    BY <2>2 DEF AggregateBatch
<1>2. out \in Seq(S) /\ Distinct(out) /\ HasEffect(rows, ToSet(out), Folded("upsert", rows, s))
  BY MergeKeepsEffect DEF MergedWell
<1> HIDE DEF out, list
<1>3. /\ list \in Seq(S) /\ Len(list) = Len(out) /\ ToSet(list) = ToSet(out) /\ Distinct(list)
      /\ \A i, j \in 1..Len(out) : i < j => Before(list[i], list[j])
  BY <1>1, <1>2, SortedProperties
<1>4. InOrder(list)
  <2>1. Len(list) \in Nat /\ \A i \in 1..Len(list) : list[i] \in S
    <3> HIDE DEF S
    <3> QED
      BY <1>3, LenProperties, ElementOfSeq
  <2> QED
    BY <1>3, <2>1 DEF InOrder, Metrics
<1>5. HasEffect(rows, ToSet(out), Folded("upsert", rows, list))
  BY <1>3, DistinctEffect
<1>6. Folded("upsert", rows, list) = Folded("upsert", rows, s)
  BY <1>2, <1>5, EffectUnique
<1>7. /\ FoldLeft(Upsert, rows, list) = Folded("upsert", rows, list)
      /\ FoldLeft(Upsert, rows, s) = Folded("upsert", rows, s)
  <2> HIDE DEF S
  <2>1. s \in Seq(S)
    BY DEF S
  <2> QED
    BY <1>3, <2>1, FoldLeftUpsert
<1> QED
  BY <1>3, <1>4, <1>6, <1>7 DEF list

\* The rows of a batch that passes the validation are in the order of types and
\* names, and none is there twice: every storage locks or writes them in the
\* same sequence (aggregateBatch).
THEOREM AggregatedInOrder ==
    ASSUME NEW s, IsBatch(s), AllValid(s)
    PROVE  InOrder(AggregateBatch(s))
<1>1. s \in Seq(Metrics(Values(s)))
  BY ValidBatch
<1>2. Counting(<<>>) /\ <<>> = [k \in DOMAIN <<>> |-> <<>>[k]]
  BY DEF Counting
<1> QED
  BY <1>1, <1>2, Aggregated

\* Whatever the storage holds, storing the rows of a batch has the effect of
\* storing its metrics one by one, in the order of the client: gauges keep the
\* last value, the deltas of a counter are summed (aggregateBatch).
THEOREM AggregationKeepsEffect ==
    ASSUME NEW s, IsBatch(s), AllValid(s),
           NEW rows, rows = [k \in DOMAIN rows |-> rows[k]],
           \A k \in DOMAIN rows : k[1] = "counter" => rows[k] \in Int
    PROVE  FoldLeft(Upsert, rows, AggregateBatch(s)) = FoldLeft(Upsert, rows, s)
<1>1. s \in Seq(Metrics(Values(s)))
  BY ValidBatch
<1>2. Counting(rows)
  BY DEF Counting
<1> QED
  BY <1>1, <1>2, Aggregated
=============================================================================
