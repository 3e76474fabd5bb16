------------------------- MODULE HistoricalSyncProofs -------------------------
(***************************************************************************)
(* Proofs, for every session of the market, every number of requests,      *)
(* faults, revisions and datasets, of the safety properties of             *)
(* HistoricalSync, while the Owner bootstraps only between requests.       *)
(*                                                                         *)
(* The invariant has two parts.  What every step keeps (Base, OrderKept):   *)
(* an answer is a stretch of the market that begins at most one minute     *)
(* behind what is covered, so a fragment never leaves a hole, not even     *)
(* when it replaces the one its request wrote before; and what the closed  *)
(* requests hold has no gap that a later request could still fill.  What   *)
(* every step keeps that replaces no fragment (Core): the rows against     *)
(* the files.  Without a fault no fragment is replaced (WrittenOnce).      *)
(***************************************************************************)
EXTENDS HistoricalSync, FiniteSetTheorems, FunctionTheorems, TLAPS

-----------------------------------------------------------------------------
(* Greatest and least minutes, counting by keys *)

\* A set of numbers up to N has a greatest one: otherwise adding one would map
\* the numbers that some member reaches into themselves without 0.
LEMMA GreatestExists ==
    ASSUME NEW N \in Nat, NEW S \in SUBSET (1 .. N), S # {}
    PROVE  \E x \in S : \A y \in S : x >= y
<1>1. SUFFICES ASSUME \A x \in S : \E y \in S : y > x
               PROVE  FALSE
    BY DEF Max
<1> DEFINE T == {k \in 0 .. N : \E y \in S : k <= y}
           up == [k \in T |-> k + 1]
<1>2. 0 \in T /\ IsFiniteSet(T)
    <2>1. IsFiniteSet(0 .. N) /\ T \in SUBSET (0 .. N)
        BY FS_Interval
    <2>2. IsFiniteSet(T)
        BY <2>1, FS_Subset
    <2>3. PICK y \in S : TRUE
        OBVIOUS
    <2>4. y \in Nat /\ 0 \in 0 .. N /\ 0 <= y
        OBVIOUS
    <2>5. 0 \in T
        BY <2>4
    <2> QED BY <2>2, <2>5
<1>3. up \in [T -> T \ {0}]
    <2>1. ASSUME NEW k \in T PROVE k + 1 \in T \ {0}
        <3>1. PICK y \in S : k <= y
            OBVIOUS
        <3>2. PICK z \in S : z > y
            BY <1>1
        <3> QED BY <3>1, <3>2
    <2> QED BY <2>1
<1>4. IsFiniteSet(T \ {0}) /\ Cardinality(T \ {0}) < Cardinality(T)
    <2> HIDE DEF T
    <2>1. Cardinality(T) \in Nat
        BY <1>2, FS_CardinalityType
    <2> QED BY <1>2, <2>1, FS_RemoveElement
<1>5. \E x, y \in T : x # y /\ up[x] = up[y]
    <2> HIDE DEF T, up
    <2> QED BY <1>2, <1>3, <1>4, FS_PigeonHole
<1> QED BY <1>5

LEMMA MaxOfMinutes ==
    ASSUME NEW S \in SUBSET Minutes, S # {}
    PROVE  Max(S) \in S /\ Max(S) \in Minutes /\ \A y \in S : y <= Max(S)
<1>1. \E x \in S : \A y \in S : x >= y
    BY GreatestExists, SyncAssumption DEF Minutes
<1>2. Max(S) \in S /\ \A y \in S : Max(S) >= y
    BY <1>1 DEF Max
<1> QED BY <1>2 DEF Minutes

LEMMA MinOfMinutes ==
    ASSUME NEW S \in SUBSET Minutes, S # {}
    PROVE  Min(S) \in S /\ Min(S) \in Minutes /\ \A y \in S : Min(S) <= y
<1> DEFINE R == {Horizon + 1 - x : x \in S}
<1>1. R \in SUBSET (1 .. Horizon) /\ R # {}
    <2>1. ASSUME NEW x \in S PROVE Horizon + 1 - x \in 1 .. Horizon
        BY SyncAssumption DEF Minutes
    <2> QED BY <2>1
<1>2. PICK z \in R : \A y \in R : z >= y
    BY <1>1, GreatestExists, SyncAssumption
<1>3. PICK x \in S : z = Horizon + 1 - x
    OBVIOUS
<1>4. \A y \in S : x <= y
    <2>1. ASSUME NEW y \in S PROVE x <= y
        <3>1. z >= Horizon + 1 - y
            BY <1>2
        <3> QED BY <1>3, <3>1, SyncAssumption DEF Minutes
    <2> QED BY <2>1
<1>5. Min(S) \in S /\ \A y \in S : Min(S) <= y
    BY <1>4 DEF Min
<1> QED BY <1>5 DEF Minutes

\* What has one key each is as many as its keys.
LEMMA KeysCount ==
    ASSUME NEW S, NEW T, IsFiniteSet(T), NEW f \in [S -> T],
           \A x, y \in S : f[x] = f[y] => x = y, \A t \in T : \E x \in S : f[x] = t
    PROVE  IsFiniteSet(S) /\ Cardinality(S) = Cardinality(T)
<1>1. f \in Injection(S, T) /\ f \in Surjection(S, T)
    BY Fun_IsInj, Fun_IsSurj
<1> QED BY <1>1, FS_Injection

LEMMA MinuteSetsFinite ==
    ASSUME NEW S \in SUBSET Minutes
    PROVE  IsFiniteSet(S) /\ Cardinality(S) \in Nat
<1>1. IsFiniteSet(Minutes)
    BY FS_Interval, SyncAssumption DEF Minutes
<1>2. IsFiniteSet(S)
    BY <1>1, FS_Subset
<1> QED BY <1>2, FS_CardinalityType

LEMMA DisjointCount ==
    ASSUME NEW S \in SUBSET Minutes, NEW T \in SUBSET Minutes, S \cap T = {}
    PROVE  Cardinality(S \cup T) = Cardinality(S) + Cardinality(T)
<1>1. /\ IsFiniteSet(S) /\ IsFiniteSet(T)
      /\ Cardinality(S) \in Nat /\ Cardinality(T) \in Nat /\ Cardinality({}) = 0
    BY MinuteSetsFinite, FS_EmptySet
<1>2. Cardinality(S \cup T) = Cardinality(S) + Cardinality(T) - Cardinality(S \cap T)
    BY <1>1, FS_Union
<1>3. Cardinality(S \cap T) = 0
    BY <1>1
<1> QED BY <1>1, <1>2, <1>3

LEMMA SubsetCount ==
    ASSUME NEW T \in SUBSET Minutes, NEW S \in SUBSET T
    PROVE  Cardinality(S) <= Cardinality(T)
<1>1. IsFiniteSet(T)
    BY MinuteSetsFinite
<1> QED BY <1>1, FS_Subset

\* Bars with one version of each minute are as many as their minutes.
LEMMA BarsCount ==
    ASSUME NEW bars \in BarSets, \A b, c \in bars : b.m = c.m => b = c
    PROVE  MinutesOf(bars) \in SUBSET Minutes /\ Cardinality(bars) = Cardinality(MinutesOf(bars))
<1> DEFINE f == [b \in bars |-> b.m]
<1>1. MinutesOf(bars) \in SUBSET Minutes /\ IsFiniteSet(MinutesOf(bars))
    <2>1. MinutesOf(bars) \in SUBSET Minutes
        BY DEF BarSets, MinutesOf
    <2> QED BY <2>1, MinuteSetsFinite
<1>2. /\ f \in [bars -> MinutesOf(bars)]
      /\ \A x, y \in bars : f[x] = f[y] => x = y
      /\ \A t \in MinutesOf(bars) : \E x \in bars : f[x] = t
    BY DEF MinutesOf
<1> HIDE DEF f
<1> QED BY <1>1, <1>2, KeysCount

\* Buckets with one record each are as many as their starts.
LEMMA RecordsCount ==
    ASSUME NEW rs, {r.b : r \in rs} \in SUBSET Minutes, \A r, q \in rs : r.b = q.b => r = q
    PROVE  Cardinality(rs) = Cardinality({r.b : r \in rs})
<1> DEFINE f == [r \in rs |-> r.b]
           T == {r.b : r \in rs}
<1>1. IsFiniteSet(T)
    BY MinuteSetsFinite
<1>2. /\ f \in [rs -> T]
      /\ \A x, y \in rs : f[x] = f[y] => x = y
      /\ \A t \in T : \E x \in rs : f[x] = t
    OBVIOUS
<1>3. Cardinality(rs) = Cardinality(T)
    <2> HIDE DEF f, T
    <2> QED BY <1>1, <1>2, KeysCount
<1> QED BY <1>3

-----------------------------------------------------------------------------
(* Buckets *)

LEMMA Division ==
    ASSUME NEW n \in Nat
    PROVE  /\ n \div BucketMinutes \in Nat
           /\ BucketMinutes * (n \div BucketMinutes) \in Nat
           /\ BucketMinutes * (n \div BucketMinutes) <= n
           /\ n < BucketMinutes * (n \div BucketMinutes) + BucketMinutes
BY SyncAssumption

LEMMA NextMultiple ==
    ASSUME NEW p \in Nat, NEW q \in Nat, p < q
    PROVE  BucketMinutes * p + BucketMinutes <= BucketMinutes * q
<1>1. PICK k \in Nat : q = p + 1 + k
    <2>1. q - p - 1 \in Nat /\ q = p + 1 + (q - p - 1)
        OBVIOUS
    <2> QED BY <2>1
<1>2. BucketMinutes * q = BucketMinutes * p + BucketMinutes + BucketMinutes * k
    BY <1>1, SyncAssumption
<1>3. BucketMinutes * k >= 0 /\ BucketMinutes * p \in Int
    BY SyncAssumption
<1> QED BY <1>2, <1>3, SyncAssumption

\* A minute is in its bucket.
LEMMA BucketOfMinute ==
    ASSUME NEW m \in Minutes
    PROVE  /\ Bucket(m) \in Minutes /\ Bucket(m) <= m /\ m < Bucket(m) + BucketMinutes
           /\ m \in MinutesIn(Bucket(m))
<1>1. m - 1 \in Nat /\ m \in Nat /\ m <= Horizon
    BY SyncAssumption DEF Minutes
<1>2. Bucket(m) \in Nat /\ Bucket(m) >= 1 /\ Bucket(m) <= m /\ m < Bucket(m) + BucketMinutes
    BY <1>1, Division, SyncAssumption DEF Bucket
<1> QED BY <1>1, <1>2, SyncAssumption DEF Minutes, MinutesIn

\* Buckets are in the order of their minutes, and do not overlap.
LEMMA BucketOrder ==
    ASSUME NEW m \in Minutes, NEW n \in Minutes
    PROVE  \/ Bucket(m) = Bucket(n)
           \/ Bucket(m) + BucketMinutes <= Bucket(n) /\ m < n
           \/ Bucket(n) + BucketMinutes <= Bucket(m) /\ n < m
<1> DEFINE p == (m - 1) \div BucketMinutes
           q == (n - 1) \div BucketMinutes
<1>1. m - 1 \in Nat /\ n - 1 \in Nat /\ m \in Nat /\ n \in Nat
    BY SyncAssumption DEF Minutes
<1>2. /\ p \in Nat /\ q \in Nat /\ BucketMinutes \in Nat
      /\ BucketMinutes * p \in Nat /\ BucketMinutes * q \in Nat
      /\ Bucket(m) = BucketMinutes * p + 1 /\ Bucket(n) = BucketMinutes * q + 1
    BY <1>1, Division, SyncAssumption DEF Bucket
<1>3. /\ Bucket(m) <= m /\ m < Bucket(m) + BucketMinutes
      /\ Bucket(n) <= n /\ n < Bucket(n) + BucketMinutes
    BY BucketOfMinute
<1> HIDE DEF p, q
<1>4. CASE p = q
    BY <1>2, <1>4
<1>5. CASE p < q
    <2>1. BucketMinutes * p + BucketMinutes <= BucketMinutes * q
        BY <1>2, <1>5, NextMultiple
    <2> QED BY <1>1, <1>2, <1>3, <2>1
<1>6. CASE q < p
    <2>1. BucketMinutes * q + BucketMinutes <= BucketMinutes * p
        BY <1>2, <1>6, NextMultiple
    <2> QED BY <1>1, <1>2, <1>3, <2>1
<1> QED BY <1>2, <1>4, <1>5, <1>6

\* The minutes of a bucket have that bucket.
LEMMA BucketOfMember ==
    ASSUME NEW m \in Minutes, NEW n \in Minutes, n \in MinutesIn(Bucket(m))
    PROVE  Bucket(n) = Bucket(m)
<1>1. /\ Bucket(m) \in Int /\ Bucket(n) \in Int /\ BucketMinutes \in Int /\ n \in Int
      /\ Bucket(n) <= n /\ n < Bucket(n) + BucketMinutes
      /\ Bucket(m) <= n /\ n < Bucket(m) + BucketMinutes
    BY BucketOfMinute, SyncAssumption DEF MinutesIn, Minutes
<1> QED BY <1>1, BucketOrder

\* The records of a set of minutes: one for each bucket.
LEMMA ResampledFacts ==
    ASSUME NEW ms \in SUBSET Minutes
    PROVE  /\ {r.b : r \in Resampled(ms)} = {Bucket(m) : m \in ms}
           /\ {Bucket(m) : m \in ms} \in SUBSET Minutes
           /\ \A r, q \in Resampled(ms) : r.b = q.b => r = q
           /\ Resampled(ms) \in SUBSET [b : Minutes, of : SUBSET Minutes]
           /\ ResampledCompleted(ms) \subseteq Resampled(ms)
           /\ \A r \in ResampledCompleted(ms) : r.of = MinutesIn(r.b) /\ MinutesIn(r.b) \subseteq ms
           /\ \A m \in ms : MinutesIn(Bucket(m)) \subseteq ms =>
                 Bucket(m) \in {r.b : r \in ResampledCompleted(ms)}
<1>1. {Bucket(m) : m \in ms} \in SUBSET Minutes
    BY BucketOfMinute
<1>2. /\ {r.b : r \in Resampled(ms)} = {Bucket(m) : m \in ms}
      /\ \A r, q \in Resampled(ms) : r.b = q.b => r = q
    <2>1. \A r \in Resampled(ms) :
              r.b \in {Bucket(m) : m \in ms} /\ r = [b |-> r.b, of |-> ms \cap MinutesIn(r.b)]
        BY DEF Resampled
    <2>2. ASSUME NEW k \in {Bucket(m) : m \in ms} PROVE \E r \in Resampled(ms) : r.b = k
        <3>1. PICK r : r = [b |-> k, of |-> ms \cap MinutesIn(k)]
            OBVIOUS
        <3>2. r \in Resampled(ms) /\ r.b = k
            BY <3>1 DEF Resampled
        <3> QED BY <3>2
    <2>3. {r.b : r \in Resampled(ms)} = {Bucket(m) : m \in ms}
        <3>1. PICK ks : ks = {Bucket(m) : m \in ms}
            OBVIOUS
        <3>2. (\A r \in Resampled(ms) : r.b \in ks) /\ \A k \in ks : \E r \in Resampled(ms) : r.b = k
            BY <2>1, <2>2, <3>1
        <3>3. {r.b : r \in Resampled(ms)} = ks
            BY <3>2
        <3> QED BY <3>1, <3>3
    <2>4. ASSUME NEW r \in Resampled(ms), NEW q \in Resampled(ms), r.b = q.b PROVE r = q
        <3>1. r = [b |-> r.b, of |-> ms \cap MinutesIn(r.b)] /\ q = [b |-> q.b, of |-> ms \cap MinutesIn(q.b)]
            BY <2>1
        <3> QED BY <2>4, <3>1
    <2> QED BY <2>3, <2>4
<1>3. Resampled(ms) \in SUBSET [b : Minutes, of : SUBSET Minutes]
    BY <1>1 DEF Resampled
<1>4. /\ ResampledCompleted(ms) \subseteq Resampled(ms)
      /\ \A r \in ResampledCompleted(ms) : r.of = MinutesIn(r.b) /\ MinutesIn(r.b) \subseteq ms
    BY DEF ResampledCompleted, Resampled
<1>5. ASSUME NEW m \in ms, MinutesIn(Bucket(m)) \subseteq ms
      PROVE  Bucket(m) \in {r.b : r \in ResampledCompleted(ms)}
    <2>1. PICK r : r = [b |-> Bucket(m), of |-> ms \cap MinutesIn(Bucket(m))]
        OBVIOUS
    <2>2. r \in ResampledCompleted(ms) /\ r.b = Bucket(m)
        BY <1>5, <2>1 DEF ResampledCompleted, Resampled
    <2> QED BY <2>2
<1> QED BY <1>1, <1>2, <1>3, <1>4, <1>5

-----------------------------------------------------------------------------
(* Bars, files and rows *)

LEMMA BarsFinite ==
    ASSUME NEW bars \in BarSets
    PROVE  IsFiniteSet(bars) /\ Cardinality(bars) \in Nat
<1> DEFINE key(b) == 2 * b.m - b.v
           T == {key(b) : b \in bars}
           f == [b \in bars |-> key(b)]
<1>1. \A b \in bars : b = [m |-> b.m, v |-> b.v] /\ b.m \in Minutes /\ b.v \in {0, 1}
    BY DEF BarSets
<1>2. \A b \in bars : key(b) \in 1 .. 2 * Horizon
    BY <1>1, SyncAssumption DEF Minutes
<1>3. IsFiniteSet(1 .. 2 * Horizon) /\ T \in SUBSET (1 .. 2 * Horizon)
    BY <1>2, FS_Interval, SyncAssumption
<1>4. IsFiniteSet(T)
    BY <1>3, FS_Subset
<1>5. ASSUME NEW x \in bars, NEW y \in bars, f[x] = f[y] PROVE x = y
    <2>1. 2 * x.m - x.v = 2 * y.m - y.v
        BY <1>5
    <2>2. x.m \in Int /\ y.m \in Int /\ x.v \in {0, 1} /\ y.v \in {0, 1}
        BY <1>1, SyncAssumption DEF Minutes
    <2>3. \A i, j \in Int : \A u, v \in {0, 1} : 2 * i - u = 2 * j - v => i = j /\ u = v
        OBVIOUS
    <2>4. x.m = y.m /\ x.v = y.v
        BY <2>1, <2>2, <2>3
    <2> QED BY <1>1, <2>4
<1>6. f \in [bars -> T] /\ \A t \in T : \E x \in bars : f[x] = t
    OBVIOUS
<1>7. IsFiniteSet(bars)
    <2> HIDE DEF f, T
    <2> QED BY <1>4, <1>5, <1>6, KeysCount
<1> QED BY <1>7, FS_CardinalityType

LEMMA BarsOfFacts ==
    ASSUME NEW S \in SUBSET Minutes
    PROVE  /\ BarsOf(S) \in BarSets /\ MinutesOf(BarsOf(S)) = S
           /\ \A b, c \in BarsOf(S) : b.m = c.m => b = c
<1>1. \A m \in S : Version(m) \in {0, 1}
    BY DEF Version
<1>2. BarsOf(S) \in BarSets
    BY <1>1 DEF BarsOf, BarSets
<1>3. MinutesOf(BarsOf(S)) = S
    <2>1. ASSUME NEW m \in S PROVE m \in MinutesOf(BarsOf(S))
        <3>1. PICK b : b = [m |-> m, v |-> Version(m)]
            OBVIOUS
        <3>2. b \in BarsOf(S) /\ b.m = m
            BY <3>1 DEF BarsOf
        <3> QED BY <3>2 DEF MinutesOf
    <2>2. MinutesOf(BarsOf(S)) \subseteq S
        BY DEF MinutesOf, BarsOf
    <2> QED BY <2>1, <2>2
<1>4. \A b, c \in BarsOf(S) : b.m = c.m => b = c
    BY DEF BarsOf
<1> QED BY <1>2, <1>3, <1>4

\* The bars of a dataset are those of its base file and its fragments.
LEMMA BarsOfFiles ==
    ASSUME NEW files \in Files
    PROVE  /\ M1(files) \in BarSets /\ MinutesOf(M1(files)) \in SUBSET Minutes
           /\ \A i \in Frags : /\ files.m1[i] \in BarSets /\ files.m1[i] \subseteq M1(files)
                              /\ MinutesOf(files.m1[i]) \subseteq MinutesOf(M1(files))
<1>1. \A i \in Frags : files.m1[i] \in BarSets /\ files.m1[i] \subseteq M1(files)
    BY DEF Files, M1
<1>2. M1(files) \in BarSets
    BY <1>1 DEF M1, BarSets
<1>3. MinutesOf(M1(files)) \in SUBSET Minutes
    BY <1>2 DEF MinutesOf, BarSets
<1> QED BY <1>1, <1>2, <1>3 DEF MinutesOf

\* A set of the market's minutes up to some minute ends with its greatest.
LEMMA Whole ==
    ASSUME NEW S \in SUBSET Minutes, S # {}, NEW market, NEW t \in Minutes, S = market \cap 1 .. t
    PROVE  S = market \cap 1 .. Max(S)
<1>1. Max(S) \in S /\ Max(S) \in Minutes /\ \A y \in S : y <= Max(S)
    BY MaxOfMinutes
<1>2. PICK k : k = Max(S)
    OBVIOUS
<1>3. k \in Int /\ k <= t /\ t \in Int
    BY <1>1, <1>2 DEF Minutes
<1>4. ASSUME NEW y \in market \cap 1 .. k PROVE y \in S
    BY <1>3
<1>5. ASSUME NEW y \in S PROVE y \in market \cap 1 .. k
    BY <1>1, <1>2, <1>3
<1>6. S = market \cap 1 .. k
    BY <1>4, <1>5
<1> QED BY <1>2, <1>6

\* The snapshot's dataset: whole, and exactly registered.
LEMMA BaseSound ==
    ASSUME traded \in Sessions, NEW end \in Minutes, BaseEnd <= end,
           NEW S, S = traded \cap 1 .. end,
           NEW files, files = BaseFiles(S), NEW row, row = NewDataset(S)
    PROVE  /\ S \in SUBSET Minutes /\ S # {} /\ MinutesOf(M1(files)) = S
           /\ files \in Files /\ FilesSound(files) /\ RowSound(row, files)
           /\ BucketsOnDisk(files) = {Bucket(m) : m \in S}
           /\ RowExact(row, files)
<1>1. S \in SUBSET Minutes /\ S # {}
    BY SyncAssumption DEF Minutes
<1>2. /\ files.m1 \in [Frags -> BarSets] /\ M1(files) = BarsOf(S) /\ files.base = "FILE"
      /\ BarsOf(S) \in BarSets /\ MinutesOf(M1(files)) = S
    <2>1. BarsOf(S) \in BarSets /\ MinutesOf(BarsOf(S)) = S
        BY <1>1, BarsOfFacts
    <2>2. 0 \in Frags /\ {} \in BarSets
        BY SyncAssumption DEF Frags, BarSets
    <2>3. PICK bars : bars = BarsOf(S)
        OBVIOUS
    <2>4. files.m1 = [i \in Frags |-> IF i = 0 THEN bars ELSE {}] /\ files.base = "FILE"
        BY <2>3 DEF BaseFiles
    <2>5. M1(files) = bars
        BY <2>2, <2>4 DEF M1
    <2> QED BY <2>1, <2>2, <2>3, <2>4, <2>5
<1>3. PICK rs : rs = Resampled(S)
    OBVIOUS
<1>4. PICK f : f = [frag |-> 0, bars |-> rs]
    OBVIOUS
<1>5. files.htf = {f} /\ files = [base |-> "FILE", m1 |-> files.m1, htf |-> {f}]
    BY <1>2, <1>3, <1>4 DEF BaseFiles
<1>6. PICK buckets : buckets = {Bucket(m) : m \in S}
    OBVIOUS
<1>7. /\ {r.b : r \in rs} = buckets /\ buckets \in SUBSET Minutes /\ buckets # {}
      /\ \A r, q \in rs : r.b = q.b => r = q
      /\ rs \in SUBSET [b : Minutes, of : SUBSET Minutes]
    <2>1. buckets # {}
        BY <1>1, <1>6
    <2> QED BY <1>1, <1>3, <1>6, <2>1, ResampledFacts
<1>8. BucketsOnDisk(files) = buckets
    BY <1>4, <1>5, <1>7 DEF BucketsOnDisk
<1>9. f \in Fragments
    BY <1>4, <1>7 DEF Fragments
<1>10. files \in Files
    BY <1>2, <1>5, <1>9 DEF Files
<1>11. FilesSound(files)
    <2>1. S = traded \cap 1 .. Max(S)
        BY <1>1, Whole
    <2>2. \A g \in files.htf : g = f /\ g.frag = 0 /\ g.bars = rs
        BY <1>4, <1>5
    <2>3. /\ \A g, h \in files.htf : g.frag = 0 /\ h.frag = 0 => g = h
          /\ \A g \in files.htf : g.frag = 0 => \A r, q \in g.bars : r.b = q.b => r = q
          /\ \A g \in files.htf : g.frag > 0 => \A r \in g.bars : r.of = MinutesIn(r.b)
        <3>1. \A g, h \in files.htf : g = h
            BY <2>2
        <3>2. \A g \in files.htf : \A r, q \in g.bars : r.b = q.b => r = q
            BY <1>7, <2>2
        <3>3. \A g \in files.htf : ~(g.frag > 0)
            BY <2>2
        <3> QED BY <3>1, <3>2, <3>3
    <2>4. \A g \in files.htf : ~(g.frag > 0)
        BY <2>2
    <2> QED BY <1>1, <1>2, <2>1, <2>3, <2>4 DEF FilesSound, HtfSound
<1>12. Cardinality(rs) = Cardinality(buckets)
    BY <1>7, RecordsCount
<1>13. /\ Cardinality(S) \in Nat /\ Cardinality(buckets) \in Nat
       /\ Max(S) \in S /\ Max(S) \in Minutes /\ \A y \in S : y <= Max(S)
       /\ Max(buckets) \in buckets /\ Max(buckets) \in Minutes /\ \A y \in buckets : y <= Max(buckets)
    BY <1>1, <1>7, MinuteSetsFinite, MaxOfMinutes
<1>14. row = [path |-> "FILE", m1Rows |-> Cardinality(S), m1End |-> Max(S),
              htfRows |-> Cardinality(buckets), htfEnd |-> Max(buckets), fingerprint |-> <<BarsOf(S)>>]
    BY <1>2, <1>3, <1>7, <1>12 DEF NewDataset
<1>15. row \in DatasetRows
    <2>1. PICK s : s = <<BarsOf(S)>>
        OBVIOUS
    <2>2. s \in Seq(BarSets)
        BY <1>2, <2>1
    <2>3. PICK x, y, k, l : x = Cardinality(S) /\ y = Cardinality(buckets) /\ k = Max(S) /\ l = Max(buckets)
        OBVIOUS
    <2>4. x \in Nat /\ y \in Nat /\ k \in Minutes /\ l \in Minutes
        BY <1>13, <2>3
    <2>5. row = [path |-> "FILE", m1Rows |-> x, m1End |-> k, htfRows |-> y, htfEnd |-> l,
                 fingerprint |-> s]
        BY <1>14, <2>1, <2>3
    <2> QED BY <2>2, <2>4, <2>5 DEF DatasetRows
<1>16. RowSound(row, files)
    <2>1. {b \in BucketsOnDisk(files) : b <= row.htfEnd} = buckets
        BY <1>8, <1>13, <1>14
    <2>2. MinutesOf(M1(files)) = S
        BY <1>2
    <2>3. /\ row.m1Rows = Cardinality(S) /\ row.m1End = Max(S)
          /\ row.htfRows = Cardinality(buckets) /\ row.htfEnd = Max(buckets)
        BY <1>14
    <2> QED BY <1>8, <1>13, <1>15, <2>1, <2>2, <2>3, SMTT(60) DEF RowSound
<1>17. RowExact(row, files)
    BY <1>2, <1>8, <1>13, <1>14, SMTT(60) DEF RowExact
<1> QED BY <1>1, <1>2, <1>6, <1>8, <1>10, <1>11, <1>16, <1>17

\* A row stays behind its files when they grow.
LEMMA RowGrows ==
    ASSUME NEW row, NEW f, NEW g, RowSound(row, f),
           MinutesOf(M1(f)) \subseteq MinutesOf(M1(g)), MinutesOf(M1(g)) \in SUBSET Minutes,
           BucketsOnDisk(f) \subseteq BucketsOnDisk(g), BucketsOnDisk(g) \in SUBSET Minutes
    PROVE  RowSound(row, g)
<1> DEFINE A == {b \in BucketsOnDisk(f) : b <= row.htfEnd}
           B == {b \in BucketsOnDisk(g) : b <= row.htfEnd}
<1>1. B \in SUBSET Minutes /\ A \in SUBSET B /\ A \in SUBSET Minutes
    OBVIOUS
<1>2. MinutesOf(M1(f)) \in SUBSET MinutesOf(M1(g)) /\ MinutesOf(M1(f)) \in SUBSET Minutes
    OBVIOUS
<1>3. /\ Cardinality(A) <= Cardinality(B) /\ Cardinality(A) \in Nat /\ Cardinality(B) \in Nat
      /\ Cardinality(MinutesOf(M1(f))) <= Cardinality(MinutesOf(M1(g)))
      /\ Cardinality(MinutesOf(M1(f))) \in Nat /\ Cardinality(MinutesOf(M1(g))) \in Nat
    <2> HIDE DEF A, B
    <2> QED BY <1>1, <1>2, SubsetCount, MinuteSetsFinite
<1>4. row \in DatasetRows /\ row.m1Rows \in Nat /\ row.htfRows \in Nat
    BY DEF RowSound, DatasetRows
<1>5. /\ row.m1Rows <= Cardinality(MinutesOf(M1(f))) /\ row.m1End \in MinutesOf(M1(f))
      /\ row.htfRows <= Cardinality(A) /\ row.htfEnd \in BucketsOnDisk(f)
    BY DEF RowSound
<1>6. row.m1Rows <= Cardinality(MinutesOf(M1(g))) /\ row.htfRows <= Cardinality(B)
    <2> HIDE DEF A, B
    <2> QED BY <1>3, <1>4, <1>5
<1> QED BY <1>4, <1>5, <1>6 DEF RowSound

-----------------------------------------------------------------------------
(* What the invariant says of a state *)

LEMMA DatasetFacts ==
    ASSUME DatasetsSound, NEW d \in DOMAIN datasets
    PROVE  /\ d \in 1 .. Len(datasets) /\ Len(datasets) \in Nat /\ d \in 1 .. Len(disk)
           /\ datasets[d] \in DatasetRows /\ disk[d] \in Files /\ M1(disk[d]) \in BarSets
           /\ OnDisk(d) \in SUBSET Minutes /\ OnDisk(d) # {}
           /\ OnDisk(d) = traded \cap 1 .. Max(OnDisk(d))
           /\ Max(OnDisk(d)) \in OnDisk(d) /\ Max(OnDisk(d)) \in Minutes
           /\ \A y \in OnDisk(d) : y <= Max(OnDisk(d))
           /\ BucketsOnDisk(disk[d]) \in SUBSET Minutes
           /\ FilesSound(disk[d]) /\ RowSound(datasets[d], disk[d])
<1>1. /\ d \in 1 .. Len(datasets) /\ Len(datasets) \in Nat /\ d \in 1 .. Len(disk)
      /\ datasets[d] \in DatasetRows /\ disk[d] \in Files
      /\ FilesSound(disk[d]) /\ RowSound(datasets[d], disk[d])
    BY DEF DatasetsSound
<1>2. M1(disk[d]) \in BarSets
    BY <1>1, BarsOfFiles
<1>3. OnDisk(d) \in SUBSET Minutes
    BY <1>2 DEF OnDisk, MinutesOf, BarSets
<1>4. OnDisk(d) # {} /\ OnDisk(d) = traded \cap 1 .. Max(OnDisk(d))
    BY <1>1 DEF FilesSound, OnDisk
<1>5. BucketsOnDisk(disk[d]) \in SUBSET Minutes
    BY <1>1 DEF BucketsOnDisk, Files, Fragments
<1> QED BY <1>1, <1>2, <1>3, <1>4, <1>5, MaxOfMinutes

LEMMA ActiveIsDataset ==
    ASSUME DatasetsSound
    PROVE  Active \in DOMAIN datasets /\ DOMAIN datasets = 1 .. Len(datasets) /\ DOMAIN disk = DOMAIN datasets
BY DEF DatasetsSound, Active

\* Whichever fragment a bucket is read from, its minutes are the same.
LEMMA OneContent ==
    ASSUME NEW files \in Files, HtfSound(files), NEW b \in BucketsOnDisk(files)
    PROVE  Cardinality(ContentsOf(files, b)) = 1
<1> DEFINE fs == FragmentsOf(files, b)
           last == IF \E f \in fs : f.frag > 0 THEN {f \in fs : f.frag > 0} ELSE fs
           rs == UNION {{q \in f.bars : q.b = b} : f \in last}
<1>1. /\ \A f \in files.htf : f.frag \in Nat
      /\ \A f \in files.htf, g \in files.htf : f.frag = 0 /\ g.frag = 0 => f = g
      /\ \A f \in files.htf : f.frag = 0 => \A r, q \in f.bars : r.b = q.b => r = q
      /\ \A f \in files.htf : f.frag > 0 => \A r \in f.bars : r.of = MinutesIn(r.b)
    BY DEF HtfSound, Files, Fragments
<1>2. fs \subseteq files.htf /\ fs # {} /\ last \subseteq fs /\ last # {}
      /\ \A f \in fs : \E r \in f.bars : r.b = b
    <2>1. fs \subseteq files.htf /\ \A f \in fs : \E r \in f.bars : r.b = b
        BY DEF FragmentsOf
    <2>2. fs # {}
        BY DEF FragmentsOf, BucketsOnDisk
    <2> QED BY <2>1, <2>2
<1>3. \E c : \A r \in rs : r.of = c
    <2>1. CASE \E f \in fs : f.frag > 0
        <3>1. \A f \in last : f.frag > 0 /\ f \in files.htf
            BY <1>2, <2>1
        <3>2. \A r \in rs : r.of = MinutesIn(b)
            BY <1>1, <3>1
        <3> QED BY <3>2
    <2>2. CASE ~\E f \in fs : f.frag > 0
        <3>1. \A f \in last : f.frag = 0 /\ f \in files.htf
            BY <1>1, <1>2, <2>2
        <3>2. \A r, q \in rs : r = q
            BY <1>1, <3>1
        <3> QED BY <3>2
    <2> QED BY <2>1, <2>2
<1>4. rs # {}
    BY <1>2
<1>5. ContentsOf(files, b) = {r.of : r \in rs}
    BY DEF ContentsOf
<1>6. \E c : ContentsOf(files, b) = {c}
    <2> HIDE DEF rs
    <2> QED BY <1>3, <1>4, <1>5
<1> QED BY <1>6, FS_Singleton

\* The inductive part of RegistryInv while no fragment was replaced.
Core ==
  /\ TypeOK /\ UpToDateMeansNoOpenRequest
  /\ DatasetsSound /\ RequestsSound /\ TickSound
  /\ faults = 0 => DatasetsExact

LEMMA NeverAhead ==
    ASSUME Core
    PROVE  RegistryNeverAhead
<1>1. SUFFICES ASSUME NEW d \in DOMAIN datasets
               PROVE  /\ datasets[d].m1Rows <= Cardinality(OnDisk(d)) /\ datasets[d].m1End \in OnDisk(d)
                      /\ datasets[d].htfRows <= Cardinality(BucketsOnDisk(disk[d]))
                      /\ datasets[d].htfEnd \in BucketsOnDisk(disk[d])
    BY DEF RegistryNeverAhead
<1> DEFINE B == BucketsOnDisk(disk[d])
           A == {b \in B : b <= datasets[d].htfEnd}
<1>2. /\ B \in SUBSET Minutes /\ A \in SUBSET B /\ A \in SUBSET Minutes
      /\ datasets[d] \in DatasetRows /\ RowSound(datasets[d], disk[d])
    BY DatasetFacts DEF Core
<1>3. Cardinality(A) <= Cardinality(B) /\ Cardinality(A) \in Nat /\ Cardinality(B) \in Nat
    <2> HIDE DEF A, B
    <2> QED BY <1>2, SubsetCount, MinuteSetsFinite
<1>4. /\ datasets[d].m1Rows <= Cardinality(OnDisk(d)) /\ datasets[d].m1End \in OnDisk(d)
      /\ datasets[d].htfRows <= Cardinality(A) /\ datasets[d].htfEnd \in B
      /\ datasets[d].htfRows \in Nat
    BY <1>2 DEF RowSound, OnDisk, DatasetRows
<1>5. datasets[d].htfRows <= Cardinality(B)
    <2> HIDE DEF A, B
    <2> QED BY <1>3, <1>4
<1> QED BY <1>4, <1>5

-----------------------------------------------------------------------------
(* Frames: what a step leaves alone *)

LEMMA DatasetsFrame ==
    ASSUME DatasetsSound, UNCHANGED <<traded, datasets, disk>>,
           \A d \in DOMAIN datasets : Settled(d) \subseteq Settled(d)'
    PROVE  DatasetsSound'
<1>1. /\ datasets' \in Seq(DatasetRows) /\ disk' \in Seq(Files)
      /\ Len(disk') = Len(datasets') /\ Len(datasets') \in 1 .. MaxDatasets
    BY DEF DatasetsSound
<1>2. ASSUME NEW d \in DOMAIN datasets
      PROVE  /\ FilesSound(disk[d])' /\ RowSound(datasets[d], disk[d])'
             /\ BucketsOnDisk(disk'[d]) \subseteq {Bucket(m) : m \in Settled(d)'}
    <2>1. FilesSound(disk[d])'
        <3>1. FilesSound(disk[d])
            BY DEF DatasetsSound
        <3> QED BY <3>1 DEF FilesSound
    <2>2. RowSound(datasets[d], disk[d])'
        <3>1. RowSound(datasets[d], disk[d])
            BY DEF DatasetsSound
        <3> QED BY <3>1 DEF RowSound
    <2>3. BucketsOnDisk(disk[d]) \subseteq {Bucket(m) : m \in Settled(d)}
        BY DEF DatasetsSound
    <2>4. PICK ms, ns : ms = Settled(d) /\ ns = Settled(d)'
        OBVIOUS
    <2>5. BucketsOnDisk(disk[d]) \subseteq {Bucket(m) : m \in ns}
        BY <2>3, <2>4
    <2> QED BY <2>1, <2>2, <2>4, <2>5
<1> QED BY <1>1, <1>2 DEF DatasetsSound

LEMMA ExactFrame ==
    ASSUME DatasetsExact, UNCHANGED disk, DOMAIN datasets' = DOMAIN datasets,
           \A d \in DOMAIN datasets : Settled(d)' = Settled(d) /\ Row(d)' = Row(d)
    PROVE  DatasetsExact'
<1>1. ASSUME NEW d \in DOMAIN datasets
      PROVE  /\ RowExact(Row(d)', disk'[d])
             /\ {r.b : r \in ResampledCompleted(Settled(d)')} \subseteq BucketsOnDisk(disk'[d])
    <2>1. /\ RowExact(Row(d), disk[d])
          /\ {r.b : r \in ResampledCompleted(Settled(d))} \subseteq BucketsOnDisk(disk[d])
        BY DEF DatasetsExact
    <2>2. PICK row, ms : row = Row(d) /\ ms = Settled(d) /\ row = Row(d)' /\ ms = Settled(d)'
        OBVIOUS
    <2>3. /\ RowExact(row, disk[d])
          /\ {r.b : r \in ResampledCompleted(ms)} \subseteq BucketsOnDisk(disk[d])
        BY <2>1, <2>2
    <2> QED BY <2>2, <2>3
<1> QED BY <1>1 DEF DatasetsExact

\* A request stays sound while the history grows and no other file takes its id.
LEMMA RequestFrame ==
    ASSUME NEW id, NEW from, RequestSound(id, from), UNCHANGED traded,
           Max(OnDisk(Active)) \in Int, (Max(OnDisk(Active)))' \in Int,
           Max(OnDisk(Active)) <= (Max(OnDisk(Active)))',
           \A r \in requests' : r.id = id => r \in requests, csv'[id] = csv[id]
    PROVE  RequestSound(id, from)'
<1>1. PICK k, l : k = Max(OnDisk(Active)) /\ l = (Max(OnDisk(Active)))'
    OBVIOUS
<1>2. from \in Nat \ {0} /\ from <= k + 1
    BY <1>1 DEF RequestSound
<1>3. from <= l + 1
    BY <1>1, <1>2
<1>4. \A r \in requests' : r.id = id => r.from = from
    BY DEF RequestSound
<1>5. csv[id] # None => AnswerSound(from, csv[id])
    BY DEF RequestSound
<1>6. csv'[id] # None => AnswerSound(from, csv[id])'
    BY <1>5 DEF AnswerSound
<1> QED BY <1>1, <1>2, <1>3, <1>4, <1>6 DEF RequestSound

\* The step of the market or the collector, seen from the rows.
LEMMA DataUntouched ==
    ASSUME Core, UNCHANGED <<traded, datasets, disk, worker>>, faults' = 0 => faults = 0
    PROVE  DatasetsSound' /\ (faults' = 0 => DatasetsExact')
<1>1. DatasetsSound /\ (faults = 0 => DatasetsExact)
    BY DEF Core
<1>2. \A d \in DOMAIN datasets : Settled(d)' = Settled(d) /\ Row(d)' = Row(d)
    BY DEF Settled, Row, Busy, OnDisk, NovelMinutes
<1> QED BY <1>1, <1>2, DatasetsFrame, ExactFrame

\* A step between ticks, seen from the rows.
LEMMA DataIdle ==
    ASSUME Core, UNCHANGED <<traded, datasets, disk>>, faults' = 0 => faults = 0,
           worker = None \/ worker.pc = "COMMIT_REQUEST",
           worker' = None \/ worker'.pc = "COMMIT_REQUEST"
    PROVE  DatasetsSound' /\ (faults' = 0 => DatasetsExact')
<1>1. DatasetsSound /\ (faults = 0 => DatasetsExact)
    BY DEF Core
<1>2. \A d \in DOMAIN datasets : ~Busy(d) /\ ~Busy(d)'
    BY DEF Busy
<1>3. \A d \in DOMAIN datasets : Settled(d)' = Settled(d) /\ Row(d)' = Row(d)
    BY <1>2 DEF Settled, Row, OnDisk
<1> QED BY <1>1, <1>3, DatasetsFrame, ExactFrame

LEMMA ActiveUntouched ==
    ASSUME DatasetsSound, UNCHANGED <<datasets, disk>>
    PROVE  /\ Max(OnDisk(Active)) \in Int /\ (Max(OnDisk(Active)))' \in Int
           /\ Max(OnDisk(Active)) <= (Max(OnDisk(Active)))'
<1>1. Max(OnDisk(Active)) \in Minutes
    BY ActiveIsDataset, DatasetFacts
<1>2. (Max(OnDisk(Active)))' = Max(OnDisk(Active))
    BY DEF OnDisk, Active
<1>3. PICK k : k = Max(OnDisk(Active))
    OBVIOUS
<1> QED BY <1>1, <1>2, <1>3 DEF Minutes

\* The requests and the tick in progress, when answers and request files change
\* in a way each of them tolerates.
LEMMA TicksUntouched ==
    ASSUME Core, UNCHANGED <<traded, datasets, disk, jobs, worker>>,
           \A id \in Ids : \A from : RequestSound(id, from) => RequestSound(id, from)',
           export' # None => export'.req \in requests'
    PROVE  RequestsSound' /\ TickSound'
<1>1. Open' = Open /\ Open \subseteq Ids
    BY DEF Open
<1>2. RequestsSound'
    <2>1. \A i \in Open : RequestSound(i, jobs[i].from)
        BY DEF Core, RequestsSound
    <2>2. ASSUME NEW i \in Open PROVE RequestSound(i, jobs[i].from)'
        <3>1. PICK from : from = jobs[i].from
            OBVIOUS
        <3>2. RequestSound(i, from)'
            BY <1>1, <2>1, <3>1
        <3> QED BY <3>1, <3>2
    <2>3. \A i, j \in Open : i = j
        BY DEF Core, RequestsSound
    <2> QED BY <1>1, <2>2, <2>3 DEF RequestsSound
<1>3. TickSound'
    <2>1. SUFFICES ASSUME worker # None
                   PROVE  /\ worker \in Ticks
                          /\ IF worker.pc = "COMMIT_REQUEST"
                             THEN Open' = {} /\ RequestSound(worker.id, worker.from)'
                             ELSE AppendSound'
        BY DEF TickSound
    <2>2. worker \in Ticks
        BY <2>1 DEF Core, TickSound
    <2>3. CASE worker.pc = "COMMIT_REQUEST"
        <3>1. Open = {} /\ RequestSound(worker.id, worker.from)
            BY <2>1, <2>3 DEF Core, TickSound
        <3>2. worker.id \in Ids
            BY <2>2, <2>3 DEF Ticks, Requesting, AppendingTicks
        <3>3. PICK id, from : id = worker.id /\ from = worker.from
            OBVIOUS
        <3>4. RequestSound(id, from)'
            BY <3>1, <3>2, <3>3
        <3> QED BY <1>1, <2>2, <2>3, <3>1, <3>3, <3>4
    <2>4. CASE worker.pc # "COMMIT_REQUEST"
        <3>1. AppendSound
            BY <2>1, <2>4 DEF Core, TickSound
        <3>2. AppendSound'
            BY <1>1, <3>1 DEF AppendSound, Active, OnDisk, NovelMinutes, Settled, Busy, RowSound
        <3> QED BY <2>2, <2>4, <3>2
    <2> QED BY <2>3, <2>4
<1> QED BY <1>2, <1>3

-----------------------------------------------------------------------------
(* The initial state *)

LEMMA InitCore == Init => Core
<1> SUFFICES ASSUME Init PROVE Core
    OBVIOUS
<1>1. BaseEnd \in Minutes /\ BaseEnd <= BaseEnd /\ BaseEnd \in Nat /\ BaseEnd <= Horizon
    BY SyncAssumption DEF Minutes
<1>2. PICK S, files, row : S = traded \cap 1 .. BaseEnd /\ files = BaseFiles(S) /\ row = NewDataset(S)
    OBVIOUS
<1>3. /\ S \in SUBSET Minutes /\ S # {} /\ MinutesOf(M1(files)) = S
      /\ files \in Files /\ FilesSound(files) /\ RowSound(row, files)
      /\ BucketsOnDisk(files) = {Bucket(m) : m \in S} /\ RowExact(row, files)
    <2>1. traded \in Sessions
        BY DEF Init
    <2> QED BY <1>1, <1>2, <2>1, BaseSound
<1>4. datasets = <<row>> /\ disk = <<files>> /\ worker = None
    BY <1>2 DEF Init, Snapshot
<1>5. Open = {}
    BY DEF Init, Open
<1>6. TypeOK
    <2>1. traded \in Sessions /\ now \in BaseEnd .. Horizon /\ revised \subseteq Minutes
        BY <1>1, SyncAssumption DEF Init
    <2>2. /\ requests \subseteq Requests /\ csv \in [Ids -> BarSets \cup {None}]
          /\ manifest \in [Ids -> Manifests \cup {None}] /\ export = None
          /\ jobs \in [Ids -> Jobs \cup {None}]
        BY DEF Init
    <2>3. state \in States
        BY <1>1 DEF Init, States
    <2>4. scheduler \in {"RUNNING", "DEAD"} /\ faults \in 0 .. MaxFaults /\ refilled \subseteq Ids
        BY SyncAssumption DEF Init
    <2> QED BY <2>1, <2>2, <2>3, <2>4 DEF TypeOK
<1>7. Len(datasets) = 1 /\ Len(disk) = 1 /\ DOMAIN datasets = {1} /\ datasets[1] = row /\ disk[1] = files
    BY <1>4
<1>8. \A d \in DOMAIN datasets : Settled(d) = S /\ Row(d) = row
    BY <1>3, <1>4, <1>7 DEF Settled, Row, Busy, OnDisk
<1>9. DatasetsSound
    <2>1. row \in DatasetRows
        BY <1>3 DEF RowSound
    <2>2. datasets \in Seq(DatasetRows) /\ disk \in Seq(Files)
        BY <1>3, <1>4, <2>1
    <2>3. Len(disk) = Len(datasets) /\ Len(datasets) \in 1 .. MaxDatasets
        BY <1>7, SyncAssumption
    <2> QED BY <1>3, <1>7, <1>8, <2>2, <2>3 DEF DatasetsSound
<1>10. RequestsSound /\ TickSound
    BY <1>4, <1>5 DEF Init, RequestsSound, TickSound
<1>11. DatasetsExact
    <2>1. {r.b : r \in ResampledCompleted(S)} \subseteq BucketsOnDisk(files)
        BY <1>3, ResampledFacts
    <2> QED BY <1>3, <1>7, <1>8, <2>1 DEF DatasetsExact
<1>12. UpToDateMeansNoOpenRequest
    BY <1>5 DEF UpToDateMeansNoOpenRequest
<1> QED BY <1>6, <1>9, <1>10, <1>11, <1>12 DEF Core

-----------------------------------------------------------------------------
(* The market and the collector *)

LEMMA SameRequests ==
    ASSUME DatasetsSound, UNCHANGED <<traded, datasets, disk>>, NEW id, NEW from, RequestSound(id, from),
           requests' \subseteq requests, csv'[id] = csv[id]
    PROVE  RequestSound(id, from)'
BY ActiveUntouched, RequestFrame

LEMMA SameTicks ==
    ASSUME Core, UNCHANGED <<traded, datasets, disk, jobs, worker, csv>>, requests' \subseteq requests,
           export' # None => export'.req \in requests'
    PROVE  RequestsSound' /\ TickSound'
<1>1. DatasetsSound
    BY DEF Core
<1>2. \A id \in Ids : \A from : RequestSound(id, from) => RequestSound(id, from)'
    BY <1>1, SameRequests
<1> QED BY <1>2, TicksUntouched

LEMMA MarketKeeps ==
    ASSUME Core, MinutePasses \/ (\E m \in Minutes : Revise(m))
    PROVE  Core'
<1>1. UNCHANGED <<traded, requests, csv, manifest, export, datasets, disk, jobs, state, worker, scheduler, faults, refilled>>
    BY DEF MinutePasses, Revise, collectorVars, rows
<1>2. TypeOK /\ RequestsSound /\ UpToDateMeansNoOpenRequest
    BY DEF Core
<1>3. now' \in BaseEnd .. Horizon /\ revised' \subseteq Minutes
    <2>1. now \in BaseEnd .. Horizon /\ revised \in SUBSET Minutes /\ faults \in Nat
        BY <1>2 DEF TypeOK
    <2>2. Cardinality(revised) \in Nat
        BY <2>1, MinuteSetsFinite
    <2>3. Len(datasets) \in Nat /\ Len(datasets) >= 1
        BY DEF Core, DatasetsSound
    <2>4. CASE MinutePasses
        <3>1. now < Horizon - faults - Cardinality(revised) - (Len(datasets) - 1) /\ now' = now + 1 /\ revised' = revised
            BY <2>4 DEF MinutePasses
        <3>2. now + 1 <= Horizon
            BY <2>1, <2>2, <2>3, <3>1, SyncAssumption
        <3> QED BY <2>1, <3>1, <3>2, SyncAssumption
    <2>5. CASE \E m \in Minutes : Revise(m)
        BY <2>1, <2>5 DEF Revise
    <2> QED BY <2>4, <2>5
<1>4. TypeOK'
    BY <1>1, <1>2, <1>3 DEF TypeOK
<1>5. UpToDateMeansNoOpenRequest'
    BY <1>1, <1>2 DEF UpToDateMeansNoOpenRequest, Open
<1>6. export' # None => export'.req \in requests'
    BY <1>1, <1>2 DEF RequestsSound
<1> QED BY <1>1, <1>4, <1>5, <1>6, DataUntouched, SameTicks DEF Core

LEMMA ExportCsvKeeps ==
    ASSUME Core, NEW r \in requests, ExportCsv(r)
    PROVE  Core'
<1>1. /\ UNCHANGED <<traded, now, revised, requests, manifest, datasets, disk, jobs, state, worker, scheduler, faults, refilled>>
      /\ export = None /\ now >= r.from
    BY DEF ExportCsv, marketVars, rows
<1>2. TypeOK /\ RequestsSound /\ UpToDateMeansNoOpenRequest /\ DatasetsSound
    BY DEF Core
<1>3. r \in Requests /\ r.id \in Ids /\ r.from \in Nat /\ traded \in Sessions /\ now \in Minutes
    BY <1>2, SyncAssumption DEF TypeOK, Requests, Minutes
<1>4. PICK S, bars : S = traded \cap r.from .. now /\ bars = BarsOf(S)
    OBVIOUS
<1>5. csv' = [csv EXCEPT ![r.id] = bars] /\ export' = [req |-> r, bars |-> bars, pc |-> "MANIFEST"]
    BY <1>4 DEF ExportCsv
<1>6. bars \in BarSets /\ MinutesOf(bars) = S /\ \A b, c \in bars : b.m = c.m => b = c
    <2>1. S \in SUBSET Minutes
        BY <1>3, <1>4, SyncAssumption DEF Minutes
    <2> QED BY <1>4, <2>1, BarsOfFacts
<1>7. TypeOK'
    <2>1. csv' \in [Ids -> BarSets \cup {None}]
        BY <1>2, <1>3, <1>5, <1>6 DEF TypeOK
    <2>2. export' \in [req : Requests, bars : BarSets, pc : {"MANIFEST", "DELETE"}] \cup {None}
        BY <1>3, <1>5, <1>6
    <2> QED BY <1>1, <1>2, <2>1, <2>2 DEF TypeOK
<1>8. ASSUME NEW id \in Ids, NEW from, RequestSound(id, from)
      PROVE  RequestSound(id, from)'
    <2>1. CASE id # r.id
        <3>1. csv'[id] = csv[id]
            BY <1>2, <1>3, <1>5, <2>1 DEF TypeOK
        <3> QED BY <1>1, <1>2, <1>8, <3>1, SameRequests
    <2>2. CASE id = r.id
        <3>1. csv'[id] = bars
            BY <1>2, <1>3, <1>5, <2>2 DEF TypeOK
        <3>2. from = r.from
            BY <1>8, <2>2 DEF RequestSound
        <3>3. AnswerSound(from, bars)'
            BY <1>1, <1>3, <1>4, <1>6, <3>2 DEF AnswerSound
        <3>4. PICK k : k = Max(OnDisk(Active)) /\ k = (Max(OnDisk(Active)))'
            BY <1>1 DEF OnDisk, Active
        <3>5. from \in Nat \ {0} /\ from <= k + 1 /\ \A q \in requests : q.id = id => q.from = from
            BY <1>8, <3>4 DEF RequestSound
        <3> QED BY <1>1, <3>1, <3>3, <3>4, <3>5 DEF RequestSound
    <2> QED BY <2>1, <2>2
<1>9. UpToDateMeansNoOpenRequest'
    BY <1>1, <1>2 DEF UpToDateMeansNoOpenRequest, Open
<1>10. export'.req \in requests'
    BY <1>1, <1>5
<1>11. RequestsSound' /\ TickSound'
    BY <1>1, <1>8, <1>10, TicksUntouched
<1>12. DatasetsSound' /\ (faults' = 0 => DatasetsExact')
    BY <1>1, DataUntouched
<1> QED BY <1>7, <1>9, <1>11, <1>12 DEF Core

\* The steps that leave the answers alone.
LEMMA CollectorKeeps ==
    ASSUME Core, ExportManifest \/ DeleteRequest \/ TerminalRestart
    PROVE  Core'
<1>1. /\ UNCHANGED <<traded, now, revised, csv, datasets, disk, jobs, state, worker, scheduler, refilled>>
      /\ requests' \subseteq requests /\ export # None
    BY DEF ExportManifest, DeleteRequest, TerminalRestart, marketVars, rows
<1>2. TypeOK /\ RequestsSound /\ UpToDateMeansNoOpenRequest
    BY DEF Core
<1>3. export \in [req : Requests, bars : BarSets, pc : {"MANIFEST", "DELETE"}]
    BY <1>1, <1>2 DEF TypeOK
<1>4. /\ manifest' \in [Ids -> Manifests \cup {None}] /\ faults' \in 0 .. MaxFaults
      /\ export' \in [req : Requests, bars : BarSets, pc : {"MANIFEST", "DELETE"}] \cup {None}
      /\ export' # None => export'.req \in requests'
      /\ faults' = 0 => faults = 0
    <2>1. CASE ExportManifest
        <3>1. PICK bars, first, id : /\ bars = export.bars /\ id = export.req.id
                                     /\ first = IF bars = {} THEN 0 ELSE Min(MinutesOf(bars))
            OBVIOUS
        <3>2. bars \in BarSets /\ id \in Ids
            BY <1>3, <3>1 DEF Requests
        <3>3. first \in Nat
            <4>1. CASE bars = {}
                BY <3>1, <4>1
            <4>2. CASE bars # {}
                <5>1. MinutesOf(bars) \in SUBSET Minutes /\ MinutesOf(bars) # {}
                    BY <3>2, <4>2 DEF MinutesOf, BarSets
                <5>2. Min(MinutesOf(bars)) \in Minutes
                    BY <5>1, MinOfMinutes
                <5> QED BY <3>1, <4>2, <5>2 DEF Minutes
            <4> QED BY <4>1, <4>2
        <3>4. PICK n : n = Cardinality(bars)
            OBVIOUS
        <3>5. n \in Nat
            BY <3>2, <3>4, BarsFinite
        <3>6. manifest' = [manifest EXCEPT ![id] = [rows |-> n, first |-> first]]
            BY <2>1, <3>1, <3>4 DEF ExportManifest
        <3>7. manifest' \in [Ids -> Manifests \cup {None}]
            BY <1>2, <3>2, <3>3, <3>5, <3>6 DEF TypeOK, Manifests
        <3>8. export' = [export EXCEPT !.pc = "DELETE"] /\ requests' = requests /\ faults' = faults
            BY <2>1 DEF ExportManifest
        <3>9. export' \in [req : Requests, bars : BarSets, pc : {"MANIFEST", "DELETE"}] /\ export'.req = export.req
            BY <1>3, <3>8
        <3> QED BY <1>1, <1>2, <3>7, <3>8, <3>9 DEF TypeOK, RequestsSound
    <2>2. CASE DeleteRequest
        BY <1>2, <2>2 DEF DeleteRequest, TypeOK
    <2>3. CASE TerminalRestart
        <3>1. export' = None /\ faults' = faults + 1 /\ faults < MaxFaults /\ manifest' = manifest
            BY <2>3 DEF TerminalRestart
        <3>2. faults' \in 0 .. MaxFaults /\ faults' # 0
            BY <1>2, <3>1, SyncAssumption DEF TypeOK
        <3> QED BY <1>2, <3>1, <3>2 DEF TypeOK
    <2> QED BY <2>1, <2>2, <2>3
<1>5. TypeOK'
    BY <1>1, <1>2, <1>4 DEF TypeOK
<1>6. UpToDateMeansNoOpenRequest'
    BY <1>1, <1>2 DEF UpToDateMeansNoOpenRequest, Open
<1>7. RequestsSound' /\ TickSound'
    BY <1>1, <1>4, SameTicks
<1>8. DatasetsSound' /\ (faults' = 0 => DatasetsExact')
    BY <1>1, <1>4, DataUntouched
<1> QED BY <1>5, <1>6, <1>7, <1>8 DEF Core

-----------------------------------------------------------------------------
(* Ticks without new bars *)

LEMMA WriteRequestKeeps ==
    ASSUME Core, NEW trigger \in Schedulers, NEW id \in Ids, WriteRequest(trigger, id)
    PROVE  Core'
<1>1. /\ UNCHANGED <<traded, now, revised, csv, manifest, export, datasets, disk, jobs, state, scheduler, faults, refilled>>
      /\ worker = None /\ Open = {} /\ id \notin Used
      /\ requests' = requests \cup {[id |-> id, from |-> RequestedFrom]}
      /\ worker' = [pc |-> "COMMIT_REQUEST", trigger |-> trigger, id |-> id, from |-> RequestedFrom]
    BY DEF WriteRequest, MayTick, marketVars, collectorVars, rows
<1>2. TypeOK /\ RequestsSound /\ DatasetsSound
    BY DEF Core
<1>3. PICK from, k : from = RequestedFrom /\ k = Max(OnDisk(Active))
    OBVIOUS
<1>4. from \in Nat \ {0} /\ from <= k + 1 /\ k \in Minutes
    <2>1. PICK e : e = datasets[Active].m1End
        OBVIOUS
    <2>2. e \in OnDisk(Active)
        BY <1>2, <2>1, ActiveIsDataset, DatasetFacts DEF RowSound, OnDisk
    <2>3. e \in Minutes /\ k \in Minutes /\ e <= k
        BY <1>2, <1>3, <2>2, ActiveIsDataset, DatasetFacts
    <2>4. from = e + 1
        BY <1>3, <2>1 DEF RequestedFrom
    <2> QED BY <2>3, <2>4 DEF Minutes
<1>5. Open' = {}
    BY <1>1 DEF Open
<1>6. requests' \subseteq Requests
    BY <1>1, <1>2, <1>3, <1>4 DEF TypeOK, Requests
<1>7. TypeOK'
    BY <1>1, <1>2, <1>6 DEF TypeOK
<1>8. RequestsSound'
    BY <1>1, <1>2, <1>5 DEF RequestsSound
<1>9. csv[id] = None /\ \A r \in requests : r.id # id
    BY <1>1 DEF Used
<1>10. RequestSound(id, from)'
    <2>1. (Max(OnDisk(Active)))' = k
        BY <1>1, <1>3 DEF OnDisk, Active
    <2>2. \A r \in requests' : r.id = id => r.from = from
        BY <1>1, <1>3, <1>9
    <2> QED BY <1>1, <1>4, <1>9, <2>1, <2>2 DEF RequestSound
<1>11. TickSound'
    <2>1. worker' \in Ticks
        BY <1>1, <1>3, <1>4 DEF Ticks, Requesting, AppendingTicks
    <2>2. worker'.pc = "COMMIT_REQUEST" /\ worker'.id = id /\ worker'.from = from
        BY <1>1, <1>3
    <2> QED BY <1>5, <1>10, <2>1, <2>2 DEF TickSound
<1>12. DatasetsSound' /\ (faults' = 0 => DatasetsExact')
    BY <1>1, DataIdle
<1> QED BY <1>5, <1>7, <1>8, <1>11, <1>12 DEF Core, UpToDateMeansNoOpenRequest

LEMMA CommitRequestKeeps ==
    ASSUME Core, CommitRequest
    PROVE  Core'
<1>1. /\ UNCHANGED <<traded, now, revised, requests, csv, manifest, export, datasets, disk, scheduler, faults, refilled>>
      /\ worker # None /\ worker.pc = "COMMIT_REQUEST" /\ worker' = None
    BY DEF CommitRequest, marketVars, collectorVars
<1>2. TypeOK /\ RequestsSound /\ DatasetsSound
    BY DEF Core
<1>3. PICK id, from : id = worker.id /\ from = worker.from
    OBVIOUS
<1>4. /\ jobs' = [jobs EXCEPT ![id] = [status |-> "REQUESTED", from |-> from]]
      /\ state' = [status |-> "SYNCING", latest |-> from - 1, error |-> None]
    BY <1>3 DEF CommitRequest
<1>5. worker \in Ticks /\ Open = {} /\ RequestSound(id, from)
    BY <1>1, <1>3 DEF Core, TickSound
<1>6. id \in Ids /\ from \in Nat \ {0}
    <2>1. id \in Ids
        BY <1>1, <1>3, <1>5 DEF Ticks, Requesting, AppendingTicks
    <2> QED BY <1>5, <2>1 DEF RequestSound
<1>7. TypeOK'
    <2>1. jobs' \in [Ids -> Jobs \cup {None}]
        BY <1>2, <1>4, <1>6 DEF TypeOK, Jobs
    <2>2. state' \in States
        BY <1>4, <1>6 DEF States
    <2> QED BY <1>1, <1>2, <2>1, <2>2 DEF TypeOK
<1>8. \A i \in Open' : i = id /\ jobs'[i].from = from
    BY <1>2, <1>4, <1>5, <1>6 DEF Open, TypeOK
<1>9. RequestSound(id, from)'
    BY <1>1, <1>2, <1>5, SameRequests
<1>10. RequestsSound'
    <2>1. ASSUME NEW i \in Open' PROVE RequestSound(i, jobs[i].from)'
        <3>1. PICK f : f = jobs'[i].from
            OBVIOUS
        <3>2. i = id /\ f = from
            BY <1>8, <3>1
        <3> QED BY <1>9, <3>1, <3>2
    <2> QED BY <1>1, <1>2, <1>8, <2>1 DEF RequestsSound
<1>11. TickSound' /\ UpToDateMeansNoOpenRequest'
    BY <1>1, <1>4 DEF TickSound, UpToDateMeansNoOpenRequest
<1>12. DatasetsSound' /\ (faults' = 0 => DatasetsExact')
    BY <1>1, DataIdle
<1> QED BY <1>7, <1>10, <1>11, <1>12 DEF Core

\* A tick that only reports: no answer yet, or one that cannot be appended to.
LEMMA ReportKeeps ==
    ASSUME Core, NEW trigger \in Schedulers,
           Await(trigger) \/ \E i \in Ids : ConsumeUnreadable(trigger, i)
    PROVE  Core'
<1>1. /\ UNCHANGED <<traded, now, revised, requests, csv, manifest, export, datasets, disk, jobs, worker, faults, refilled>>
    BY DEF Await, ConsumeUnreadable, marketVars, collectorVars, rows
<1>2. TypeOK /\ RequestsSound /\ UpToDateMeansNoOpenRequest
    BY DEF Core
<1>3. /\ state' \in States /\ scheduler' \in {"RUNNING", "DEAD"}
      /\ state'.status = "UP_TO_DATE" => state.status = "UP_TO_DATE"
    <2>1. CASE Await(trigger)
        <3>1. state' = [state EXCEPT !.status = "MT5_UNAVAILABLE", !.error = "NO_RESPONSE"] /\ scheduler' = scheduler
            BY <2>1 DEF Await
        <3>2. state' \in States /\ state'.status = "MT5_UNAVAILABLE"
            BY <1>2, <3>1 DEF TypeOK, States
        <3> QED BY <1>2, <3>1, <3>2 DEF TypeOK
    <2>2. CASE \E i \in Ids : ConsumeUnreadable(trigger, i)
        BY <1>2, <2>2 DEF ConsumeUnreadable, rows, TypeOK
    <2> QED BY <2>1, <2>2
<1>4. TypeOK'
    BY <1>1, <1>2, <1>3 DEF TypeOK
<1>5. UpToDateMeansNoOpenRequest'
    BY <1>1, <1>2, <1>3 DEF UpToDateMeansNoOpenRequest, Open
<1>6. RequestsSound' /\ TickSound'
    BY <1>1, <1>2, SameTicks DEF RequestsSound
<1>7. DatasetsSound' /\ (faults' = 0 => DatasetsExact')
    BY <1>1, DataUntouched
<1> QED BY <1>4, <1>5, <1>6, <1>7 DEF Core

\* A tick that ends the open request and leaves the rows.
LEMMA CloseKeeps ==
    ASSUME Core, NEW trigger \in Schedulers, NEW i \in Ids,
           ConsumeEmpty(trigger, i) \/ ConsumeRefused(trigger, i) \/ ConsumeKnown(trigger, i)
    PROVE  Core'
<1>1. /\ UNCHANGED <<traded, now, revised, requests, csv, manifest, export, datasets, disk, worker, scheduler, faults, refilled>>
      /\ worker = None /\ i \in Open
    BY DEF ConsumeEmpty, ConsumeRefused, ConsumeKnown, HasBars, MayTick, marketVars, collectorVars
<1>2. TypeOK /\ RequestsSound /\ DatasetsSound
    BY DEF Core
<1>3. PICK s \in {"COMPLETED", "FAILED"} : jobs' = [jobs EXCEPT ![i].status = s]
    BY DEF ConsumeEmpty, ConsumeRefused, ConsumeKnown, Finished
<1>4. jobs[i] \in Jobs
    BY <1>1, <1>2 DEF TypeOK, Open
<1>5. jobs' \in [Ids -> Jobs \cup {None}] /\ jobs'[i].status = s /\ \A j \in Ids \ {i} : jobs'[j] = jobs[j]
    BY <1>2, <1>3, <1>4 DEF TypeOK, Jobs
<1>6. Open' = {}
    <2>1. \A j \in Open : j = i
        BY <1>1, <1>2 DEF RequestsSound
    <2> QED BY <1>5, <2>1 DEF Open
<1>7. state' \in States
    <2>1. CASE ConsumeRefused(trigger, i)
        BY <1>2, <2>1 DEF ConsumeRefused, TypeOK, States
    <2>2. CASE ConsumeEmpty(trigger, i) \/ ConsumeKnown(trigger, i)
        <3>1. PICK e : e = datasets[Active].m1End
            OBVIOUS
        <3>2. state' = [status |-> "UP_TO_DATE", latest |-> e, error |-> None]
            BY <2>2, <3>1 DEF ConsumeEmpty, ConsumeKnown, Finished
        <3>3. e \in Nat
            <4>1. datasets[Active] \in DatasetRows
                BY <1>2, ActiveIsDataset, DatasetFacts
            <4> QED BY <3>1, <4>1 DEF DatasetRows, Minutes
        <3> QED BY <3>2, <3>3 DEF States
    <2> QED BY <2>1, <2>2
<1>8. TypeOK'
    BY <1>1, <1>2, <1>5, <1>7 DEF TypeOK
<1>9. RequestsSound' /\ TickSound' /\ UpToDateMeansNoOpenRequest'
    BY <1>1, <1>2, <1>6 DEF RequestsSound, TickSound, UpToDateMeansNoOpenRequest
<1>10. DatasetsSound' /\ (faults' = 0 => DatasetsExact')
    BY <1>1, DataIdle
<1> QED BY <1>8, <1>9, <1>10 DEF Core

-----------------------------------------------------------------------------
(* A tick that appends *)

\* The tick in progress, its dataset and its new bars.
LEMMA AppendFacts ==
    ASSUME Core, worker # None, worker.pc # "COMMIT_REQUEST"
    PROVE  /\ worker \in [pc : {"MIGRATE", "M1", "HTF", "COMMIT"}, trigger : Schedulers, id : Ids,
                          d : Nat, ds : DatasetRows, novel : BarSets, combined : SUBSET Minutes]
           /\ AppendSound /\ worker.d \in DOMAIN datasets /\ worker.d = Active
           /\ Busy(worker.d) /\ Row(worker.d) = worker.ds
           /\ \A e : e # worker.d => ~Busy(e)
           /\ NovelMinutes \in SUBSET Minutes /\ NovelMinutes # {}
           /\ Cardinality(worker.novel) = Cardinality(NovelMinutes)
<1>1. worker \in Ticks /\ AppendSound
    BY DEF Core, TickSound
<1>2. worker \in [pc : {"MIGRATE", "M1", "HTF", "COMMIT"}, trigger : Schedulers, id : Ids,
                  d : Nat, ds : DatasetRows, novel : BarSets, combined : SUBSET Minutes]
    BY <1>1 DEF Ticks, Requesting, AppendingTicks
<1>3. worker.d = Active /\ worker.d \in DOMAIN datasets
    BY <1>1, ActiveIsDataset DEF AppendSound, Core
<1>4. Busy(worker.d) /\ Row(worker.d) = worker.ds /\ \A e : e # worker.d => ~Busy(e)
    BY DEF Busy, Row
<1>5. /\ NovelMinutes \in SUBSET Minutes /\ NovelMinutes # {}
      /\ Cardinality(worker.novel) = Cardinality(NovelMinutes)
    <2>1. PICK novel : novel = worker.novel
        OBVIOUS
    <2>2. novel \in BarSets /\ novel # {} /\ \A b, c \in novel : b.m = c.m => b = c
        BY <1>1, <1>2, <2>1 DEF AppendSound
    <2>3. MinutesOf(novel) \in SUBSET Minutes /\ Cardinality(novel) = Cardinality(MinutesOf(novel))
        BY <2>2, BarsCount
    <2>4. MinutesOf(novel) # {}
        BY <2>2 DEF MinutesOf
    <2> QED BY <2>1, <2>3, <2>4 DEF NovelMinutes
<1> QED BY <1>1, <1>2, <1>3, <1>4, <1>5

\* The files of the dataset the tick appends to grow.
LEMMA GrowKeeps ==
    ASSUME DatasetsSound, RequestsSound, NEW d \in DOMAIN datasets, d = Active,
           NEW g \in Files, disk' = [disk EXCEPT ![d] = g],
           UNCHANGED <<traded, requests, csv, export, datasets, jobs>>,
           FilesSound(g), OnDisk(d) \subseteq MinutesOf(M1(g)),
           BucketsOnDisk(disk[d]) \subseteq BucketsOnDisk(g),
           BucketsOnDisk(g) \subseteq {Bucket(m) : m \in Settled(d)'},
           \A e : e # d => ~Busy(e) /\ ~Busy(e)'
    PROVE  /\ DatasetsSound' /\ RequestsSound' /\ Open' = Open
           /\ disk'[d] = g /\ \A e \in DOMAIN datasets \ {d} : disk'[e] = disk[e]
<1>1. DOMAIN disk = DOMAIN datasets /\ d \in DOMAIN disk
    BY ActiveIsDataset
<1>2. disk'[d] = g /\ \A e \in DOMAIN datasets \ {d} : disk'[e] = disk[e]
    BY <1>1
<1>3. /\ datasets' \in Seq(DatasetRows) /\ disk' \in Seq(Files)
      /\ Len(disk') = Len(datasets') /\ Len(datasets') \in 1 .. MaxDatasets
    <2>1. /\ datasets \in Seq(DatasetRows) /\ disk \in Seq(Files) /\ d \in 1 .. Len(disk)
          /\ Len(disk) = Len(datasets) /\ Len(datasets) \in 1 .. MaxDatasets
        BY <1>1 DEF DatasetsSound
    <2>2. disk' \in Seq(Files) /\ Len(disk') = Len(disk)
        BY <2>1
    <2> QED BY <2>1, <2>2
<1>4. MinutesOf(M1(g)) \in SUBSET Minutes /\ BucketsOnDisk(g) \in SUBSET Minutes
    BY BarsOfFiles DEF Files, Fragments, BucketsOnDisk
<1>5. ASSUME NEW e \in DOMAIN datasets
      PROVE  /\ FilesSound(disk[e])' /\ RowSound(datasets[e], disk[e])'
             /\ BucketsOnDisk(disk'[e]) \subseteq {Bucket(m) : m \in Settled(e)'}
    <2>1. CASE e = d
        <3>1. FilesSound(g)'
            BY DEF FilesSound
        <3>2. FilesSound(disk[e])'
            BY <1>2, <2>1, <3>1
        <3>3. PICK row, f : row = datasets[d] /\ f = disk[d]
            OBVIOUS
        <3>4. RowSound(row, f) /\ MinutesOf(M1(f)) \subseteq MinutesOf(M1(g)) /\ BucketsOnDisk(f) \subseteq BucketsOnDisk(g)
            BY <3>3, DatasetFacts DEF OnDisk
        <3>5. RowSound(row, g)
            BY <1>4, <3>4, RowGrows
        <3>6. RowSound(datasets[e], disk[e])'
            BY <1>2, <2>1, <3>3, <3>5
        <3> QED BY <1>2, <2>1, <3>2, <3>6
    <2>2. CASE e # d
        <3>1. disk'[e] = disk[e] /\ Settled(e)' = OnDisk(e) /\ Settled(e) = OnDisk(e)
            BY <1>2, <2>2 DEF Settled, OnDisk
        <3>2. /\ FilesSound(disk[e]) /\ RowSound(datasets[e], disk[e])
              /\ BucketsOnDisk(disk[e]) \subseteq {Bucket(m) : m \in Settled(e)}
            BY DEF DatasetsSound
        <3>3. PICK ms, ns : ms = Settled(e) /\ ns = Settled(e)'
            OBVIOUS
        <3>4. BucketsOnDisk(disk'[e]) \subseteq {Bucket(m) : m \in ns}
            BY <3>1, <3>2, <3>3
        <3>5. FilesSound(disk[e])'
            BY <3>1, <3>2 DEF FilesSound
        <3> QED BY <3>1, <3>2, <3>3, <3>4, <3>5
    <2> QED BY <2>1, <2>2
<1>6. DatasetsSound'
    BY <1>3, <1>5 DEF DatasetsSound
<1>7. Open' = Open
    BY DEF Open
<1>8. /\ Max(OnDisk(Active)) \in Int /\ (Max(OnDisk(Active)))' \in Int
      /\ Max(OnDisk(Active)) <= (Max(OnDisk(Active)))'
    <2>1. PICK ms, ns : ms = OnDisk(d) /\ ns = MinutesOf(M1(g))
        OBVIOUS
    <2>2. Active' = d /\ (OnDisk(Active))' = ns /\ OnDisk(Active) = ms
        BY <1>2, <2>1 DEF Active, OnDisk
    <2>3. ms \in SUBSET Minutes /\ ms # {} /\ ns \in SUBSET Minutes /\ ns # {} /\ ms \subseteq ns
        BY <1>4, <2>1, DatasetFacts
    <2>4. Max(ms) \in ms /\ Max(ms) \in Minutes /\ Max(ns) \in Minutes /\ \A y \in ns : y <= Max(ns)
        BY <2>3, MaxOfMinutes
    <2>5. Max(ms) <= Max(ns)
        BY <2>3, <2>4
    <2> QED BY <2>2, <2>4, <2>5 DEF Minutes
<1>9. ASSUME NEW i \in Open PROVE RequestSound(i, jobs[i].from)'
    <2>1. PICK from : from = jobs[i].from /\ from = jobs'[i].from
        OBVIOUS
    <2>2. RequestSound(i, from)
        BY <2>1 DEF RequestsSound
    <2>3. RequestSound(i, from)'
        BY <1>8, <2>2, RequestFrame
    <2> QED BY <2>1, <2>3
<1>10. RequestsSound'
    BY <1>7, <1>9 DEF RequestsSound
<1> QED BY <1>2, <1>6, <1>7, <1>10

LEMMA GrowExact ==
    ASSUME DatasetsExact, NEW d \in DOMAIN datasets, NEW g, disk'[d] = g,
           \A e \in DOMAIN datasets \ {d} : disk'[e] = disk[e],
           UNCHANGED datasets,
           RowExact(Row(d)', g),
           {r.b : r \in ResampledCompleted(Settled(d)')} \subseteq BucketsOnDisk(g),
           \A e : e # d => ~Busy(e) /\ ~Busy(e)'
    PROVE  DatasetsExact'
<1>1. ASSUME NEW e \in DOMAIN datasets
      PROVE  /\ RowExact(Row(e)', disk'[e])
             /\ {r.b : r \in ResampledCompleted(Settled(e)')} \subseteq BucketsOnDisk(disk'[e])
    <2>1. CASE e = d
        BY <2>1
    <2>2. CASE e # d
        <3>1. Settled(e)' = Settled(e) /\ Row(e)' = Row(e) /\ disk'[e] = disk[e]
            BY <2>2 DEF Settled, OnDisk, Row
        <3>2. /\ RowExact(Row(e), disk[e])
              /\ {r.b : r \in ResampledCompleted(Settled(e))} \subseteq BucketsOnDisk(disk[e])
            BY DEF DatasetsExact
        <3>3. PICK row, ms : row = Row(e) /\ ms = Settled(e) /\ row = Row(e)' /\ ms = Settled(e)'
            BY <3>1
        <3>4. RowExact(row, disk[e]) /\ {r.b : r \in ResampledCompleted(ms)} \subseteq BucketsOnDisk(disk[e])
            BY <3>2, <3>3
        <3> QED BY <3>1, <3>3, <3>4
    <2> QED BY <2>1, <2>2
<1> QED BY <1>1 DEF DatasetsExact

LEMMA RequestsUntouched ==
    ASSUME RequestsSound, UNCHANGED <<traded, requests, csv, export, datasets, disk, jobs>>
    PROVE  RequestsSound' /\ Open' = Open
<1>1. Open' = Open
    BY DEF Open
<1>2. RequestsSound'
    BY <1>1 DEF RequestsSound, RequestSound, AnswerSound, OnDisk, Active
<1> QED BY <1>1, <1>2

\* The bars that are not on disk yet continue the minutes that are.
LEMMA NovelFacts ==
    ASSUME Core, NEW i \in Open, csv[i] # None, NEW novel, novel = Novel(csv[i], Active)
    PROVE  /\ novel \in BarSets /\ \A b, c \in novel : b.m = c.m => b = c
           /\ MinutesOf(novel) \cap OnDisk(Active) = {}
           /\ \E t \in Minutes : OnDisk(Active) \cup MinutesOf(novel) = traded \cap 1 .. t
<1>1. DatasetsSound /\ RequestsSound
    BY DEF Core
<1>2. PICK from, bars, ms, k : from = jobs[i].from /\ bars = csv[i] /\ ms = OnDisk(Active) /\ k = Max(ms)
    OBVIOUS
<1>3. from \in Nat \ {0} /\ from <= k + 1 /\ AnswerSound(from, bars)
    BY <1>1, <1>2 DEF RequestsSound, RequestSound
<1>4. PICK t \in Minutes : MinutesOf(bars) = traded \cap from .. t
    BY <1>3 DEF AnswerSound
<1>5. ms = traded \cap 1 .. k /\ k \in Minutes
    BY <1>1, <1>2, ActiveIsDataset, DatasetFacts
<1>6. novel = {b \in bars : b.m \notin ms}
    BY <1>2 DEF Novel, OnDisk
<1>7. novel \in BarSets /\ \A b, c \in novel : b.m = c.m => b = c
    BY <1>3, <1>6 DEF AnswerSound, BarSets
<1>8. MinutesOf(novel) = MinutesOf(bars) \ ms
    BY <1>6 DEF MinutesOf
<1>9. PICK u \in Minutes : u >= k /\ u >= t /\ (u = k \/ u = t)
    BY <1>5, SyncAssumption DEF Minutes
<1>10. 1 .. u = (1 .. k) \cup (from .. t) \/ (u = k /\ t < from)
    BY <1>3, <1>5, <1>9, SyncAssumption DEF Minutes
<1>11. ms \cup MinutesOf(novel) = traded \cap 1 .. u
    <2>1. ms \cup MinutesOf(novel) = traded \cap ((1 .. k) \cup (from .. t))
        BY <1>4, <1>5, <1>8
    <2>2. CASE 1 .. u = (1 .. k) \cup (from .. t)
        BY <2>1, <2>2
    <2>3. CASE u = k /\ t < from
        <3>1. from .. t = {}
            BY <1>3, <2>3, SyncAssumption DEF Minutes
        <3> QED BY <2>1, <2>3, <3>1
    <2> QED BY <1>10, <2>2, <2>3
<1> QED BY <1>2, <1>7, <1>8, <1>11

LEMMA BeginAppendKeeps ==
    ASSUME Core, NEW trigger \in Schedulers, NEW i \in Ids, BeginAppend(trigger, i)
    PROVE  Core'
<1>1. /\ UNCHANGED <<traded, now, revised, requests, csv, manifest, export, datasets, disk, jobs, state, scheduler, faults, refilled>>
      /\ worker = None /\ i \in Open /\ csv[i] # None
    BY DEF BeginAppend, HasBars, Answered, MayTick, marketVars, collectorVars, rows
<1>2. TypeOK /\ RequestsSound /\ DatasetsSound /\ UpToDateMeansNoOpenRequest
    BY DEF Core
<1>3. PICK d, novel, row : d = Active /\ novel = Novel(csv[i], Active) /\ row = datasets[Active]
    OBVIOUS
<1>4. PICK pc \in {"MIGRATE", "M1"} :
          worker' = [pc |-> pc, trigger |-> trigger, id |-> i, d |-> d, ds |-> row, novel |-> novel,
                     combined |-> {}]
    BY <1>3 DEF BeginAppend
<1>5. novel # {}
    BY <1>3 DEF BeginAppend
<1>6. /\ novel \in BarSets /\ \A b, c \in novel : b.m = c.m => b = c
      /\ MinutesOf(novel) \cap OnDisk(d) = {}
      /\ \E t \in Minutes : OnDisk(d) \cup MinutesOf(novel) = traded \cap 1 .. t
    BY <1>1, <1>3, NovelFacts
<1>7. d \in DOMAIN datasets /\ d \in Nat /\ row \in DatasetRows /\ RowSound(row, disk[d])
    BY <1>2, <1>3, ActiveIsDataset, DatasetFacts
<1>8. worker' \in Ticks
    BY <1>4, <1>6, <1>7 DEF Ticks, Requesting, AppendingTicks
<1>9. RequestsSound' /\ Open' = Open
    BY <1>1, <1>2, RequestsUntouched
<1>10. TickSound'
    <2>1. PICK w : w = worker'
        OBVIOUS
    <2>2. w.pc \in {"MIGRATE", "M1"} /\ w.id = i /\ w.d = d /\ w.ds = row /\ w.novel = novel
        BY <1>4, <2>1
    <2>3. NovelMinutes' = MinutesOf(novel) /\ OnDisk(d)' = OnDisk(d) /\ Active' = d
        BY <1>1, <1>3, <2>1, <2>2 DEF NovelMinutes, OnDisk, Active
    <2>4. AppendSound'
        BY <1>1, <1>5, <1>6, <1>7, <1>9, <2>1, <2>2, <2>3 DEF AppendSound
    <2> QED BY <1>8, <2>1, <2>2, <2>4 DEF TickSound
<1>11. TypeOK' /\ UpToDateMeansNoOpenRequest'
    BY <1>1, <1>2, <1>9 DEF TypeOK, UpToDateMeansNoOpenRequest
<1>12. \A e \in DOMAIN datasets : Settled(e)' = Settled(e) /\ Row(e)' = Row(e)
    BY <1>1, <1>3, <1>4 DEF Settled, Row, Busy, OnDisk
<1>13. DatasetsSound' /\ (faults' = 0 => DatasetsExact')
    BY <1>1, <1>2, <1>12, DatasetsFrame, ExactFrame DEF Core
<1> QED BY <1>9, <1>10, <1>11, <1>13 DEF Core

LEMMA MigrateKeeps ==
    ASSUME Core, Migrate
    PROVE  Core'
<1>1. /\ UNCHANGED <<traded, now, revised, requests, csv, manifest, export, datasets, jobs, state, scheduler, faults, refilled>>
      /\ worker # None /\ worker.pc = "MIGRATE"
      /\ disk' = [disk EXCEPT ![worker.d].base = "FRAGMENTS"]
      /\ worker' = [worker EXCEPT !.pc = "M1", !.ds.path = "FRAGMENTS"]
    BY DEF Migrate, Appending, OnlyAppend, marketVars, collectorVars, rows
<1>2. TypeOK /\ RequestsSound /\ DatasetsSound /\ UpToDateMeansNoOpenRequest
    BY DEF Core
<1>3. PICK w, d, f, g, row : /\ w = worker /\ d = w.d /\ f = disk[d] /\ g = [f EXCEPT !.base = "FRAGMENTS"]
                             /\ row = [w.ds EXCEPT !.path = "FRAGMENTS"]
    OBVIOUS
<1>4. /\ w \in [pc : {"MIGRATE", "M1", "HTF", "COMMIT"}, trigger : Schedulers, id : Ids,
                d : Nat, ds : DatasetRows, novel : BarSets, combined : SUBSET Minutes]
      /\ AppendSound /\ d \in DOMAIN datasets /\ d = Active /\ Row(d) = w.ds
      /\ \A e : e # d => ~Busy(e)
    BY <1>1, <1>3, AppendFacts
<1>5. /\ worker' = [w EXCEPT !.pc = "M1", !.ds = row] /\ disk' = [disk EXCEPT ![d] = g]
    BY <1>1, <1>3, <1>4
<1>6. row \in DatasetRows /\ row = [w.ds EXCEPT !.path = "FRAGMENTS"]
      /\ row.m1Rows = w.ds.m1Rows /\ row.m1End = w.ds.m1End /\ row.htfRows = w.ds.htfRows /\ row.htfEnd = w.ds.htfEnd
    BY <1>3, <1>4 DEF DatasetRows
<1>7. /\ worker' \in Ticks /\ worker'.pc = "M1" /\ worker'.id = w.id /\ worker'.d = d
      /\ worker'.ds = row /\ worker'.novel = w.novel
    <2>1. worker' = [pc |-> "M1", trigger |-> w.trigger, id |-> w.id, d |-> w.d, ds |-> row, novel |-> w.novel, combined |-> w.combined]
        BY <1>4, <1>5
    <2> QED BY <1>3, <1>4, <1>6, <2>1 DEF Ticks, Requesting, AppendingTicks
<1>8. /\ f \in Files /\ g \in Files /\ M1(g) = M1(f) /\ g.m1 = f.m1 /\ g.htf = f.htf /\ FilesSound(f)
    BY <1>2, <1>3, <1>4, DatasetFacts DEF Files, M1
<1>9. FilesSound(g) /\ BucketsOnDisk(g) = BucketsOnDisk(f)
    BY <1>8 DEF FilesSound, HtfSound, BucketsOnDisk
<1>10. \A e : e # d => ~Busy(e)'
    BY <1>7 DEF Busy
<1>11. d \in DOMAIN disk /\ disk'[d] = g
    BY <1>2, <1>4, <1>5, ActiveIsDataset
<1>12. Settled(d) = OnDisk(d) /\ Settled(d)' = OnDisk(d) /\ OnDisk(d)' = OnDisk(d)
    BY <1>1, <1>3, <1>7, <1>8, <1>11 DEF Settled, Busy, OnDisk
<1>13. BucketsOnDisk(f) \subseteq {Bucket(m) : m \in OnDisk(d)}
    BY <1>2, <1>3, <1>4, <1>12 DEF DatasetsSound
<1>14. /\ DatasetsSound' /\ RequestsSound' /\ Open' = Open
       /\ \A e \in DOMAIN datasets \ {d} : disk'[e] = disk[e]
    <2>1. OnDisk(d) = MinutesOf(M1(g))
        BY <1>3, <1>8 DEF OnDisk
    <2>2. BucketsOnDisk(g) \subseteq {Bucket(m) : m \in Settled(d)'}
        BY <1>9, <1>12, <1>13
    <2> QED BY <1>1, <1>2, <1>3, <1>4, <1>5, <1>8, <1>9, <1>10, <2>1, <2>2, GrowKeeps
<1>15. TickSound'
    <2>1. RowSound(w.ds, f)
        BY <1>3, <1>4 DEF AppendSound
    <2>2. RowSound(row, g)
        BY <1>6, <1>8, <1>9, <2>1 DEF RowSound
    <2>3. /\ w.id \in Open /\ w.novel # {} /\ \A b, c \in w.novel : b.m = c.m => b = c
          /\ NovelMinutes \cap OnDisk(d) = {}
          /\ \E t \in Minutes : OnDisk(d) \cup NovelMinutes = traded \cap 1 .. t
        BY <1>1, <1>3, <1>4 DEF AppendSound
    <2>4. NovelMinutes' = NovelMinutes /\ Active' = d
        BY <1>1, <1>3, <1>4, <1>7 DEF NovelMinutes, Active
    <2>5. RowSound(worker.ds, disk[worker.d])'
        BY <1>7, <1>11, <2>2
    <2>6. AppendSound'
        BY <1>1, <1>7, <1>12, <1>14, <2>3, <2>4, <2>5 DEF AppendSound
    <2> QED BY <1>7, <2>6 DEF TickSound
<1>16. faults' = 0 => DatasetsExact'
    <2> SUFFICES ASSUME faults = 0 PROVE DatasetsExact'
        BY <1>1
    <2>1. DatasetsExact
        BY DEF Core
    <2>2. /\ RowExact(w.ds, f)
          /\ {r.b : r \in ResampledCompleted(OnDisk(d))} \subseteq BucketsOnDisk(f)
        BY <1>3, <1>4, <1>12, <2>1 DEF DatasetsExact
    <2>3. RowExact(row, g)
        BY <1>6, <1>8, <1>9, <2>2 DEF RowExact
    <2>4. worker' # None /\ Row(d)' = row
        BY <1>7, NoneAssumption DEF Row, Busy
    <2>5. PICK ms : ms = OnDisk(d) /\ ms = Settled(d)'
        BY <1>12
    <2> QED BY <1>1, <1>4, <1>9, <1>10, <1>11, <1>14, <2>1, <2>2, <2>3, <2>4, <2>5, GrowExact
<1>17. TypeOK' /\ UpToDateMeansNoOpenRequest'
    BY <1>1, <1>2, <1>14 DEF TypeOK, UpToDateMeansNoOpenRequest
<1> QED BY <1>14, <1>15, <1>16, <1>17 DEF Core

\* The first answer of a request makes a fragment of its own.
LEMMA WriteM1Keeps ==
    ASSUME Core, WriteM1, disk[worker.d].m1[worker.id] = {}
    PROVE  Core'
<1>1. /\ UNCHANGED <<traded, now, revised, requests, csv, manifest, export, datasets, jobs, state, scheduler, faults, refilled>>
      /\ worker # None /\ worker.pc = "M1"
      /\ disk' = [disk EXCEPT ![worker.d].m1 = [disk[worker.d].m1 EXCEPT ![worker.id] = worker.novel]]
      /\ worker' = [worker EXCEPT !.pc = "HTF", !.combined = Combined,
                      !.ds.m1Rows = @ + Cardinality(worker.novel),
                      !.ds.m1End = Max({@, Max(MinutesOf(worker.novel))})]
    BY DEF WriteM1, AppendM1, Appending, OnlyAppend, marketVars, collectorVars, rows
<1>2. TypeOK /\ RequestsSound /\ DatasetsSound /\ UpToDateMeansNoOpenRequest
    BY DEF Core
<1>3. PICK w, d, f, ms, ns, n, e, cs :
          /\ w = worker /\ d = w.d /\ f = disk[d] /\ ms = OnDisk(d) /\ ns = MinutesOf(w.novel)
          /\ n = Cardinality(w.novel) /\ e = Max({w.ds.m1End, Max(ns)}) /\ cs = Combined
    OBVIOUS
<1>4. /\ w \in [pc : {"MIGRATE", "M1", "HTF", "COMMIT"}, trigger : Schedulers, id : Ids,
                d : Nat, ds : DatasetRows, novel : BarSets, combined : SUBSET Minutes]
      /\ AppendSound /\ d \in DOMAIN datasets /\ d = Active /\ Row(d) = w.ds
      /\ \A c : c # d => ~Busy(c)
      /\ ns \in SUBSET Minutes /\ ns # {} /\ n = Cardinality(ns)
    BY <1>1, <1>3, AppendFacts DEF NovelMinutes
<1>5. /\ f \in Files /\ f.m1[w.id] = {} /\ FilesSound(f) /\ ms = MinutesOf(M1(f))
      /\ ms \in SUBSET Minutes /\ ms # {} /\ ms = traded \cap 1 .. Max(ms)
    BY <1>2, <1>3, <1>4, DatasetFacts DEF OnDisk
<1>6. /\ w.id \in Open /\ w.novel # {} /\ \A b, c \in w.novel : b.m = c.m => b = c
      /\ RowSound(w.ds, f) /\ ns \cap ms = {}
      /\ \E t \in Minutes : ms \cup ns = traded \cap 1 .. t
    BY <1>1, <1>3, <1>4 DEF AppendSound, NovelMinutes
<1>7. PICK g, row : g = [f EXCEPT !.m1 = [f.m1 EXCEPT ![w.id] = w.novel]] /\ row = [w.ds EXCEPT !.m1Rows = w.ds.m1Rows + n, !.m1End = e]
    OBVIOUS
<1>8. disk' = [disk EXCEPT ![d] = g] /\ worker' = [w EXCEPT !.pc = "HTF", !.combined = cs, !.ds = row]
    <2>1. d \in DOMAIN disk
        BY <1>2, <1>4, ActiveIsDataset
    <2>2. disk' = [disk EXCEPT ![d] = g]
        BY <1>1, <1>3, <1>5, <1>7, <2>1 DEF Files
    <2>3. worker' = [w EXCEPT !.pc = "HTF", !.combined = cs, !.ds = row]
        BY <1>1, <1>3, <1>4, <1>7 DEF DatasetRows
    <2> QED BY <2>2, <2>3
<1>9. /\ g \in Files /\ g.m1 = [f.m1 EXCEPT ![w.id] = w.novel] /\ g.htf = f.htf
      /\ w.id \in Ids /\ w.id \in Frags
      /\ MinutesOf(M1(g)) = ms \cup ns /\ BucketsOnDisk(g) = BucketsOnDisk(f)
    <2>1. w.id \in Ids /\ w.id \in Frags /\ w.novel \in BarSets
        BY <1>4, SyncAssumption DEF Ids, Frags
    <2>2. g \in Files /\ g.m1 = [f.m1 EXCEPT ![w.id] = w.novel] /\ g.htf = f.htf /\ f.m1 \in [Frags -> BarSets]
        BY <1>5, <1>7, <2>1 DEF Files
    <2>3. M1(g) = M1(f) \cup w.novel
        <3>1. \A i \in Frags : g.m1[i] = IF i = w.id THEN w.novel ELSE f.m1[i]
            BY <2>2
        <3> QED BY <1>5, <2>1, <3>1 DEF M1
    <2> QED BY <1>3, <1>5, <2>1, <2>2, <2>3 DEF MinutesOf, BucketsOnDisk
<1>10. ms \cup ns \in SUBSET Minutes /\ ms \cup ns # {} /\ ms \cup ns = traded \cap 1 .. Max(ms \cup ns)
    BY <1>4, <1>5, <1>6, Whole, SMTT(60)
<1>11. FilesSound(g)
    <2>1. HtfSound(g)
        BY <1>5, <1>9 DEF FilesSound, HtfSound
    <2>2. \A fr \in g.htf : fr.frag > 0 => fr.frag \in Ids /\ g.m1[fr.frag] # {}
        <3>1. \A fr \in f.htf : fr.frag > 0 => fr.frag \in Ids /\ f.m1[fr.frag] # {}
            BY <1>5 DEF FilesSound
        <3>2. \A i \in Ids : i \in Frags
            BY SyncAssumption DEF Ids, Frags
        <3> QED BY <1>5, <1>6, <1>9, <3>1, <3>2 DEF Files
    <2> QED BY <1>9, <1>10, <2>1, <2>2 DEF FilesSound
\* The row: as many bars more as there are new minutes.
<1>12. /\ Cardinality(ms \cup ns) = Cardinality(ms) + n
       /\ Cardinality(ms) \in Nat /\ n \in Nat
    <2>1. ms \in SUBSET Minutes /\ ns \in SUBSET Minutes /\ ms \cap ns = {}
        BY <1>4, <1>5, <1>6
    <2> QED BY <1>4, <2>1, DisjointCount, MinuteSetsFinite
<1>13. e \in ms \cup ns /\ w.ds.m1End <= e /\ (\A m \in ns : m <= e) /\ e \in Minutes /\ w.ds.m1End \in Minutes
    <2>1. PICK x, y : x = w.ds.m1End /\ y = Max(ns)
        OBVIOUS
    <2>2. x \in ms /\ y \in ns /\ \A m \in ns : m <= y
        BY <1>3, <1>4, <1>5, <1>6, <2>1, MaxOfMinutes DEF RowSound
    <2>3. {x, y} \in SUBSET Minutes /\ {x, y} # {}
        BY <1>4, <1>5, <2>2
    <2>4. e \in {x, y} /\ x <= e /\ y <= e
        BY <1>3, <2>1, <2>3, MaxOfMinutes
    <2>5. x \in Int /\ y \in Int /\ e \in Int /\ \A m \in ns : m \in Int
        BY <1>4, <2>3, <2>4 DEF Minutes
    <2>6. \A m \in ns : m <= e
        BY <2>2, <2>4, <2>5
    <2>7. e \in ms \cup ns /\ e \in Minutes /\ x \in Minutes
        BY <2>2, <2>3, <2>4
    <2> QED BY <2>1, <2>4, <2>6, <2>7
<1>14. /\ row \in DatasetRows /\ row.m1Rows = w.ds.m1Rows + n /\ row.m1End = e
       /\ row.htfRows = w.ds.htfRows /\ row.htfEnd = w.ds.htfEnd /\ w.ds.m1Rows \in Nat
    <2>1. PICK q, x : q = w.ds /\ x = q.m1Rows + n
        OBVIOUS
    <2>2. /\ q \in DatasetRows /\ q.m1Rows \in Nat /\ x \in Nat
          /\ row = [q EXCEPT !.m1Rows = x, !.m1End = e]
        BY <1>4, <1>7, <1>12, <2>1 DEF DatasetRows
    <2>3. /\ row \in DatasetRows /\ row.m1Rows = x /\ row.m1End = e
          /\ row.htfRows = q.htfRows /\ row.htfEnd = q.htfEnd
        BY <1>13, <2>2 DEF DatasetRows
    <2> QED BY <2>1, <2>2, <2>3
<1>15. RowSound(row, g)
    <2>1. w.ds.m1Rows <= Cardinality(ms)
        BY <1>5, <1>6 DEF RowSound
    <2>2. PICK x, y, z : x = w.ds.m1Rows /\ y = Cardinality(ms) /\ z = Cardinality(ms \cup ns)
        OBVIOUS
    <2>3. x + n <= z
        BY <1>12, <1>14, <2>1, <2>2
    <2>4. row.m1Rows <= Cardinality(MinutesOf(M1(g))) /\ row.m1End \in MinutesOf(M1(g))
        BY <1>9, <1>13, <1>14, <2>2, <2>3
    <2> QED BY <1>6, <1>9, <1>14, <2>4 DEF RowSound
<1>16. /\ worker' \in Ticks /\ worker' # None /\ worker'.pc = "HTF" /\ worker'.id = w.id /\ worker'.d = d
       /\ worker'.ds = row /\ worker'.novel = w.novel /\ worker'.combined = cs
      /\ cs = {m \in ms \cup ns : m >= Min(ns) - BucketMinutes}
    <2>1. worker' = [pc |-> "HTF", trigger |-> w.trigger, id |-> w.id, d |-> w.d, ds |-> row, novel |-> w.novel, combined |-> cs]
        BY <1>4, <1>8
    <2>4. cs = {m \in ms \cup ns : m >= Min(ns) - BucketMinutes}
        BY <1>3 DEF Combined, OnDisk
    <2>2. worker' \in Ticks
        <3>1. cs \in SUBSET Minutes
            BY <1>10, <2>4
        <3> QED BY <1>4, <1>14, <2>1, <3>1 DEF Ticks, Requesting, AppendingTicks
    <2>3. worker' # None
        BY <2>2, NoneAssumption
    <2> QED BY <1>3, <2>1, <2>2, <2>3, <2>4
<1>17. /\ \A c : c # d => ~Busy(c)'
       /\ d \in DOMAIN disk /\ disk'[d] = g
    BY <1>2, <1>4, <1>8, <1>16, ActiveIsDataset DEF Busy
<1>18. /\ Settled(d) = ms /\ Settled(d)' = ms /\ OnDisk(d)' = ms \cup ns /\ NovelMinutes' = ns
       /\ Row(d)' = row /\ Active' = d
    <2>1. OnDisk(d)' = ms \cup ns /\ NovelMinutes' = ns /\ Busy(d)' /\ worker'.pc = "HTF"
        BY <1>3, <1>9, <1>16, <1>17 DEF OnDisk, NovelMinutes, Busy
    <2>2. (ms \cup ns) \ ns = ms
        BY <1>6
    <2>3. Settled(d)' = ms
        BY <2>1, <2>2 DEF Settled
    <2>4. Settled(d) = ms
        BY <1>1, <1>3 DEF Settled, Busy
    <2> QED BY <1>1, <1>4, <1>16, <2>1, <2>3, <2>4 DEF Row, Active
<1>19. BucketsOnDisk(f) \subseteq {Bucket(m) : m \in ms}
    <2>1. BucketsOnDisk(f) \subseteq {Bucket(m) : m \in Settled(d)}
        BY <1>2, <1>3, <1>4 DEF DatasetsSound
    <2> QED BY <1>18, <2>1
<1>20. /\ DatasetsSound' /\ RequestsSound' /\ Open' = Open
       /\ \A c \in DOMAIN datasets \ {d} : disk'[c] = disk[c]
    <2>1. OnDisk(d) \subseteq MinutesOf(M1(g))
        BY <1>3, <1>9
    <2>2. BucketsOnDisk(g) \subseteq {Bucket(m) : m \in Settled(d)'}
        BY <1>9, <1>18, <1>19
    <2>3. BucketsOnDisk(disk[d]) \subseteq BucketsOnDisk(g)
        BY <1>3, <1>9
    <2> QED BY <1>1, <1>2, <1>4, <1>8, <1>9, <1>11, <1>17, <2>1, <2>2, <2>3, GrowKeeps
\* The new minutes are behind all the others.
<1>21. \A m \in ns, l \in ms : l < m
    <2>1. PICK k : k = Max(ms)
        OBVIOUS
    <2>2. k \in Minutes /\ ms = traded \cap 1 .. k /\ \A l \in ms : l <= k
        BY <1>5, <2>1, MaxOfMinutes
    <2>3. ASSUME NEW m \in ns, NEW l \in ms PROVE l < m
        <3>1. m \in traded /\ m \notin ms /\ m \in Minutes /\ l \in Minutes
            BY <1>4, <1>5, <1>6
        <3>2. ~(m <= k)
            BY <2>2, <3>1 DEF Minutes
        <3> QED BY <2>2, <3>1, <3>2 DEF Minutes
    <2> QED BY <2>3
<1>22. TickSound'
    <2>1. RowSound(worker.ds, disk[worker.d])'
        BY <1>15, <1>16, <1>17
    <2>2. \A fr \in g.htf : fr.frag # w.id
        <3>1. \A fr \in f.htf : fr.frag > 0 => f.m1[fr.frag] # {}
            BY <1>5 DEF FilesSound
        <3>2. w.id > 0
            BY <1>9, SyncAssumption DEF Ids
        <3> QED BY <1>5, <1>9, <3>1, <3>2
    <2>3. /\ worker'.combined = {m \in OnDisk(d)' : m >= Min(NovelMinutes') - BucketMinutes}
          /\ disk'[worker'.d].m1[worker'.id] = worker'.novel
          /\ \A fr \in disk'[worker'.d].htf : fr.frag # worker'.id
        BY <1>5, <1>9, <1>16, <1>17, <1>18, <2>2 DEF Files
    <2>4. /\ NovelMinutes' \subseteq OnDisk(d)' /\ \A m \in NovelMinutes', l \in Settled(d)' : l < m
          /\ worker'.id \in Open' /\ worker'.d = Active' /\ worker'.novel # {}
          /\ \A b, c \in worker'.novel : b.m = c.m => b = c
        BY <1>4, <1>6, <1>16, <1>18, <1>20, <1>21
    <2>5. AppendSound'
        BY <1>3, <1>16, <2>1, <2>3, <2>4 DEF AppendSound
    <2> QED BY <1>16, <2>5 DEF TickSound
<1>23. faults' = 0 => DatasetsExact'
    <2> SUFFICES ASSUME faults = 0 PROVE DatasetsExact'
        BY <1>1
    <2>1. DatasetsExact
        BY DEF Core
    <2>2. /\ RowExact(w.ds, f)
          /\ {r.b : r \in ResampledCompleted(ms)} \subseteq BucketsOnDisk(f)
        <3>1. /\ RowExact(Row(d), disk[d])
              /\ {r.b : r \in ResampledCompleted(Settled(d))} \subseteq BucketsOnDisk(disk[d])
            BY <1>4, <2>1 DEF DatasetsExact
        <3> QED BY <1>3, <1>4, <1>18, <3>1
    <2>3. row.m1Rows = Cardinality(ms \cup ns)
        BY <1>5, <1>12, <1>14, <2>2 DEF RowExact
    <2>4. \A m \in ms \cup ns : m <= row.m1End
        <3>1. ASSUME NEW m \in ms PROVE m <= e
            <4>1. m <= w.ds.m1End
                BY <1>5, <2>2 DEF RowExact
            <4> QED BY <1>5, <1>13, <4>1 DEF Minutes
        <3> QED BY <1>13, <1>14, <3>1
    <2>5. RowExact(row, g)
        BY <1>9, <1>14, <2>2, <2>3, <2>4 DEF RowExact
    <2>6. {r.b : r \in ResampledCompleted(Settled(d)')} \subseteq BucketsOnDisk(g)
        BY <1>9, <1>18, <2>2
    <2>7. RowExact(Row(d)', g)
        BY <1>18, <2>5
    <2> QED BY <1>1, <1>4, <1>17, <1>20, <2>1, <2>6, <2>7, GrowExact
<1>24. TypeOK' /\ UpToDateMeansNoOpenRequest'
    BY <1>1, <1>2, <1>20 DEF TypeOK, UpToDateMeansNoOpenRequest
<1> QED BY <1>20, <1>22, <1>23, <1>24 DEF Core

\* The buckets a tick derives are complete, and among them is every bucket that
\* its new bars complete.
LEMMA DerivedFacts ==
    ASSUME Core, worker # None, worker.pc = "HTF",
           NEW ms, ms = OnDisk(worker.d), NEW ns, ns = NovelMinutes, NEW end, end = worker.ds.htfEnd,
           NEW ds, ds = Derived
    PROVE  /\ ds \in SUBSET [b : Minutes, of : SUBSET Minutes]
           /\ \A r \in ds : r.of = MinutesIn(r.b) /\ MinutesIn(r.b) \subseteq ms
           /\ \A r, q \in ds : r.b = q.b => r = q
           /\ {r.b : r \in ds} \subseteq {Bucket(m) : m \in ms}
           /\ \E m \in ms \ ns : end = Bucket(m)
           /\ \A n \in ns : end <= Bucket(n)
           /\ \A n \in ns : MinutesIn(Bucket(n)) \subseteq ms => Bucket(n) \in {r.b : r \in ds}
<1>1. PICK d, f, first, tail :
          /\ d = worker.d /\ f = disk[d] /\ first = Min(ns) - BucketMinutes
          /\ tail = {m \in ms : m >= first}
    OBVIOUS
<1>2. d \in DOMAIN datasets /\ AppendSound /\ Busy(d) /\ ns \in SUBSET Minutes /\ ns # {}
    BY <1>1, AppendFacts
<1>3. ms \in SUBSET Minutes /\ tail \in SUBSET Minutes /\ tail \subseteq ms
    BY <1>1, <1>2, DatasetFacts DEF Core
<1>4. ds = {r \in ResampledCompleted(tail) : r.b >= end - BucketMinutes}
    <2>1. worker.combined = tail
        BY <1>1, <1>2 DEF AppendSound
    <2> QED BY <2>1 DEF Derived
<1>5. /\ ds \in SUBSET [b : Minutes, of : SUBSET Minutes]
      /\ \A r \in ds : r.of = MinutesIn(r.b) /\ MinutesIn(r.b) \subseteq ms
      /\ \A r, q \in ds : r.b = q.b => r = q
      /\ {r.b : r \in ds} \subseteq {Bucket(m) : m \in ms}
    <2>1. /\ {r.b : r \in Resampled(tail)} = {Bucket(m) : m \in tail}
          /\ \A r, q \in Resampled(tail) : r.b = q.b => r = q
          /\ Resampled(tail) \in SUBSET [b : Minutes, of : SUBSET Minutes]
          /\ ResampledCompleted(tail) \subseteq Resampled(tail)
          /\ \A r \in ResampledCompleted(tail) : r.of = MinutesIn(r.b) /\ MinutesIn(r.b) \subseteq tail
        BY <1>3, ResampledFacts
    <2>2. ds \subseteq Resampled(tail) /\ ds \subseteq ResampledCompleted(tail)
        BY <1>4, <2>1
    <2>3. {r.b : r \in ds} \subseteq {Bucket(m) : m \in ms}
        BY <1>3, <2>1, <2>2
    <2> QED BY <1>3, <2>1, <2>2, <2>3
<1>6. PICK l \in ms \ ns : end = Bucket(l)
    <2>1. RowSound(worker.ds, f)
        BY <1>1, <1>2 DEF AppendSound
    <2>2. end \in BucketsOnDisk(f)
        BY <2>1 DEF RowSound
    <2>3. BucketsOnDisk(f) \subseteq {Bucket(m) : m \in Settled(d)}
        BY <1>1, <1>2 DEF Core, DatasetsSound
    <2>4. Settled(d) = ms \ ns
        BY <1>1, <1>2 DEF Settled
    <2> QED BY <2>2, <2>3, <2>4
<1>7. ASSUME NEW n \in ns PROVE end <= Bucket(n)
    <2>1. l < n
        <3>1. \A m \in NovelMinutes, k \in Settled(worker.d) : k < m
            BY <1>2 DEF AppendSound
        <3>2. Settled(worker.d) = ms \ ns
            BY <1>1, <1>2 DEF Settled
        <3> QED BY <1>6, <3>1, <3>2
    <2>2. l \in Minutes /\ n \in Minutes
        BY <1>2, <1>3, <1>6
    <2>3. Bucket(l) \in Minutes /\ Bucket(n) \in Minutes
        BY <2>2, BucketOfMinute
    <2>4. Bucket(l) = Bucket(n) \/ Bucket(l) + BucketMinutes <= Bucket(n)
        <3>1. ~(n < l)
            BY <2>1, <2>2 DEF Minutes
        <3> QED BY <2>2, <3>1, BucketOrder
    <2> QED BY <1>6, <2>3, <2>4, SyncAssumption DEF Minutes
<1>8. ASSUME NEW n \in ns, MinutesIn(Bucket(n)) \subseteq ms
      PROVE  Bucket(n) \in {r.b : r \in ds}
    <2>1. PICK b : b = Bucket(n)
        OBVIOUS
    <2>2. n \in Minutes /\ b \in Minutes /\ b <= n /\ n < b + BucketMinutes /\ n \in MinutesIn(b)
        BY <1>2, <2>1, BucketOfMinute
    <2>3. PICK k : k = Min(ns)
        OBVIOUS
    <2>4. k \in Minutes /\ k <= n
        BY <1>2, <2>3, MinOfMinutes
    <2>5. MinutesIn(b) \subseteq tail
        <3>1. ASSUME NEW m \in MinutesIn(b) PROVE m >= first
            BY <1>1, <2>2, <2>3, <2>4, <3>1, SyncAssumption DEF MinutesIn, Minutes
        <3> QED BY <1>1, <1>8, <2>1, <3>1
    <2>6. n \in tail
        BY <2>2, <2>5
    <2>7. b \in {r.b : r \in ResampledCompleted(tail)}
        BY <1>3, <2>1, <2>5, <2>6, ResampledFacts
    <2>8. end \in Minutes /\ end <= b
        <3>1. end \in Minutes
            BY <1>3, <1>6, BucketOfMinute
        <3> QED BY <1>7, <2>1, <3>1
    <2>9. b >= end - BucketMinutes
        BY <2>2, <2>8, SyncAssumption DEF Minutes
    <2> QED BY <1>4, <2>1, <2>7, <2>9
<1> QED BY <1>5, <1>6, <1>7, <1>8

LEMMA WriteHtfKeeps ==
    ASSUME Core, WriteHtf
    PROVE  Core'
<1>1. /\ UNCHANGED <<traded, now, revised, requests, csv, manifest, export, datasets, jobs, state, scheduler, faults, refilled>>
      /\ worker # None /\ worker.pc = "HTF"
    BY DEF WriteHtf, Appending, OnlyAppend, marketVars, collectorVars, rows
<1>2. TypeOK /\ RequestsSound /\ DatasetsSound /\ UpToDateMeansNoOpenRequest
    BY DEF Core
<1>3. PICK w, d, f, ms, ns, end, ds :
          /\ w = worker /\ d = w.d /\ f = disk[d] /\ ms = OnDisk(d) /\ ns = NovelMinutes
          /\ end = w.ds.htfEnd /\ ds = Derived
    OBVIOUS
<1>4. /\ w \in [pc : {"MIGRATE", "M1", "HTF", "COMMIT"}, trigger : Schedulers, id : Ids,
                d : Nat, ds : DatasetRows, novel : BarSets, combined : SUBSET Minutes]
      /\ AppendSound /\ d \in DOMAIN datasets /\ d = Active /\ Row(d) = w.ds
      /\ \A c : c # d => ~Busy(c)
      /\ ns \in SUBSET Minutes /\ ns # {}
    BY <1>1, <1>3, AppendFacts
<1>5. /\ f \in Files /\ FilesSound(f) /\ ms = MinutesOf(M1(f)) /\ ms \in SUBSET Minutes
    BY <1>2, <1>3, <1>4, DatasetFacts DEF OnDisk
<1>6. /\ w.id \in Open /\ w.novel # {} /\ \A b, c \in w.novel : b.m = c.m => b = c
      /\ RowSound(w.ds, f) /\ ns \subseteq ms
      /\ f.m1[w.id] = w.novel /\ \A fr \in f.htf : fr.frag # w.id
    BY <1>1, <1>3, <1>4 DEF AppendSound
<1>7. /\ ds \in SUBSET [b : Minutes, of : SUBSET Minutes]
      /\ \A r \in ds : r.of = MinutesIn(r.b) /\ MinutesIn(r.b) \subseteq ms
      /\ \A r, q \in ds : r.b = q.b => r = q
      /\ {r.b : r \in ds} \subseteq {Bucket(m) : m \in ms}
      /\ \E m \in ms \ ns : end = Bucket(m)
      /\ \A n \in ns : end <= Bucket(n)
      /\ \A n \in ns : MinutesIn(Bucket(n)) \subseteq ms => Bucket(n) \in {r.b : r \in ds}
    BY <1>1, <1>3, DerivedFacts
<1>8. PICK B, D, N, n, fr, g, last, row :
          /\ B = BucketsOnDisk(f) /\ D = {r.b : r \in ds} /\ N = {b \in D : b > end}
          /\ n = Cardinality({r \in ds : r.b > end}) /\ fr = [frag |-> w.id, bars |-> ds]
          /\ g = (IF ds = {} THEN f ELSE [f EXCEPT !.htf = f.htf \cup {fr}])
          /\ last = Max({end} \cup N)
          /\ row = [w.ds EXCEPT !.htfRows = w.ds.htfRows + n, !.htfEnd = last,
                                !.fingerprint = Append(w.ds.fingerprint, w.novel)]
    OBVIOUS
<1>9. disk' = [disk EXCEPT ![d] = g] /\ worker' = [w EXCEPT !.pc = "COMMIT", !.ds = row]
    <2>1. d \in DOMAIN disk /\ disk \in Seq(Files)
        BY <1>2, <1>4, ActiveIsDataset DEF DatasetsSound
    <2>2. disk' = [disk EXCEPT ![d] = g]
        <3>1. CASE ds = {}
            <4>1. disk' = disk /\ g = disk[d]
                BY <1>3, <1>8, <3>1 DEF WriteHtf
            <4>2. disk = [disk EXCEPT ![d] = disk[d]]
                BY <2>1
            <4> QED BY <4>1, <4>2
        <3>2. CASE ds # {}
            <4>1. disk' = [disk EXCEPT ![d].htf = {q \in f.htf : q.frag # w.id} \cup {fr}]
                BY <1>3, <1>8, <3>2 DEF WriteHtf
            <4>2. {q \in f.htf : q.frag # w.id} = f.htf
                BY <1>6
            <4> QED BY <1>3, <1>5, <1>8, <2>1, <3>2, <4>1, <4>2 DEF Files
        <3> QED BY <3>1, <3>2
    <2>3. {r.b : r \in {q \in ds : q.b > end}} = N
        BY <1>8
    <2>4. worker' = [worker EXCEPT !.pc = "COMMIT",
                       !.ds.htfRows = @ + n, !.ds.htfEnd = Max({@} \cup N),
                       !.ds.fingerprint = Append(@, worker.novel)]
        BY <1>3, <1>8, <2>3 DEF WriteHtf
    <2>5. worker' = [w EXCEPT !.pc = "COMMIT", !.ds = row]
        BY <1>3, <1>4, <1>8, <2>4 DEF DatasetRows
    <2> QED BY <2>2, <2>5
<1>10. B \in SUBSET Minutes /\ D \in SUBSET Minutes /\ end \in Minutes
    <2>1. D \in SUBSET Minutes
        BY <1>7, <1>8
    <2>2. B \in SUBSET Minutes
        BY <1>2, <1>3, <1>4, <1>8, DatasetFacts
    <2>3. end \in Minutes
        BY <1>5, <1>7, BucketOfMinute
    <2> QED BY <2>1, <2>2, <2>3
\* The files: one more fragment, of complete buckets.
<1>11. g \in Files /\ g.m1 = f.m1 /\ M1(g) = M1(f) /\ FilesSound(g) /\ BucketsOnDisk(g) = B \cup D
    <2>1. CASE ds = {}
        BY <1>5, <1>8, <2>1
    <2>2. CASE ds # {}
        <3>1. w.id \in Ids /\ w.id > 0 /\ fr \in Fragments /\ fr.frag = w.id /\ fr.bars = ds
            BY <1>4, <1>7, <1>8, SyncAssumption DEF Ids, Fragments
        <3>2. g = [f EXCEPT !.htf = f.htf \cup {fr}]
            BY <1>8, <2>2
        <3>3. g \in Files /\ g.m1 = f.m1 /\ g.htf = f.htf \cup {fr}
            BY <1>5, <3>1, <3>2 DEF Files
        <3>4. FilesSound(g)
            <4>1. /\ MinutesOf(M1(f)) # {} /\ MinutesOf(M1(f)) = traded \cap 1 .. Max(MinutesOf(M1(f)))
                  /\ \A a \in f.htf : a.frag > 0 => a.frag \in Ids /\ f.m1[a.frag] # {}
                  /\ \A a \in f.htf, b \in f.htf : a.frag = 0 /\ b.frag = 0 => a = b
                  /\ \A a \in f.htf : a.frag = 0 => \A r, q \in a.bars : r.b = q.b => r = q
                  /\ \A a \in f.htf : a.frag > 0 => \A r \in a.bars : r.of = MinutesIn(r.b)
                BY <1>5 DEF FilesSound, HtfSound
            <4>2. ~(fr.frag = 0) /\ \A r \in fr.bars : r.of = MinutesIn(r.b)
                BY <1>7, <3>1
            <4>3. fr.frag \in Ids /\ g.m1[fr.frag] # {}
                BY <1>6, <3>1, <3>3
            <4>4. MinutesOf(M1(g)) = MinutesOf(M1(f))
                BY <3>3 DEF M1
            <4>5. HtfSound(g)
                BY <3>3, <4>1, <4>2 DEF HtfSound
            <4>6. \A a \in g.htf : a.frag > 0 => a.frag \in Ids /\ g.m1[a.frag] # {}
                BY <3>3, <4>1, <4>3
            <4> QED BY <4>1, <4>4, <4>5, <4>6 DEF FilesSound
        <3>5. BucketsOnDisk(g) = B \cup D
            BY <1>8, <3>1, <3>3 DEF BucketsOnDisk
        <3>6. M1(g) = M1(f)
            BY <3>3 DEF M1
        <3> QED BY <3>3, <3>4, <3>5, <3>6
    <2> QED BY <2>1, <2>2
\* The row: as many buckets more as lie behind the registered end.
<1>12. n = Cardinality(N) /\ n \in Nat /\ N \in SUBSET Minutes
    <2>1. PICK new : new = {r \in ds : r.b > end}
        OBVIOUS
    <2>2. {r.b : r \in new} = N /\ \A r, q \in new : r.b = q.b => r = q
        BY <1>7, <1>8, <2>1
    <2>3. N \in SUBSET Minutes
        BY <1>8, <1>10
    <2>4. Cardinality(new) = Cardinality(N)
        BY <2>2, <2>3, RecordsCount
    <2> QED BY <1>8, <2>1, <2>3, <2>4, MinuteSetsFinite
<1>13. last \in {end} \cup N /\ last \in Minutes /\ \A y \in {end} \cup N : y <= last
    <2>1. {end} \cup N \in SUBSET Minutes /\ {end} \cup N # {}
        BY <1>10, <1>12
    <2> QED BY <1>8, <2>1, MaxOfMinutes
<1>14. /\ row \in DatasetRows /\ row.m1Rows = w.ds.m1Rows /\ row.m1End = w.ds.m1End
       /\ row.htfRows = w.ds.htfRows + n /\ row.htfEnd = last /\ w.ds.htfRows \in Nat
    <2>1. PICK q, x, fp : q = w.ds /\ x = q.htfRows + n /\ fp = Append(q.fingerprint, w.novel)
        OBVIOUS
    <2>2. q \in DatasetRows /\ q.htfRows \in Nat /\ q.fingerprint \in Seq(BarSets) /\ w.novel \in BarSets
        BY <1>4, <2>1 DEF DatasetRows
    <2>3. x \in Nat /\ fp \in Seq(BarSets)
        BY <1>12, <2>1, <2>2
    <2>4. row = [q EXCEPT !.htfRows = x, !.htfEnd = last, !.fingerprint = fp]
        BY <1>8, <2>1
    <2>5. /\ row \in DatasetRows /\ row.m1Rows = q.m1Rows /\ row.m1End = q.m1End
          /\ row.htfRows = x /\ row.htfEnd = last
        BY <1>13, <2>2, <2>3, <2>4 DEF DatasetRows
    <2> QED BY <2>1, <2>2, <2>5
<1>15. PICK A, C : A = {b \in B : b <= end} /\ C = {b \in B \cup D : b <= last}
    OBVIOUS
<1>16. /\ A \in SUBSET Minutes /\ C \in SUBSET Minutes /\ A \cup N \in SUBSET C
       /\ Cardinality(A \cup N) = Cardinality(A) + n
       /\ Cardinality(A) \in Nat /\ Cardinality(A \cup N) \in Nat /\ Cardinality(C) \in Nat
       /\ Cardinality(A \cup N) <= Cardinality(C)
    <2>1. A \in SUBSET Minutes /\ C \in SUBSET Minutes
        BY <1>10, <1>15
    <2>2. A \cap N = {}
        BY <1>8, <1>10, <1>15 DEF Minutes
    <2>3. ASSUME NEW b \in A \cup N PROVE b \in C
        <3>1. b \in Minutes /\ end \in Minutes /\ last \in Minutes /\ end <= last /\ b \in B \cup D
            BY <1>8, <1>10, <1>12, <1>13, <1>15
        <3>2. b <= last
            BY <1>13, <1>15, <3>1 DEF Minutes
        <3> QED BY <1>15, <3>1, <3>2
    <2>4. A \cup N \in SUBSET C /\ A \cup N \in SUBSET Minutes
        BY <2>1, <2>3, <1>12
    <2> QED BY <1>12, <2>1, <2>2, <2>4, DisjointCount, SubsetCount, MinuteSetsFinite
<1>17. RowSound(row, g)
    <2>1. /\ w.ds.m1Rows <= Cardinality(MinutesOf(M1(f))) /\ w.ds.m1End \in MinutesOf(M1(f))
          /\ w.ds.htfRows <= Cardinality(A) /\ end \in B
        BY <1>3, <1>6, <1>8, <1>15 DEF RowSound
    <2>2. PICK x, y, z, u : x = w.ds.htfRows /\ y = Cardinality(A) /\ z = Cardinality(A \cup N) /\ u = Cardinality(C)
        OBVIOUS
    <2>3. x + n <= u
        BY <1>12, <1>14, <1>16, <2>1, <2>2
    <2>4. last \in B \cup D
        BY <1>8, <1>13, <2>1
    <2> QED BY <1>11, <1>14, <1>15, <2>1, <2>2, <2>3, <2>4 DEF RowSound
<1>18. /\ worker' \in Ticks /\ worker' # None /\ worker'.pc = "COMMIT" /\ worker'.id = w.id /\ worker'.d = d
       /\ worker'.ds = row /\ worker'.novel = w.novel
    <2>1. worker' = [pc |-> "COMMIT", trigger |-> w.trigger, id |-> w.id, d |-> w.d, ds |-> row, novel |-> w.novel, combined |-> w.combined]
        BY <1>4, <1>9
    <2>2. worker' \in Ticks
        BY <1>4, <1>14, <2>1 DEF Ticks, Requesting, AppendingTicks
    <2>3. worker' # None
        BY <2>2, NoneAssumption
    <2> QED BY <1>3, <2>1, <2>2, <2>3
<1>19. /\ \A c : c # d => ~Busy(c)'
       /\ d \in DOMAIN disk /\ disk'[d] = g
    BY <1>2, <1>4, <1>9, <1>18, ActiveIsDataset DEF Busy
<1>20. /\ Settled(d) = ms \ ns /\ Settled(d)' = ms /\ OnDisk(d)' = ms
       /\ Row(d)' = row /\ Active' = d
    <2>1. OnDisk(d)' = ms
        BY <1>5, <1>11, <1>19 DEF OnDisk
    <2>2. Settled(d)' = ms
        BY <1>18, <2>1 DEF Settled
    <2>3. Settled(d) = ms \ ns
        BY <1>1, <1>3 DEF Settled, Busy
    <2> QED BY <1>1, <1>4, <1>18, <2>1, <2>2, <2>3 DEF Row, Busy, Active
<1>21. B \subseteq {Bucket(m) : m \in ms \ ns} /\ B \cup D \subseteq {Bucket(m) : m \in ms}
    <2>1. BucketsOnDisk(f) \subseteq {Bucket(m) : m \in Settled(d)}
        BY <1>2, <1>3, <1>4 DEF DatasetsSound
    <2> QED BY <1>7, <1>8, <1>20, <2>1
<1>22. /\ DatasetsSound' /\ RequestsSound' /\ Open' = Open
       /\ \A c \in DOMAIN datasets \ {d} : disk'[c] = disk[c]
    <2>1. OnDisk(d) \subseteq MinutesOf(M1(g))
        BY <1>3, <1>5, <1>11
    <2>2. BucketsOnDisk(g) \subseteq {Bucket(m) : m \in Settled(d)'}
        BY <1>11, <1>20, <1>21
    <2>3. BucketsOnDisk(disk[d]) \subseteq BucketsOnDisk(g)
        BY <1>3, <1>8, <1>11
    <2> QED BY <1>1, <1>2, <1>4, <1>9, <1>11, <1>19, <2>1, <2>2, <2>3, GrowKeeps
<1>23. TickSound'
    <2>1. RowSound(worker.ds, disk[worker.d])'
        BY <1>17, <1>18, <1>19
    <2>2. AppendSound'
        BY <1>6, <1>18, <1>20, <1>22, <2>1 DEF AppendSound
    <2> QED BY <1>18, <2>2 DEF TickSound
\* Without a fault: a completed bucket that is not on disk has a new minute.
<1>24. faults' = 0 => DatasetsExact'
    <2> SUFFICES ASSUME faults = 0 PROVE DatasetsExact'
        BY <1>1
    <2>1. DatasetsExact
        BY DEF Core
    <2>2. /\ RowExact(w.ds, f)
          /\ {r.b : r \in ResampledCompleted(ms \ ns)} \subseteq B
        <3>1. /\ RowExact(Row(d), disk[d])
              /\ {r.b : r \in ResampledCompleted(Settled(d))} \subseteq BucketsOnDisk(disk[d])
            BY <1>4, <2>1 DEF DatasetsExact
        <3> QED BY <1>3, <1>4, <1>8, <1>20, <3>1
    <2>3. ASSUME NEW m \in ms, MinutesIn(Bucket(m)) \subseteq ms, Bucket(m) \notin B
          PROVE  Bucket(m) \in D /\ end <= Bucket(m)
        <3>1. m \in Minutes /\ m \in MinutesIn(Bucket(m)) /\ ms \ ns \in SUBSET Minutes
            BY <1>5, BucketOfMinute
        <3>2. PICK k \in ns : k \in MinutesIn(Bucket(m))
            <4>1. CASE MinutesIn(Bucket(m)) \subseteq ms \ ns
                <5>1. m \in ms \ ns
                    BY <3>1, <4>1
                <5>2. Bucket(m) \in {r.b : r \in ResampledCompleted(ms \ ns)}
                    BY <3>1, <4>1, <5>1, ResampledFacts
                <5> QED BY <2>2, <2>3, <5>2
            <4>2. CASE ~(MinutesIn(Bucket(m)) \subseteq ms \ ns)
                BY <2>3, <4>2
            <4> QED BY <4>1, <4>2
        <3>3. Bucket(k) = Bucket(m)
            BY <1>4, <3>1, <3>2, BucketOfMember
        <3> QED BY <1>7, <1>8, <2>3, <3>3
    <2>4. {r.b : r \in ResampledCompleted(ms)} \subseteq B \cup D
        <3>1. ASSUME NEW r \in ResampledCompleted(ms) PROVE r.b \in B \cup D
            <4>1. MinutesIn(r.b) \subseteq ms /\ r.b \in {Bucket(m) : m \in ms}
                BY <1>5, ResampledFacts
            <4> QED BY <2>3, <4>1
        <3> QED BY <3>1
    <2>5. \A b \in D : b <= end => b \in B
        <3>1. ASSUME NEW b \in D, b <= end, b \notin B PROVE FALSE
            <4>1. PICK r \in ds : b = r.b
                BY <1>8
            <4>2. MinutesIn(b) \subseteq ms /\ b \in {Bucket(m) : m \in ms}
                BY <1>7, <4>1
            <4>3. end <= b /\ b \in Minutes
                BY <1>10, <2>3, <3>1, <4>2
            <4>4. b = end
                BY <1>10, <3>1, <4>3 DEF Minutes
            <4>5. end \in B
                BY <1>3, <1>6, <1>8 DEF RowSound
            <4> QED BY <3>1, <4>4, <4>5
        <3> QED BY <3>1
    <2>6. (\A b \in B : b <= end) /\ w.ds.m1Rows = Cardinality(ms) /\ (\A m \in ms : m <= w.ds.m1End)
          /\ w.ds.htfRows = Cardinality(B)
        BY <1>3, <1>5, <1>8, <2>2 DEF RowExact
    <2>7. A = B /\ B \cup D = A \cup N
        <3>1. A = B
            BY <1>15, <2>6
        <3>2. ASSUME NEW b \in D PROVE b \in A \cup N
            <4>1. b <= end \/ b > end
                BY <1>10 DEF Minutes
            <4> QED BY <1>8, <2>5, <3>1, <4>1
        <3> QED BY <1>8, <3>1, <3>2
    <2>8. RowExact(row, g)
        <3>1. row.htfRows = Cardinality(BucketsOnDisk(g))
            BY <1>11, <1>14, <1>16, <2>6, <2>7
        <3>2. \A b \in BucketsOnDisk(g) : b <= row.htfEnd
            <4>1. ASSUME NEW b \in A \cup N PROVE b <= last
                <5>1. b \in C
                    BY <1>16
                <5> QED BY <1>15, <5>1
            <4> QED BY <1>11, <1>14, <2>7, <4>1
        <3> QED BY <1>5, <1>11, <1>14, <2>6, <3>1, <3>2 DEF RowExact
    <2>9. {r.b : r \in ResampledCompleted(Settled(d)')} \subseteq BucketsOnDisk(g)
        BY <1>11, <1>20, <2>4
    <2>10. RowExact(Row(d)', g)
        BY <1>20, <2>8
    <2> QED BY <1>1, <1>4, <1>19, <1>22, <2>1, <2>9, <2>10, GrowExact
<1>25. TypeOK' /\ UpToDateMeansNoOpenRequest'
    BY <1>1, <1>2, <1>22 DEF TypeOK, UpToDateMeansNoOpenRequest
<1> QED BY <1>22, <1>23, <1>24, <1>25 DEF Core

\* A tick ends, with or without its row: what is on disk is sound with both.
LEMMA EndTick ==
    ASSUME Core, UNCHANGED <<traded, requests, csv, export, disk>>, worker' = None,
           \/ datasets' = datasets
           \/ /\ worker # None /\ worker.pc # "COMMIT_REQUEST"
              /\ datasets' = [datasets EXCEPT ![worker.d] = worker.ds]
    PROVE  /\ DatasetsSound' /\ TickSound' /\ DOMAIN datasets' = DOMAIN datasets
           /\ \A id, from : RequestSound(id, from) => RequestSound(id, from)'
<1>1. DatasetsSound
    BY DEF Core
<1>2. ASSUME NEW d \in DOMAIN datasets
      PROVE  \/ datasets'[d] = datasets[d]
             \/ /\ worker # None /\ worker.pc # "COMMIT_REQUEST" /\ d = worker.d
                /\ datasets'[d] = worker.ds
    OBVIOUS
<1>3. ASSUME NEW d \in DOMAIN datasets
      PROVE  RowSound(datasets[d], disk[d])'
    <2>1. CASE datasets'[d] = datasets[d]
        BY <1>1, <2>1 DEF DatasetsSound, RowSound
    <2>2. CASE worker # None /\ worker.pc # "COMMIT_REQUEST" /\ d = worker.d /\ datasets'[d] = worker.ds
        <3>1. PICK row, f : row = worker.ds /\ f = disk[d]
            OBVIOUS
        <3>2. RowSound(row, f)
            BY <2>2, <3>1, AppendFacts DEF AppendSound
        <3> QED BY <2>2, <3>1, <3>2
    <2> QED BY <1>2, <2>1, <2>2
<1>4. DOMAIN datasets' = DOMAIN datasets /\ datasets' \in Seq(DatasetRows) /\ Len(datasets') = Len(datasets)
    <2>1. CASE datasets' = datasets
        BY <1>1, <2>1 DEF DatasetsSound
    <2>2. CASE /\ worker # None /\ worker.pc # "COMMIT_REQUEST"
               /\ datasets' = [datasets EXCEPT ![worker.d] = worker.ds]
        <3>1. PICK d, row : d = worker.d /\ row = worker.ds
            OBVIOUS
        <3>2. d \in DOMAIN datasets /\ row \in DatasetRows
            BY <2>2, <3>1, AppendFacts
        <3>3. datasets \in Seq(DatasetRows) /\ d \in 1 .. Len(datasets) /\ datasets' = [datasets EXCEPT ![d] = row]
            BY <1>1, <2>2, <3>1, <3>2 DEF DatasetsSound
        <3>4. DOMAIN datasets' = DOMAIN datasets
            BY <3>3
        <3>5. datasets' \in Seq(DatasetRows) /\ Len(datasets') = Len(datasets)
            BY <3>2, <3>3
        <3> QED BY <3>4, <3>5
    <2> QED BY <2>1, <2>2
<1>5. ASSUME NEW d \in DOMAIN datasets
      PROVE  BucketsOnDisk(disk'[d]) \subseteq {Bucket(m) : m \in Settled(d)'}
    <2>1. PICK ms, ns : ms = Settled(d) /\ ns = OnDisk(d)
        OBVIOUS
    <2>2. ms \subseteq ns /\ BucketsOnDisk(disk[d]) \subseteq {Bucket(m) : m \in ms}
        BY <1>1, <2>1 DEF Settled, DatasetsSound
    <2>3. Settled(d)' = ns
        BY <2>1 DEF Settled, Busy, OnDisk
    <2> QED BY <2>2, <2>3
<1>6. DatasetsSound'
    <2>1. ASSUME NEW d \in DOMAIN datasets PROVE FilesSound(disk[d])'
        <3>1. FilesSound(disk[d])
            BY <1>1 DEF DatasetsSound
        <3> QED BY <3>1 DEF FilesSound
    <2>2. disk' \in Seq(Files) /\ Len(disk') = Len(datasets') /\ Len(datasets') \in 1 .. MaxDatasets
        BY <1>1, <1>4 DEF DatasetsSound
    <2> QED BY <1>3, <1>4, <1>5, <2>1, <2>2 DEF DatasetsSound
<1>7. ASSUME NEW id, NEW from, RequestSound(id, from) PROVE RequestSound(id, from)'
    <2>1. PICK k : k = Max(OnDisk(Active)) /\ k = (Max(OnDisk(Active)))'
        BY <1>4 DEF Active, OnDisk
    <2>2. k \in Int
        <3>1. Max(OnDisk(Active)) \in Minutes
            BY <1>1, ActiveIsDataset, DatasetFacts
        <3>2. k \in Minutes
            BY <2>1, <3>1
        <3> QED BY <3>2 DEF Minutes
    <2> QED BY <1>7, <2>1, <2>2, RequestFrame
<1> QED BY <1>4, <1>6, <1>7 DEF TickSound

LEMMA CommitAppendKeeps ==
    ASSUME Core, CommitAppend
    PROVE  Core'
<1>1. /\ UNCHANGED <<traded, now, revised, requests, csv, manifest, export, disk, scheduler, faults, refilled>>
      /\ worker # None /\ worker.pc = "COMMIT" /\ worker' = None
      /\ datasets' = [datasets EXCEPT ![worker.d] = worker.ds]
    BY DEF CommitAppend, Appending, OnlyAppend, marketVars, collectorVars
<1>2. TypeOK /\ RequestsSound /\ DatasetsSound
    BY DEF Core
<1>3. PICK w, i, end : w = worker /\ i = w.id /\ end = w.ds.m1End
    OBVIOUS
<1>4. /\ jobs' = [jobs EXCEPT ![i].status = "COMPLETED"]
      /\ state' = [status |-> "UP_TO_DATE", latest |-> end, error |-> None]
    BY <1>3 DEF CommitAppend, Finished
<1>5. /\ w \in [pc : {"MIGRATE", "M1", "HTF", "COMMIT"}, trigger : Schedulers, id : Ids,
                d : Nat, ds : DatasetRows, novel : BarSets, combined : SUBSET Minutes]
      /\ w.d \in DOMAIN datasets /\ Row(w.d) = w.ds /\ \A e : e # w.d => ~Busy(e)
      /\ i \in Open
    BY <1>1, <1>3, AppendFacts DEF AppendSound
<1>6. jobs[i] \in Jobs /\ i \in Ids
    BY <1>2, <1>5 DEF TypeOK, Open
<1>7. /\ jobs' \in [Ids -> Jobs \cup {None}] /\ jobs'[i].status = "COMPLETED"
      /\ \A j \in Ids \ {i} : jobs'[j] = jobs[j]
    BY <1>2, <1>4, <1>6 DEF TypeOK, Jobs
<1>8. Open' = {}
    <2>1. \A j \in Open : j = i
        BY <1>2, <1>5 DEF RequestsSound
    <2> QED BY <1>7, <2>1 DEF Open
<1>9. TypeOK'
    <2>1. end \in Nat
        BY <1>3, <1>5 DEF DatasetRows, Minutes
    <2>2. state' \in States
        BY <1>4, <2>1 DEF States
    <2> QED BY <1>1, <1>2, <1>7, <2>2 DEF TypeOK
<1>10. DatasetsSound' /\ TickSound' /\ DOMAIN datasets' = DOMAIN datasets
    BY <1>1, EndTick
<1>11. RequestsSound' /\ UpToDateMeansNoOpenRequest'
    BY <1>1, <1>2, <1>8 DEF RequestsSound, UpToDateMeansNoOpenRequest
<1>12. faults' = 0 => DatasetsExact'
    <2>1. ASSUME NEW e \in DOMAIN datasets
          PROVE  Settled(e)' = Settled(e) /\ Row(e)' = Row(e)
        <3>1. Settled(e)' = Settled(e)
            BY <1>1 DEF Settled, Busy, OnDisk
        <3>2. Row(e)' = datasets'[e]
            BY <1>1 DEF Row, Busy
        <3>3. CASE e = w.d
            BY <1>1, <1>3, <1>5, <3>1, <3>2, <3>3
        <3>4. CASE e # w.d
            <4>1. datasets'[e] = datasets[e]
                BY <1>1, <1>3, <1>5, <3>4
            <4>2. Row(e) = datasets[e]
                BY <1>5, <3>4 DEF Row
            <4> QED BY <3>1, <3>2, <4>1, <4>2
        <3> QED BY <3>3, <3>4
    <2> QED BY <1>1, <1>10, <2>1, ExactFrame DEF Core
<1> QED BY <1>9, <1>10, <1>11, <1>12 DEF Core

\* A tick that is cut off; what it wrote stays on disk.
LEMMA CutOffKeeps ==
    ASSUME Core, WriteFails \/ Restart
    PROVE  Core'
<1>1. /\ UNCHANGED <<traded, now, revised, requests, csv, manifest, export, disk, jobs, refilled>>
      /\ worker' = None
    BY DEF WriteFails, Restart, marketVars, collectorVars, rows
<1>2. TypeOK /\ RequestsSound /\ DatasetsSound /\ UpToDateMeansNoOpenRequest
    BY DEF Core
<1>3. /\ \/ datasets' = datasets
         \/ /\ worker # None /\ worker.pc # "COMMIT_REQUEST"
            /\ datasets' = [datasets EXCEPT ![worker.d] = worker.ds]
      /\ state' \in States /\ scheduler' \in {"RUNNING", "DEAD"}
      /\ state'.status = "UP_TO_DATE" => state.status = "UP_TO_DATE"
      /\ faults' \in 0 .. MaxFaults
      /\ faults' = 0 => faults = 0 /\ worker = None /\ UNCHANGED datasets
    <2>1. CASE WriteFails
        <3>1. worker # None /\ worker.pc \in {"M1", "HTF"} /\ faults < MaxFaults /\ faults' = faults + 1
            BY <2>1 DEF WriteFails, Appending
        <3>2. faults' \in 0 .. MaxFaults /\ faults' # 0
            BY <1>2, <3>1, SyncAssumption DEF TypeOK
        <3>3. CASE /\ datasets' = [datasets EXCEPT ![worker.d] = worker.ds]
                   /\ state' = [state EXCEPT !.status = "MT5_UNAVAILABLE", !.error = "WRITE_FAILED"]
                   /\ UNCHANGED scheduler
            <4>1. state' \in States /\ state'.status = "MT5_UNAVAILABLE"
                BY <1>2, <3>3 DEF TypeOK, States
            <4> QED BY <1>2, <3>1, <3>2, <3>3, <4>1 DEF TypeOK
        <3>4. CASE /\ scheduler' = (IF worker.trigger = "SCHEDULED" THEN "DEAD" ELSE scheduler)
                   /\ UNCHANGED <<datasets, state>>
            BY <1>2, <3>1, <3>2, <3>4 DEF TypeOK
        <3> QED BY <2>1, <3>3, <3>4 DEF WriteFails
    <2>2. CASE Restart
        <3>1. /\ UNCHANGED <<datasets, state>> /\ scheduler' = "RUNNING"
              /\ faults < MaxFaults \/ worker = None
              /\ faults' = IF worker = None THEN faults ELSE faults + 1
            BY <2>2 DEF Restart, rows
        <3>2. faults' \in 0 .. MaxFaults /\ (faults' = 0 => faults = 0 /\ worker = None)
            BY <1>2, <3>1, SyncAssumption DEF TypeOK
        <3> QED BY <1>2, <3>1, <3>2 DEF TypeOK
    <2> QED BY <2>1, <2>2
<1>4. /\ DatasetsSound' /\ TickSound'
      /\ \A id, from : RequestSound(id, from) => RequestSound(id, from)'
    BY <1>1, <1>3, EndTick
<1>5. TypeOK'
    BY <1>1, <1>2, <1>3 DEF TypeOK
<1>6. Open' = Open
    BY <1>1 DEF Open
<1>7. RequestsSound'
    <2>1. ASSUME NEW i \in Open PROVE RequestSound(i, jobs[i].from)'
        <3>1. PICK from : from = jobs[i].from /\ from = jobs'[i].from
            BY <1>1
        <3>2. RequestSound(i, from)
            BY <1>2, <3>1 DEF RequestsSound
        <3>3. RequestSound(i, from)'
            BY <1>4, <3>2
        <3> QED BY <3>1, <3>3
    <2> QED BY <1>1, <1>2, <1>6, <2>1 DEF RequestsSound
<1>8. UpToDateMeansNoOpenRequest'
    BY <1>2, <1>3, <1>6 DEF UpToDateMeansNoOpenRequest
<1>9. faults' = 0 => DatasetsExact'
    BY <1>1, <1>3, DataIdle
<1> QED BY <1>4, <1>5, <1>7, <1>8, <1>9 DEF Core

-----------------------------------------------------------------------------
(* A new dataset *)

LEMMA BootstrapKeeps ==
    ASSUME ~BootstrapAnytime, Core, NEW end \in Minutes, Bootstrap(end)
    PROVE  Core'
<1>1. /\ UNCHANGED <<traded, now, revised, requests, csv, manifest, export, jobs, worker, scheduler, faults, refilled>>
      /\ worker = None /\ Open = {} /\ end \in {BaseEnd, now}
    BY DEF Bootstrap, MayBootstrap, marketVars, collectorVars
<1>2. TypeOK /\ RequestsSound /\ DatasetsSound
    BY DEF Core
<1>3. PICK S, files, row, last : /\ S = traded \cap 1 .. end /\ files = BaseFiles(S) /\ row = NewDataset(S)
                                 /\ last = Max(S)
    OBVIOUS
<1>4. traded \in Sessions /\ BaseEnd <= end
    BY <1>1, <1>2, SyncAssumption DEF TypeOK
<1>5. /\ S \in SUBSET Minutes /\ S # {} /\ MinutesOf(M1(files)) = S
      /\ files \in Files /\ FilesSound(files) /\ RowSound(row, files)
      /\ BucketsOnDisk(files) = {Bucket(m) : m \in S} /\ RowExact(row, files)
    BY <1>3, <1>4, BaseSound
<1>6. state' \in States
    <2>1. last \in Nat
        BY <1>3, <1>5, MaxOfMinutes DEF Minutes
    <2>2. state' = [status |-> "UP_TO_DATE", latest |-> last, error |-> None]
        BY <1>3 DEF Bootstrap
    <2> QED BY <2>1, <2>2 DEF States
<1>7. TypeOK'
    BY <1>1, <1>2, <1>6 DEF TypeOK
<1>8. Open' = {}
    BY <1>1 DEF Open
<1>9. RequestsSound' /\ TickSound' /\ UpToDateMeansNoOpenRequest'
    BY <1>1, <1>2, <1>8 DEF RequestsSound, TickSound, UpToDateMeansNoOpenRequest
<1>10. CASE UNCHANGED <<datasets, disk>>
    <2>1. DatasetsSound' /\ (faults' = 0 => DatasetsExact')
        BY <1>1, <1>10, DataIdle
    <2> QED BY <1>7, <1>9, <2>1 DEF Core
<1>11. CASE /\ Len(datasets) < MaxDatasets
            /\ datasets' = Append(datasets, row) /\ disk' = Append(disk, files)
    <2>1. PICK n : n = Len(datasets)
        OBVIOUS
    <2>2. /\ datasets \in Seq(DatasetRows) /\ disk \in Seq(Files) /\ Len(disk) = n /\ n \in Nat
          /\ row \in DatasetRows
        BY <1>2, <1>5, <2>1 DEF DatasetsSound, RowSound
    <2>3. /\ datasets' \in Seq(DatasetRows) /\ disk' \in Seq(Files)
          /\ Len(disk') = n + 1 /\ Len(datasets') = n + 1 /\ n + 1 \in 1 .. MaxDatasets
        BY <1>5, <1>11, <2>1, <2>2, SyncAssumption
    <2>4. /\ DOMAIN datasets' = 1 .. n + 1 /\ DOMAIN datasets = 1 .. n
          /\ datasets'[n + 1] = row /\ disk'[n + 1] = files
          /\ \A d \in 1 .. n : datasets'[d] = datasets[d] /\ disk'[d] = disk[d]
        BY <1>11, <2>1, <2>2, <2>3
    <2>5. \A d : Settled(d)' = OnDisk(d)' /\ Settled(d) = OnDisk(d) /\ Row(d) = datasets[d] /\ Row(d)' = datasets'[d]
        BY <1>1 DEF Settled, Row, Busy
    <2>6. OnDisk(n + 1)' = S /\ \A d \in 1 .. n : OnDisk(d)' = OnDisk(d)
        BY <1>5, <2>4 DEF OnDisk
    <2>7. ASSUME NEW d \in 1 .. n + 1
          PROVE  /\ FilesSound(disk[d])' /\ RowSound(datasets[d], disk[d])'
                 /\ BucketsOnDisk(disk'[d]) \subseteq {Bucket(m) : m \in Settled(d)'}
        <3>1. CASE d = n + 1
            <4>1. FilesSound(files)'
                BY <1>1, <1>5 DEF FilesSound
            <4>2. Settled(d)' = S
                BY <2>5, <2>6, <3>1
            <4> QED BY <1>5, <2>4, <3>1, <4>1, <4>2
        <3>2. CASE d \in 1 .. n
            <4>1. disk'[d] = disk[d] /\ datasets'[d] = datasets[d]
                BY <2>4, <3>2
            <4>2. /\ FilesSound(disk[d]) /\ RowSound(datasets[d], disk[d])
                  /\ BucketsOnDisk(disk[d]) \subseteq {Bucket(m) : m \in Settled(d)}
                BY <1>2, <2>4, <3>2 DEF DatasetsSound
            <4>3. PICK ms : ms = Settled(d) /\ ms = Settled(d)'
                BY <2>5, <2>6, <3>2
            <4>4. BucketsOnDisk(disk'[d]) \subseteq {Bucket(m) : m \in ms}
                BY <4>1, <4>2, <4>3
            <4>5. FilesSound(disk[d])'
                BY <1>1, <4>1, <4>2 DEF FilesSound
            <4> QED BY <4>1, <4>2, <4>3, <4>4, <4>5
        <3> QED BY <2>2, <3>1, <3>2
    <2>8. DatasetsSound'
        BY <2>3, <2>4, <2>7 DEF DatasetsSound
    <2>9. ASSUME DatasetsExact PROVE DatasetsExact'
        <3>1. ASSUME NEW d \in 1 .. n + 1
              PROVE  /\ RowExact(Row(d)', disk'[d])
                     /\ {r.b : r \in ResampledCompleted(Settled(d)')} \subseteq BucketsOnDisk(disk'[d])
            <4>1. CASE d = n + 1
                <5>1. Row(d)' = row /\ Settled(d)' = S /\ disk'[d] = files
                    BY <2>4, <2>5, <2>6, <4>1
                <5>2. {r.b : r \in ResampledCompleted(S)} \subseteq BucketsOnDisk(files)
                    BY <1>5, ResampledFacts
                <5> QED BY <1>5, <5>1, <5>2
            <4>2. CASE d \in 1 .. n
                <5>1. PICK q, ms : q = Row(d) /\ ms = Settled(d) /\ q = Row(d)' /\ ms = Settled(d)'
                    BY <2>4, <2>5, <2>6, <4>2
                <5>2. RowExact(q, disk[d]) /\ {r.b : r \in ResampledCompleted(ms)} \subseteq BucketsOnDisk(disk[d])
                    BY <2>4, <2>9, <4>2, <5>1 DEF DatasetsExact
                <5> QED BY <2>4, <4>2, <5>1, <5>2
            <4> QED BY <2>2, <4>1, <4>2
        <3> QED BY <2>4, <3>1 DEF DatasetsExact
    <2> QED BY <1>1, <1>7, <1>9, <2>8, <2>9 DEF Core
<1> QED BY <1>3, <1>10, <1>11 DEF Bootstrap

-----------------------------------------------------------------------------
(* What every step keeps *)

\* The part of RegistryInv that the replacement of a fragment leaves alone.
Base == TypeOK /\ UpToDateMeansNoOpenRequest /\ Kept

LEMMA KeptFacts ==
    ASSUME FilesKept, NEW d \in DOMAIN datasets
    PROVE  /\ datasets[d] \in DatasetRows /\ datasets[d].m1End \in Minutes
           /\ disk[d] \in Files /\ HtfSound(disk[d]) /\ disk[d].m1[0] # {}
           /\ OnDisk(d) \in SUBSET Minutes /\ OnDisk(d) # {} /\ OnDisk(d) \subseteq traded
           /\ Max(OnDisk(d)) \in OnDisk(d) /\ Max(OnDisk(d)) \in Minutes
           /\ \A y \in OnDisk(d) : y <= Max(OnDisk(d))
           /\ \A i \in Frags : MinutesOf(disk[d].m1[i]) \subseteq OnDisk(d)
<1>1. /\ datasets[d] \in DatasetRows /\ disk[d] \in Files
      /\ HtfSound(disk[d]) /\ OnDisk(d) \subseteq traded /\ disk[d].m1[0] # {}
    BY DEF FilesKept
<1>2. OnDisk(d) \in SUBSET Minutes /\ \A i \in Frags : MinutesOf(disk[d].m1[i]) \subseteq OnDisk(d)
    BY <1>1, BarsOfFiles DEF OnDisk
<1>3. OnDisk(d) # {}
    <2>1. 0 \in Frags
        BY SyncAssumption DEF Frags
    <2>2. MinutesOf(disk[d].m1[0]) # {}
        BY <1>1 DEF MinutesOf
    <2> QED BY <1>2, <2>1, <2>2
<1>4. datasets[d].m1End \in Minutes
    BY <1>1 DEF DatasetRows
<1> QED BY <1>1, <1>2, <1>3, <1>4, MaxOfMinutes

LEMMA ActiveKept ==
    ASSUME FilesKept
    PROVE  Active \in DOMAIN datasets /\ DOMAIN disk = DOMAIN datasets
BY DEF FilesKept, Active

LEMMA FilesSame ==
    ASSUME FilesKept, UNCHANGED <<traded, datasets, disk>>
    PROVE  FilesKept'
BY DEF FilesKept, OnDisk

\* What is covered stays covered: the minutes on disk and the replaced ones only grow.
LEMMA CoveredStep ==
    ASSUME NEW t, Covered(t), traded' = traded,
           OnDisk(Active) \cup Replaced \subseteq (OnDisk(Active) \cup Replaced)'
    PROVE  Covered(t)'
BY DEF Covered

LEMMA CoveredBelow ==
    ASSUME TypeOK, NEW t \in Int, NEW u \in Int, Covered(u), t <= u
    PROVE  Covered(t)
<1>1. \A m \in traded : m \in Int
    BY SyncAssumption DEF TypeOK
<1> QED BY <1>1 DEF Covered

LEMMA RequestStep ==
    ASSUME NEW id, NEW from, RequestKept(id, from), traded' = traded,
           OnDisk(Active) \cup Replaced \subseteq (OnDisk(Active) \cup Replaced)',
           datasets[Active].m1End \in Int, (datasets[Active].m1End)' \in Int,
           datasets[Active].m1End <= (datasets[Active].m1End)',
           \A r \in requests' : r.id = id => r \in requests, csv'[id] = csv[id]
    PROVE  RequestKept(id, from)'
<1>1. PICK t, k, l : t = from - 1 /\ k = datasets[Active].m1End /\ l = (datasets[Active].m1End)'
    OBVIOUS
<1>2. /\ from \in Nat \ {0} /\ Covered(t) /\ t <= k /\ \A r \in requests : r.id = id => r.from = from
      /\ csv[id] # None => \E u \in Minutes : MinutesOf(csv[id]) = traded \cap from .. u
    BY <1>1 DEF RequestKept
<1>3. Covered(t)'
    BY <1>2, CoveredStep
<1>4. t <= l
    BY <1>1, <1>2
<1> QED BY <1>1, <1>2, <1>3, <1>4 DEF RequestKept

\* Requests and the tick in progress, as bars and answers grow.
LEMMA RequestsGrow ==
    ASSUME FilesKept, RequestsKept, UNCHANGED <<traded, datasets, disk, jobs>>,
           OnDisk(Active) \cup Replaced \subseteq (OnDisk(Active) \cup Replaced)',
           \A id \in Ids : \A from : RequestKept(id, from) => RequestKept(id, from)'
    PROVE  RequestsKept' /\ Open' = Open
<1>1. Open' = Open /\ Open \subseteq Ids
    BY DEF Open
<1>2. ASSUME NEW i \in Open PROVE RequestKept(i, jobs[i].from)'
    <2>1. PICK from : from = jobs[i].from /\ from = jobs'[i].from
        OBVIOUS
    <2>2. RequestKept(i, from)'
        BY <1>1, <2>1 DEF RequestsKept
    <2> QED BY <2>1, <2>2
<1>3. Covered(Max(OnDisk(Active)))' /\ Covered(datasets[Active].m1End)'
    <2>1. PICK k, l : k = Max(OnDisk(Active)) /\ l = datasets[Active].m1End
        OBVIOUS
    <2>2. k = (Max(OnDisk(Active)))' /\ l = (datasets[Active].m1End)'
        BY <2>1 DEF OnDisk, Active
    <2>3. Covered(k) /\ Covered(l)
        BY <2>1 DEF RequestsKept
    <2>4. Covered(k)' /\ Covered(l)'
        BY <2>3, CoveredStep
    <2> QED BY <2>2, <2>4 DEF Covered
<1> QED BY <1>1, <1>2, <1>3 DEF RequestsKept

LEMMA TickGrows ==
    ASSUME RequestsKept, TickKept, UNCHANGED <<traded, datasets, disk, jobs, worker>>,
           OnDisk(Active) \cup Replaced \subseteq (OnDisk(Active) \cup Replaced)',
           \A i \in Ids : Known(i) => Known(i)',
           \A i \in Ids : csv[i] # None => MinutesOf(csv[i]) \subseteq MinutesOf(csv'[i]),
           \A id \in Ids : \A from : RequestKept(id, from) => RequestKept(id, from)'
    PROVE  TickKept'
<1> SUFFICES ASSUME worker # None
             PROVE  /\ worker \in Ticks
                    /\ IF worker.pc = "COMMIT_REQUEST"
                       THEN Open' = {} /\ jobs[worker.id] = None /\ RequestKept(worker.id, worker.from)'
                       ELSE AppendKept'
    BY DEF TickKept
<1>1. worker \in Ticks
    BY DEF TickKept
<1>2. Open' = Open
    BY DEF Open
<1>3. worker.id \in Ids
    BY <1>1 DEF Ticks, Requesting, AppendingTicks
<1>4. CASE worker.pc = "COMMIT_REQUEST"
    <2>1. PICK id, from : id = worker.id /\ from = worker.from
        OBVIOUS
    <2>2. Open = {} /\ jobs[id] = None /\ RequestKept(id, from)
        BY <1>4, <2>1 DEF TickKept
    <2>3. RequestKept(id, from)'
        BY <1>3, <2>1, <2>2
    <2> QED BY <1>1, <1>2, <1>4, <2>1, <2>2, <2>3
<1>5. CASE worker.pc # "COMMIT_REQUEST"
    <2>1. AppendKept
        BY <1>5 DEF TickKept
    <2>2. Known(worker.id)' /\ NovelMinutes \subseteq MinutesOf(csv'[worker.id])
        <3>1. Known(worker.id) /\ NovelMinutes \subseteq MinutesOf(csv[worker.id])
            BY <2>1 DEF AppendKept
        <3>2. csv[worker.id] # None
            BY <3>1 DEF Known
        <3> QED BY <1>3, <3>1, <3>2
    <2>3. PICK k : k = worker.ds.m1End
        OBVIOUS
    <2>4. Covered(k)'
        <3>1. Covered(k)
            BY <2>1, <2>3 DEF AppendKept
        <3> QED BY <3>1, CoveredStep
    <2>5. Covered(worker.ds.m1End)'
        BY <2>3, <2>4
    <2>6. AppendKept'
        BY <1>2, <2>1, <2>2, <2>5 DEF AppendKept, Active, NovelMinutes, OnDisk
    <2> QED BY <1>1, <1>5, <2>6
<1> QED BY <1>4, <1>5

\* The steps that leave bars and answers alone.
LEMMA RequestsSame ==
    ASSUME FilesKept, RequestsKept, UNCHANGED <<traded, csv, refilled, datasets, disk, jobs>>,
           requests' \subseteq requests
    PROVE  /\ RequestsKept' /\ Open' = Open
           /\ (OnDisk(Active) \cup Replaced)' = OnDisk(Active) \cup Replaced
           /\ \A id, from : RequestKept(id, from) => RequestKept(id, from)'
<1>1. (OnDisk(Active) \cup Replaced)' = OnDisk(Active) \cup Replaced
    BY DEF OnDisk, Active, Replaced
<1>2. (datasets[Active].m1End)' = datasets[Active].m1End /\ datasets[Active].m1End \in Int
    BY ActiveKept, KeptFacts DEF Active, Minutes
<1>3. ASSUME NEW id, NEW from, RequestKept(id, from) PROVE RequestKept(id, from)'
    <2>1. datasets[Active].m1End <= (datasets[Active].m1End)'
        BY <1>2
    <2> QED BY <1>1, <1>2, <1>3, <2>1, RequestStep
<1> QED BY <1>1, <1>3, RequestsGrow

LEMMA TickSame ==
    ASSUME FilesKept, RequestsKept, TickKept,
           UNCHANGED <<traded, csv, refilled, datasets, disk, jobs, worker>>, requests' \subseteq requests,
           \A i \in Ids : Known(i) => Known(i)'
    PROVE  TickKept'
<1>1. /\ (OnDisk(Active) \cup Replaced)' = OnDisk(Active) \cup Replaced
      /\ \A id, from : RequestKept(id, from) => RequestKept(id, from)'
    BY RequestsSame
<1> QED BY <1>1, TickGrows

\* The answers, when no bar, answer or request file changes and no row vanishes.
LEMMA AnswersSame ==
    ASSUME AnswersKept, UNCHANGED <<traded, requests, csv, manifest, export, refilled, disk>>,
           now \in Int, now' \in Int, now <= now', DOMAIN datasets' = DOMAIN datasets,
           \A i \in Ids : jobs[i] # None => jobs'[i] # None
    PROVE  AnswersKept'
<1>1. \A i : Known(i)' = Known(i)
    BY DEF Known
<1>2. ASSUME NEW i \in Ids, csv[i] # None PROVE MinutesOf(csv[i]) \subseteq traded \cap 1 .. now'
    <2>1. MinutesOf(csv[i]) \subseteq traded \cap 1 .. now
        BY <1>2 DEF AnswersKept
    <2> QED BY <2>1
<1> QED BY <1>1, <1>2 DEF AnswersKept

LEMMA BaseFacts ==
    ASSUME Base
    PROVE  /\ TypeOK /\ UpToDateMeansNoOpenRequest
           /\ FilesKept /\ AnswersKept /\ RequestsKept /\ TickKept
           /\ traded \in SUBSET Minutes /\ now \in Minutes /\ now \in Int
<1>1. TypeOK /\ UpToDateMeansNoOpenRequest /\ FilesKept /\ AnswersKept /\ RequestsKept /\ TickKept
    BY DEF Base, Kept
<1> QED BY <1>1, SyncAssumption DEF TypeOK, Minutes

LEMMA InitBase == Init => Base
<1> SUFFICES ASSUME Init PROVE Base
    OBVIOUS
<1>1. BaseEnd \in Minutes /\ BaseEnd <= BaseEnd /\ BaseEnd \in Nat /\ BaseEnd <= Horizon
    BY SyncAssumption DEF Minutes
<1>2. PICK S, files, row : S = traded \cap 1 .. BaseEnd /\ files = BaseFiles(S) /\ row = NewDataset(S)
    OBVIOUS
<1>3. /\ S \in SUBSET Minutes /\ S # {} /\ MinutesOf(M1(files)) = S
      /\ files \in Files /\ FilesSound(files) /\ RowSound(row, files)
    <2>1. traded \in Sessions
        BY DEF Init
    <2> QED BY <1>1, <1>2, <2>1, BaseSound
<1>4. datasets = <<row>> /\ disk = <<files>> /\ worker = None
    BY <1>2 DEF Init, Snapshot
<1>5. Open = {}
    BY DEF Init, Open
<1>6. TypeOK
    <2>1. traded \in Sessions /\ now \in BaseEnd .. Horizon /\ revised \subseteq Minutes
        BY <1>1, SyncAssumption DEF Init
    <2>2. /\ requests \subseteq Requests /\ csv \in [Ids -> BarSets \cup {None}]
          /\ manifest \in [Ids -> Manifests \cup {None}] /\ export = None
          /\ jobs \in [Ids -> Jobs \cup {None}]
        BY DEF Init
    <2>3. state \in States
        BY <1>1 DEF Init, States
    <2>4. scheduler \in {"RUNNING", "DEAD"} /\ faults \in 0 .. MaxFaults /\ refilled \subseteq Ids
        BY SyncAssumption DEF Init
    <2> QED BY <2>1, <2>2, <2>3, <2>4 DEF TypeOK
<1>7. Len(datasets) = 1 /\ Len(disk) = 1 /\ DOMAIN datasets = {1} /\ datasets[1] = row /\ disk[1] = files
    BY <1>4
<1>8. files.m1 = [i \in Frags |-> IF i = 0 THEN BarsOf(S) ELSE {}] /\ BarsOf(S) # {}
    BY <1>2, <1>3 DEF BaseFiles, BarsOf
<1>9. FilesKept
    <2>1. row \in DatasetRows /\ HtfSound(files)
        BY <1>3 DEF RowSound, FilesSound
    <2>2. datasets \in Seq(DatasetRows) /\ disk \in Seq(Files)
        BY <1>3, <1>4, <2>1
    <2>3. OnDisk(1) = S /\ files.m1[0] # {}
        BY <1>3, <1>7, <1>8, SyncAssumption DEF OnDisk, Frags
    <2>4. Len(disk) = Len(datasets) /\ Len(datasets) \in 1 .. MaxDatasets
        BY <1>7, SyncAssumption
    <2> QED BY <1>2, <1>7, <2>1, <2>2, <2>3, <2>4 DEF FilesKept
<1>10. AnswersKept
    <2>1. \A i \in Ids : i \in Frags /\ i # 0
        BY SyncAssumption DEF Ids, Frags
    <2> QED BY <1>7, <1>8, <2>1 DEF Init, AnswersKept
<1>11. RequestsKept
    <2>1. OnDisk(Active) = S /\ datasets[Active] = row
        BY <1>3, <1>7 DEF OnDisk, Active
    <2>2. Max(S) \in S /\ row.m1End \in S
        BY <1>3, MaxOfMinutes DEF RowSound
    <2>3. ASSUME NEW t \in S PROVE Covered(t)
        <3>1. \A m \in traded : m <= t => m \in S
            BY <1>1, <1>2, <1>6, SyncAssumption DEF TypeOK
        <3> QED BY <2>1, <3>1 DEF Covered
    <2> QED BY <1>5, <2>1, <2>2, <2>3 DEF RequestsKept
<1>12. TickKept /\ UpToDateMeansNoOpenRequest
    BY <1>4, <1>5 DEF TickKept, UpToDateMeansNoOpenRequest
<1> QED BY <1>6, <1>9, <1>10, <1>11, <1>12 DEF Base, Kept


-----------------------------------------------------------------------------
(* The market *)

\* The types, and that a tick says UP_TO_DATE only when it ends its request.
LEMMA MarketTypes ==
    ASSUME Base, MinutePasses \/ (\E m \in Minutes : Revise(m))
    PROVE  TypeOK' /\ UpToDateMeansNoOpenRequest' /\ now' \in Int /\ now <= now'
<1>1. UNCHANGED <<traded, requests, csv, manifest, export, datasets, disk, jobs, state, worker, scheduler, faults, refilled>>
    BY DEF MinutePasses, Revise, collectorVars, rows
<1>2. TypeOK /\ UpToDateMeansNoOpenRequest /\ FilesKept
    BY BaseFacts
<1>3. now' \in BaseEnd .. Horizon /\ revised' \subseteq Minutes /\ now' \in Int /\ now <= now'
    <2>1. now \in BaseEnd .. Horizon /\ revised \in SUBSET Minutes /\ faults \in Nat /\ now \in Int
        BY <1>2, SyncAssumption DEF TypeOK
    <2>2. Cardinality(revised) \in Nat
        BY <2>1, MinuteSetsFinite
    <2>3. Len(datasets) \in Nat /\ Len(datasets) >= 1
        BY <1>2 DEF FilesKept
    <2>4. CASE MinutePasses
        <3>1. now < Horizon - faults - Cardinality(revised) - (Len(datasets) - 1) /\ now' = now + 1 /\ revised' = revised
            BY <2>4 DEF MinutePasses
        <3>2. now + 1 <= Horizon
            BY <2>1, <2>2, <2>3, <3>1, SyncAssumption
        <3> QED BY <2>1, <3>1, <3>2, SyncAssumption
    <2>5. CASE \E m \in Minutes : Revise(m)
        BY <2>1, <2>5 DEF Revise
    <2> QED BY <2>4, <2>5
<1> QED BY <1>1, <1>2, <1>3 DEF TypeOK, UpToDateMeansNoOpenRequest, Open

LEMMA MarketKept ==
    ASSUME Base, MinutePasses \/ (\E m \in Minutes : Revise(m))
    PROVE  Base'
<1>1. UNCHANGED <<traded, requests, csv, manifest, export, datasets, disk, jobs, state, worker, scheduler, faults, refilled>>
    BY DEF MinutePasses, Revise, collectorVars, rows
<1>2. \A i : Known(i)' = Known(i)
    BY <1>1 DEF Known
<1>3. FilesKept' /\ AnswersKept' /\ RequestsKept' /\ TickKept'
    BY <1>1, <1>2, BaseFacts, MarketTypes, FilesSame, AnswersSame, RequestsSame, TickSame
<1> QED BY <1>3, MarketTypes DEF Base, Kept

LEMMA ExportCsvKept ==
    ASSUME Base, NEW r \in requests, ExportCsv(r)
    PROVE  Base'
<1>1. /\ UNCHANGED <<traded, now, revised, requests, manifest, datasets, disk, jobs, state, worker, scheduler, faults, refilled>>
      /\ export = None /\ now >= r.from
    BY DEF ExportCsv, marketVars, rows
<1>2. TypeOK /\ UpToDateMeansNoOpenRequest /\ FilesKept /\ AnswersKept /\ RequestsKept /\ TickKept
    BY BaseFacts
<1>3. r \in Requests /\ r.id \in Ids /\ r.from \in Nat /\ traded \in Sessions /\ now \in Minutes /\ traded \in SUBSET Minutes
    BY <1>2, SyncAssumption DEF TypeOK, Requests, Minutes
<1>4. PICK S, bars : S = traded \cap r.from .. now /\ bars = BarsOf(S)
    OBVIOUS
<1>5. csv' = [csv EXCEPT ![r.id] = bars] /\ export' = [req |-> r, bars |-> bars, pc |-> "MANIFEST"]
    BY <1>4 DEF ExportCsv
<1>6. bars \in BarSets /\ MinutesOf(bars) = S /\ bars # None
    <2>1. S \in SUBSET Minutes
        BY <1>3, <1>4
    <2>2. bars \in BarSets /\ MinutesOf(bars) = S
        BY <1>4, <2>1, BarsOfFacts
    <2> QED BY <2>2, NoneAssumption
<1>7. TypeOK' /\ UpToDateMeansNoOpenRequest'
    <2>1. csv' \in [Ids -> BarSets \cup {None}]
        BY <1>2, <1>3, <1>5, <1>6 DEF TypeOK
    <2>2. export' \in [req : Requests, bars : BarSets, pc : {"MANIFEST", "DELETE"}] \cup {None}
        BY <1>3, <1>5, <1>6
    <2> QED BY <1>1, <1>2, <2>1, <2>2 DEF TypeOK, UpToDateMeansNoOpenRequest, Open
<1>8. \A i \in Ids : i # r.id => csv'[i] = csv[i]
    BY <1>2, <1>5 DEF TypeOK
<1>9. csv'[r.id] = bars
    BY <1>2, <1>3, <1>5 DEF TypeOK
\* The new answer holds what the earlier one held.
<1>10. \A i \in Ids : csv[i] # None => csv'[i] # None /\ MinutesOf(csv[i]) \subseteq MinutesOf(csv'[i])
    <2>1. csv[r.id] # None => MinutesOf(csv[r.id]) \subseteq S
        <3>1. csv[r.id] # None => /\ MinutesOf(csv[r.id]) \subseteq traded \cap 1 .. now
                                  /\ \A m \in MinutesOf(csv[r.id]) : m >= r.from
            BY <1>2, <1>3 DEF AnswersKept
        <3> QED BY <1>3, <1>4, <3>1 DEF Minutes
    <2> QED BY <1>6, <1>8, <1>9, <2>1
<1>11. \A i \in Ids : Known(i) => Known(i)'
    <2>1. ASSUME NEW i \in Ids, Known(i) PROVE csv'[i] # {}
        <3>1. csv[i] # {} /\ csv[i] # None
            BY <2>1 DEF Known
        <3>2. MinutesOf(csv[i]) # {}
            BY <3>1 DEF MinutesOf
        <3>3. MinutesOf(csv'[i]) # {}
            BY <1>10, <3>1, <3>2
        <3> QED BY <3>3 DEF MinutesOf
    <2> QED BY <1>1, <1>10, <2>1 DEF Known
<1>12. AnswersKept'
    <2>1. ASSUME NEW i \in Ids, csv'[i] # None PROVE MinutesOf(csv'[i]) \subseteq traded \cap 1 .. now
        <3>1. S \subseteq traded \cap 1 .. now
            <4>1. r.from \in Nat \ {0} \/ r.from = 0
                BY <1>3
            <4> QED BY <1>3, <1>4 DEF Minutes
        <3> QED BY <1>2, <1>6, <1>8, <1>9, <2>1, <3>1 DEF AnswersKept
    <2>2. ASSUME NEW q \in requests, csv'[q.id] # None PROVE \A m \in MinutesOf(csv'[q.id]) : m >= q.from
        <3>1. q.id \in Ids
            BY <1>2 DEF TypeOK, Requests
        <3>2. CASE q.id = r.id
            <4>1. q = r
                BY <1>2, <3>2 DEF AnswersKept
            <4> QED BY <1>3, <1>4, <1>6, <1>9, <4>1 DEF Minutes
        <3>3. CASE q.id # r.id
            BY <1>2, <1>8, <2>2, <3>1, <3>3 DEF AnswersKept
        <3> QED BY <3>2, <3>3
    <2>3. \A q, s \in requests : q.id = s.id => q = s
        BY <1>2 DEF AnswersKept
    <2>4. export'.req \in requests /\ csv'[export'.req.id] # None /\ export'.bars = csv'[export'.req.id]
        BY <1>5, <1>6, <1>9
    <2>5. \A i \in refilled : Known(i)'
        BY <1>2, <1>11 DEF AnswersKept, TypeOK
    <2>6. ASSUME NEW d \in DOMAIN datasets, NEW i \in Ids, disk[d].m1[i] # {}
          PROVE  Known(i)' /\ jobs[i] # None /\ MinutesOf(disk[d].m1[i]) \subseteq MinutesOf(csv'[i])
        <3>1. Known(i) /\ jobs[i] # None /\ MinutesOf(disk[d].m1[i]) \subseteq MinutesOf(csv[i])
            BY <1>2, <2>6 DEF AnswersKept
        <3>2. csv[i] # None
            BY <3>1 DEF Known
        <3> QED BY <1>10, <1>11, <3>1, <3>2
    <2> QED BY <1>1, <2>1, <2>2, <2>3, <2>4, <2>5, <2>6 DEF AnswersKept
<1>13. OnDisk(Active) \cup Replaced \subseteq (OnDisk(Active) \cup Replaced)'
    <2>1. OnDisk(Active)' = OnDisk(Active)
        BY <1>1 DEF OnDisk, Active
    <2>2. \A i \in refilled : i \in Ids /\ csv[i] # None
        BY <1>2 DEF AnswersKept, TypeOK, Known
    <2>3. Replaced \subseteq Replaced'
        BY <1>1, <1>10, <2>2 DEF Replaced
    <2> QED BY <2>1, <2>3
<1>14. ASSUME NEW id \in Ids, NEW from, RequestKept(id, from)
       PROVE  RequestKept(id, from)'
    <2>1. PICK t, k : t = from - 1 /\ k = datasets[Active].m1End
        OBVIOUS
    <2>2. /\ from \in Nat \ {0} /\ Covered(t) /\ t <= k /\ \A q \in requests : q.id = id => q.from = from
          /\ csv[id] # None => \E u \in Minutes : MinutesOf(csv[id]) = traded \cap from .. u
        BY <1>14, <2>1 DEF RequestKept
    <2>3. Covered(t)' /\ (datasets[Active].m1End)' = k
        BY <1>1, <1>13, <2>1, <2>2, CoveredStep DEF Active
    <2>4. csv'[id] # None => \E u \in Minutes : MinutesOf(csv'[id]) = traded \cap from .. u
        <3>1. CASE id = r.id
            BY <1>3, <1>4, <1>6, <1>9, <2>2, <3>1
        <3>2. CASE id # r.id
            BY <1>8, <2>2, <3>2
        <3> QED BY <3>1, <3>2
    <2> QED BY <1>1, <2>1, <2>2, <2>3, <2>4 DEF RequestKept
<1>15. Open' = Open /\ Open \subseteq Ids
    BY <1>1 DEF Open
<1>16. RequestsKept'
    BY <1>1, <1>2, <1>13, <1>14, <1>15, RequestsGrow
<1>17. TickKept'
    BY <1>1, <1>2, <1>10, <1>11, <1>13, <1>14, <1>15, TickGrows
<1> QED BY <1>1, <1>2, <1>7, <1>12, <1>16, <1>17, FilesSame DEF Base, Kept


-----------------------------------------------------------------------------
(* The collector, requests and reports *)

LEMMA CollectorKept ==
    ASSUME Base, ExportManifest \/ DeleteRequest \/ TerminalRestart
    PROVE  Base'
<1>1. /\ UNCHANGED <<traded, now, revised, csv, datasets, disk, jobs, state, worker, scheduler, refilled>>
      /\ requests' \subseteq requests /\ export # None
    BY DEF ExportManifest, DeleteRequest, TerminalRestart, marketVars, rows
<1>2. /\ TypeOK /\ UpToDateMeansNoOpenRequest /\ FilesKept /\ AnswersKept /\ RequestsKept /\ TickKept
      /\ export \in [req : Requests, bars : BarSets, pc : {"MANIFEST", "DELETE"}]
    BY <1>1, BaseFacts DEF TypeOK
<1>3. /\ manifest' \in [Ids -> Manifests \cup {None}] /\ faults' \in 0 .. MaxFaults
      /\ export' \in [req : Requests, bars : BarSets, pc : {"MANIFEST", "DELETE"}] \cup {None}
      /\ export' # None => export'.pc # "MANIFEST" /\ export'.req = export.req /\ requests' = requests
      /\ \A i \in Ids : Known(i) => Known(i)'
    <2>1. CASE ExportManifest
        <3>1. PICK bars, first, id, n :
                  /\ bars = export.bars /\ id = export.req.id /\ n = Cardinality(bars)
                  /\ first = IF bars = {} THEN 0 ELSE Min(MinutesOf(bars))
            OBVIOUS
        <3>2. bars \in BarSets /\ id \in Ids
            BY <1>2, <3>1 DEF Requests
        <3>3. first \in Nat
            <4>1. CASE bars = {}
                BY <3>1, <4>1
            <4>2. CASE bars # {}
                <5>1. MinutesOf(bars) \in SUBSET Minutes /\ MinutesOf(bars) # {}
                    BY <3>2, <4>2 DEF MinutesOf, BarSets
                <5>2. Min(MinutesOf(bars)) \in Minutes
                    BY <5>1, MinOfMinutes
                <5> QED BY <3>1, <4>2, <5>2 DEF Minutes
            <4> QED BY <4>1, <4>2
        <3>4. n \in Nat /\ (bars # {} => n > 0)
            <4>1. IsFiniteSet(bars) /\ n \in Nat
                BY <3>1, <3>2, BarsFinite
            <4> QED BY <3>1, <4>1, FS_EmptySet
        <3>5. manifest' = [manifest EXCEPT ![id] = [rows |-> n, first |-> first]]
            BY <2>1, <3>1 DEF ExportManifest
        <3>6. [rows |-> n, first |-> first] \in Manifests
            BY <3>3, <3>4 DEF Manifests
        <3>7. manifest' \in [Ids -> Manifests \cup {None}]
            BY <1>2, <3>2, <3>5, <3>6 DEF TypeOK
        <3>8. export' = [export EXCEPT !.pc = "DELETE"] /\ requests' = requests /\ faults' = faults
            BY <2>1 DEF ExportManifest
        <3>9. /\ export' \in [req : Requests, bars : BarSets, pc : {"MANIFEST", "DELETE"}]
              /\ export'.req = export.req /\ export'.pc = "DELETE"
            BY <1>2, <3>8
        <3>10. ASSUME NEW i \in Ids, Known(i) PROVE Known(i)'
            <4>1. CASE i = id
                <5>1. bars = csv[i]
                    BY <1>1, <1>2, <2>1, <3>1, <4>1 DEF ExportManifest, AnswersKept
                <5>2. manifest'[i] # None /\ manifest'[i].rows = n
                    BY <1>2, <3>2, <3>5, <3>6, <4>1, NoneAssumption DEF TypeOK
                <5> QED BY <1>1, <3>4, <3>10, <5>1, <5>2 DEF Known
            <4>2. CASE i # id
                <5>1. manifest'[i] = manifest[i]
                    BY <1>2, <3>5, <4>2 DEF TypeOK
                <5> QED BY <1>1, <3>10, <5>1 DEF Known
            <4> QED BY <4>1, <4>2
        <3> QED BY <1>2, <3>7, <3>8, <3>9, <3>10 DEF TypeOK
    <2>2. CASE DeleteRequest
        BY <1>1, <1>2, <2>2 DEF DeleteRequest, TypeOK, Known
    <2>3. CASE TerminalRestart
        <3>1. export' = None /\ faults' = faults + 1 /\ faults < MaxFaults /\ manifest' = manifest
            BY <2>3 DEF TerminalRestart
        <3>2. faults' \in 0 .. MaxFaults
            BY <1>2, <3>1, SyncAssumption DEF TypeOK
        <3> QED BY <1>1, <1>2, <3>1, <3>2 DEF TypeOK, Known
    <2> QED BY <2>1, <2>2, <2>3
<1>4. TypeOK' /\ UpToDateMeansNoOpenRequest'
    BY <1>1, <1>2, <1>3 DEF TypeOK, UpToDateMeansNoOpenRequest, Open
<1>5. AnswersKept'
    <2>1. export' # None => export'.req \in requests' /\ csv'[export'.req.id] # None
                            /\ (export'.pc = "MANIFEST" => export'.bars = csv'[export'.req.id])
        BY <1>1, <1>2, <1>3 DEF AnswersKept
    <2>2. \A i \in refilled : Known(i)'
        BY <1>2, <1>3 DEF AnswersKept, TypeOK
    <2>3. \A d \in DOMAIN datasets, i \in Ids : disk[d].m1[i] # {} =>
             Known(i)' /\ jobs[i] # None /\ MinutesOf(disk[d].m1[i]) \subseteq MinutesOf(csv[i])
        BY <1>2, <1>3 DEF AnswersKept
    <2>4. /\ \A i \in Ids : csv[i] # None => MinutesOf(csv[i]) \subseteq traded \cap 1 .. now
          /\ \A r \in requests : csv[r.id] # None => \A m \in MinutesOf(csv[r.id]) : m >= r.from
          /\ \A r, q \in requests : r.id = q.id => r = q
        BY <1>2 DEF AnswersKept
    <2> QED BY <1>1, <2>1, <2>2, <2>3, <2>4 DEF AnswersKept
<1>6. FilesKept' /\ RequestsKept' /\ TickKept'
    BY <1>1, <1>2, <1>3, FilesSame, RequestsSame, TickSame
<1> QED BY <1>4, <1>5, <1>6 DEF Base, Kept

\* Ticks without new bars.
LEMMA WriteRequestKept ==
    ASSUME Base, NEW trigger \in Schedulers, NEW id \in Ids, WriteRequest(trigger, id)
    PROVE  Base'
<1>1. /\ UNCHANGED <<traded, now, revised, csv, manifest, export, datasets, disk, jobs, state, scheduler, faults, refilled>>
      /\ worker = None /\ Open = {} /\ id \notin Used
      /\ requests' = requests \cup {[id |-> id, from |-> RequestedFrom]}
      /\ worker' = [pc |-> "COMMIT_REQUEST", trigger |-> trigger, id |-> id, from |-> RequestedFrom]
    BY DEF WriteRequest, MayTick, marketVars, collectorVars, rows
<1>2. TypeOK /\ UpToDateMeansNoOpenRequest /\ FilesKept /\ AnswersKept /\ RequestsKept
    BY BaseFacts
<1>3. PICK from, e, q : from = RequestedFrom /\ e = datasets[Active].m1End /\ q = [id |-> id, from |-> from]
    OBVIOUS
<1>4. from = e + 1 /\ e \in Minutes /\ from \in Nat \ {0} /\ Covered(e)
    <2>1. e \in Minutes
        BY <1>2, <1>3, ActiveKept, KeptFacts
    <2>2. from = e + 1
        BY <1>3 DEF RequestedFrom
    <2> QED BY <1>2, <1>3, <2>1, <2>2 DEF Minutes, RequestsKept
<1>5. csv[id] = None /\ jobs[id] = None /\ \A r \in requests : r.id # id
    BY <1>1 DEF Used
<1>6. q \in Requests /\ requests' = requests \cup {q}
    BY <1>1, <1>3, <1>4 DEF Requests
<1>7. Open' = {}
    BY <1>1 DEF Open
<1>8. TypeOK' /\ UpToDateMeansNoOpenRequest'
    BY <1>1, <1>2, <1>6, <1>7 DEF TypeOK, UpToDateMeansNoOpenRequest
<1>9. AnswersKept'
    <2>1. \A i : Known(i)' = Known(i)
        BY <1>1 DEF Known
    <2>2. \A r \in requests' : csv[r.id] # None => \A m \in MinutesOf(csv[r.id]) : m >= r.from
        BY <1>2, <1>3, <1>5, <1>6 DEF AnswersKept
    <2>3. \A r, s \in requests' : r.id = s.id => r = s
        BY <1>2, <1>3, <1>5, <1>6 DEF AnswersKept
    <2>4. export # None => export.req \in requests' /\ csv[export.req.id] # None
                           /\ (export.pc = "MANIFEST" => export.bars = csv[export.req.id])
        BY <1>2, <1>6 DEF AnswersKept
    <2> QED BY <1>1, <1>2, <2>1, <2>2, <2>3, <2>4 DEF AnswersKept
<1>10. (OnDisk(Active) \cup Replaced)' = OnDisk(Active) \cup Replaced
    BY <1>1 DEF OnDisk, Active, Replaced
<1>11. RequestsKept'
    <2>1. PICK k : k = Max(OnDisk(Active)) /\ k = (Max(OnDisk(Active)))' /\ e = (datasets[Active].m1End)'
        BY <1>1, <1>3 DEF OnDisk, Active
    <2>2. Covered(k) /\ Covered(e)
        BY <1>2, <1>4, <2>1 DEF RequestsKept
    <2>3. Covered(k)' /\ Covered(e)'
        BY <1>1, <1>10, <2>2, CoveredStep
    <2> QED BY <1>7, <2>1, <2>3 DEF RequestsKept, Covered
<1>12. RequestKept(id, from)'
    <2>1. PICK t : t = from - 1
        OBVIOUS
    <2>2. t = e
        BY <1>4, <2>1 DEF Minutes
    <2>3. Covered(t)' /\ (datasets[Active].m1End)' = e
        BY <1>1, <1>3, <1>4, <1>10, <2>2, CoveredStep DEF Active
    <2>4. t <= (datasets[Active].m1End)'
        BY <1>4, <2>2, <2>3 DEF Minutes
    <2>5. \A r \in requests' : r.id = id => r.from = from
        BY <1>3, <1>5, <1>6
    <2> QED BY <1>1, <1>4, <1>5, <2>1, <2>3, <2>4, <2>5 DEF RequestKept
<1>13. TickKept'
    <2>1. worker' \in Ticks
        BY <1>1, <1>3, <1>4 DEF Ticks, Requesting, AppendingTicks
    <2>2. worker'.pc = "COMMIT_REQUEST" /\ worker'.id = id /\ worker'.from = from
        BY <1>1, <1>3
    <2> QED BY <1>1, <1>5, <1>7, <1>12, <2>1, <2>2 DEF TickKept
<1> QED BY <1>1, <1>2, <1>8, <1>9, <1>11, <1>13, FilesSame DEF Base, Kept

LEMMA CommitRequestKept ==
    ASSUME Base, CommitRequest
    PROVE  Base'
<1>1. /\ UNCHANGED <<traded, now, revised, requests, csv, manifest, export, datasets, disk, scheduler, faults, refilled>>
      /\ worker # None /\ worker.pc = "COMMIT_REQUEST" /\ worker' = None
    BY DEF CommitRequest, marketVars, collectorVars
<1>2. TypeOK /\ FilesKept /\ AnswersKept /\ RequestsKept /\ TickKept /\ now \in Int
    BY BaseFacts
<1>3. PICK id, from, job : id = worker.id /\ from = worker.from /\ job = [status |-> "REQUESTED", from |-> from]
    OBVIOUS
<1>4. jobs' = [jobs EXCEPT ![id] = job] /\ state' = [status |-> "SYNCING", latest |-> from - 1, error |-> None]
    BY <1>3 DEF CommitRequest
<1>5. worker \in Ticks /\ Open = {} /\ jobs[id] = None /\ RequestKept(id, from)
    BY <1>1, <1>2, <1>3 DEF TickKept
<1>6. id \in Ids /\ from \in Nat \ {0} /\ job \in Jobs
    <2>1. id \in Ids
        BY <1>1, <1>3, <1>5 DEF Ticks, Requesting, AppendingTicks
    <2>2. from \in Nat \ {0}
        BY <1>5 DEF RequestKept
    <2> QED BY <1>3, <2>1, <2>2 DEF Jobs
<1>7. jobs'[id] = job /\ \A i \in Ids \ {id} : jobs'[i] = jobs[i]
    BY <1>2, <1>4, <1>6 DEF TypeOK
<1>8. TypeOK' /\ UpToDateMeansNoOpenRequest'
    <2>1. jobs' \in [Ids -> Jobs \cup {None}]
        BY <1>2, <1>4, <1>6 DEF TypeOK
    <2>2. state' \in States /\ state'.status # "UP_TO_DATE"
        BY <1>4, <1>6 DEF States
    <2> QED BY <1>1, <1>2, <2>1, <2>2 DEF TypeOK, UpToDateMeansNoOpenRequest
<1>9. \A i \in Open' : i = id /\ jobs'[i].from = from
    BY <1>3, <1>5, <1>7 DEF Open
<1>10. AnswersKept'
    <2>1. DOMAIN datasets' = DOMAIN datasets /\ now <= now'
        BY <1>1, <1>2
    <2>2. \A i \in Ids : jobs[i] # None => jobs'[i] # None
        BY <1>5, <1>7
    <2> QED BY <1>1, <1>2, <2>1, <2>2, AnswersSame
<1>11. (OnDisk(Active) \cup Replaced)' = OnDisk(Active) \cup Replaced
    BY <1>1 DEF OnDisk, Active, Replaced
<1>12. RequestKept(id, from)'
    <2>1. (datasets[Active].m1End)' = datasets[Active].m1End /\ datasets[Active].m1End \in Int
        BY <1>1, <1>2, ActiveKept, KeptFacts DEF Active, Minutes
    <2>2. datasets[Active].m1End <= (datasets[Active].m1End)'
        BY <2>1
    <2> QED BY <1>1, <1>5, <1>11, <2>1, <2>2, RequestStep
<1>13. RequestsKept'
    <2>1. ASSUME NEW i \in Open' PROVE RequestKept(i, jobs[i].from)'
        <3>1. PICK f : f = jobs'[i].from
            OBVIOUS
        <3>2. i = id /\ f = from
            BY <1>9, <3>1
        <3> QED BY <1>12, <3>1, <3>2
    <2>2. Covered(Max(OnDisk(Active)))' /\ Covered(datasets[Active].m1End)'
        <3>1. PICK k, l : k = Max(OnDisk(Active)) /\ l = datasets[Active].m1End
            OBVIOUS
        <3>2. k = (Max(OnDisk(Active)))' /\ l = (datasets[Active].m1End)'
            BY <1>1, <3>1 DEF OnDisk, Active
        <3>3. Covered(k) /\ Covered(l)
            BY <1>2, <3>1 DEF RequestsKept
        <3>4. Covered(k)' /\ Covered(l)'
            BY <1>1, <1>11, <3>3, CoveredStep
        <3> QED BY <3>2, <3>4 DEF Covered
    <2> QED BY <1>9, <2>1, <2>2 DEF RequestsKept
<1>14. TickKept'
    BY <1>1 DEF TickKept
<1> QED BY <1>1, <1>2, <1>8, <1>10, <1>13, <1>14, FilesSame DEF Base, Kept

LEMMA ReportKept ==
    ASSUME Base, NEW trigger \in Schedulers,
           Await(trigger) \/ \E i \in Ids : ConsumeUnreadable(trigger, i)
    PROVE  Base'
<1>1. UNCHANGED <<traded, now, revised, requests, csv, manifest, export, datasets, disk, jobs, worker, faults, refilled>>
    BY DEF Await, ConsumeUnreadable, marketVars, collectorVars, rows
<1>2. TypeOK /\ UpToDateMeansNoOpenRequest /\ FilesKept /\ AnswersKept /\ RequestsKept /\ TickKept /\ now \in Int
    BY BaseFacts
<1>3. /\ state' \in States /\ scheduler' \in {"RUNNING", "DEAD"}
      /\ state'.status = "UP_TO_DATE" => state.status = "UP_TO_DATE"
    <2>1. CASE Await(trigger)
        <3>1. state' = [state EXCEPT !.status = "MT5_UNAVAILABLE", !.error = "NO_RESPONSE"] /\ scheduler' = scheduler
            BY <2>1 DEF Await
        <3>2. state' \in States /\ state'.status = "MT5_UNAVAILABLE"
            BY <1>2, <3>1 DEF TypeOK, States
        <3> QED BY <1>2, <3>1, <3>2 DEF TypeOK
    <2>2. CASE \E i \in Ids : ConsumeUnreadable(trigger, i)
        BY <1>2, <2>2 DEF ConsumeUnreadable, rows, TypeOK
    <2> QED BY <2>1, <2>2
<1>4. TypeOK' /\ UpToDateMeansNoOpenRequest'
    BY <1>1, <1>2, <1>3 DEF TypeOK, UpToDateMeansNoOpenRequest, Open
<1>5. AnswersKept'
    <2>1. now <= now' /\ requests' \subseteq requests
        BY <1>1, <1>2
    <2> QED BY <1>1, <1>2, <2>1, AnswersSame
<1>6. FilesKept' /\ RequestsKept' /\ TickKept'
    <2>1. requests' \subseteq requests /\ \A i \in Ids : Known(i) => Known(i)'
        BY <1>1 DEF Known
    <2> QED BY <1>1, <1>2, <2>1, FilesSame, RequestsSame, TickSame
<1> QED BY <1>4, <1>5, <1>6 DEF Base, Kept

LEMMA CloseKept ==
    ASSUME Base, NEW trigger \in Schedulers, NEW i \in Ids,
           ConsumeEmpty(trigger, i) \/ ConsumeRefused(trigger, i) \/ ConsumeKnown(trigger, i)
    PROVE  Base'
<1>1. /\ UNCHANGED <<traded, now, revised, requests, csv, manifest, export, datasets, disk, worker, scheduler, faults, refilled>>
      /\ worker = None /\ i \in Open
    BY DEF ConsumeEmpty, ConsumeRefused, ConsumeKnown, HasBars, MayTick, marketVars, collectorVars
<1>2. TypeOK /\ FilesKept /\ AnswersKept /\ RequestsKept /\ now \in Int
    BY BaseFacts
<1>3. PICK s \in {"COMPLETED", "FAILED"} : jobs' = [jobs EXCEPT ![i].status = s]
    BY DEF ConsumeEmpty, ConsumeRefused, ConsumeKnown, Finished
<1>4. jobs[i] \in Jobs
    BY <1>1, <1>2 DEF TypeOK, Open
<1>5. /\ jobs' \in [Ids -> Jobs \cup {None}] /\ jobs'[i] \in Jobs /\ jobs'[i].status = s
      /\ \A j \in Ids \ {i} : jobs'[j] = jobs[j]
    BY <1>2, <1>3, <1>4 DEF TypeOK, Jobs
<1>6. Open' = {}
    <2>1. \A j \in Open : j = i
        BY <1>1, <1>2 DEF RequestsKept
    <2> QED BY <1>5, <2>1 DEF Open
<1>7. state' \in States
    <2>1. CASE ConsumeRefused(trigger, i)
        BY <1>2, <2>1 DEF ConsumeRefused, TypeOK, States
    <2>2. CASE ConsumeEmpty(trigger, i) \/ ConsumeKnown(trigger, i)
        <3>1. PICK e : e = datasets[Active].m1End
            OBVIOUS
        <3>2. state' = [status |-> "UP_TO_DATE", latest |-> e, error |-> None]
            BY <2>2, <3>1 DEF ConsumeEmpty, ConsumeKnown, Finished
        <3>3. e \in Minutes
            BY <1>2, <3>1, ActiveKept, KeptFacts
        <3>4. e \in Nat
            BY <3>3 DEF Minutes
        <3> QED BY <3>2, <3>4 DEF States
    <2> QED BY <2>1, <2>2
<1>8. TypeOK' /\ UpToDateMeansNoOpenRequest'
    BY <1>1, <1>2, <1>5, <1>6, <1>7 DEF TypeOK, UpToDateMeansNoOpenRequest
<1>9. AnswersKept'
    <2>1. now <= now' /\ DOMAIN datasets' = DOMAIN datasets
        BY <1>1, <1>2
    <2>2. \A j \in Ids : jobs[j] # None => jobs'[j] # None
        BY <1>5, NoneAssumption
    <2> QED BY <1>1, <1>2, <2>1, <2>2, AnswersSame
<1>10. RequestsKept'
    <2>1. PICK k, l : k = Max(OnDisk(Active)) /\ l = datasets[Active].m1End
        OBVIOUS
    <2>2. k = (Max(OnDisk(Active)))' /\ l = (datasets[Active].m1End)'
        BY <1>1, <2>1 DEF OnDisk, Active
    <2>3. Covered(k) /\ Covered(l)
        BY <1>2, <2>1 DEF RequestsKept
    <2>4. (OnDisk(Active) \cup Replaced)' = OnDisk(Active) \cup Replaced
        BY <1>1 DEF OnDisk, Active, Replaced
    <2>5. Covered(k)' /\ Covered(l)'
        BY <1>1, <2>3, <2>4, CoveredStep
    <2> QED BY <1>6, <2>2, <2>5 DEF RequestsKept, Covered
<1>11. TickKept'
    BY <1>1 DEF TickKept
<1> QED BY <1>1, <1>2, <1>8, <1>9, <1>10, <1>11, FilesSame DEF Base, Kept


-----------------------------------------------------------------------------
(* A tick that appends, up to its files *)

\* The tick in progress, its dataset and its new bars.
LEMMA AppendingFacts ==
    ASSUME Base, worker # None, worker.pc # "COMMIT_REQUEST"
    PROVE  /\ worker \in [pc : {"MIGRATE", "M1", "HTF", "COMMIT"}, trigger : Schedulers, id : Ids,
                          d : Nat, ds : DatasetRows, novel : BarSets, combined : SUBSET Minutes]
           /\ AppendKept /\ worker.d = Active /\ worker.d \in DOMAIN datasets /\ worker.d \in DOMAIN disk
           /\ worker.id \in Ids /\ worker.id \in Frags /\ worker.id # 0 /\ worker.id > 0
           /\ NovelMinutes \in SUBSET Minutes /\ NovelMinutes # {}
<1>1. worker \in Ticks /\ AppendKept /\ FilesKept
    BY BaseFacts DEF TickKept
<1>2. worker \in [pc : {"MIGRATE", "M1", "HTF", "COMMIT"}, trigger : Schedulers, id : Ids,
                  d : Nat, ds : DatasetRows, novel : BarSets, combined : SUBSET Minutes]
    BY <1>1 DEF Ticks, Requesting, AppendingTicks
<1>3. worker.d = Active /\ worker.d \in DOMAIN datasets /\ worker.d \in DOMAIN disk
    BY <1>1, ActiveKept DEF AppendKept
<1>4. worker.id \in Ids /\ worker.id \in Frags /\ worker.id # 0 /\ worker.id > 0
    BY <1>2, SyncAssumption DEF Ids, Frags
<1>5. NovelMinutes \in SUBSET Minutes
    BY <1>2 DEF NovelMinutes, MinutesOf, BarSets
<1>6. NovelMinutes # {}
    BY <1>1 DEF AppendKept, NovelMinutes, MinutesOf
<1> QED BY <1>1, <1>2, <1>3, <1>4, <1>5, <1>6

\* The files of one dataset are written.
LEMMA FilesWritten ==
    ASSUME FilesKept, NEW d \in DOMAIN datasets, d = Active, NEW g \in Files,
           disk' = [disk EXCEPT ![d] = g], UNCHANGED <<traded, datasets>>,
           HtfSound(g), MinutesOf(M1(g)) \subseteq traded, g.m1[0] # {}
    PROVE  /\ FilesKept' /\ OnDisk(Active)' = MinutesOf(M1(g)) /\ Active' = d
           /\ disk'[d] = g /\ \A e \in DOMAIN datasets \ {d} : disk'[e] = disk[e]
<1>1. /\ datasets \in Seq(DatasetRows) /\ disk \in Seq(Files) /\ Len(disk) = Len(datasets)
      /\ Len(datasets) \in 1 .. MaxDatasets
    BY DEF FilesKept
<1>2. disk' \in Seq(Files) /\ Len(disk') = Len(disk)
    BY <1>1
<1>3. disk'[d] = g /\ \A e \in DOMAIN datasets \ {d} : disk'[e] = disk[e]
    BY <1>1
<1>4. Active' = d
    BY DEF Active
<1>5. ASSUME NEW e \in DOMAIN datasets
      PROVE  HtfSound(disk'[e]) /\ MinutesOf(M1(disk'[e])) \subseteq traded /\ disk'[e].m1[0] # {}
    BY <1>3 DEF FilesKept, OnDisk
<1>6. FilesKept'
    <2>1. \A e \in DOMAIN datasets : HtfSound(disk[e])'
        BY <1>5 DEF HtfSound
    <2> QED BY <1>1, <1>2, <1>5, <2>1 DEF FilesKept, OnDisk
<1> QED BY <1>3, <1>4, <1>6 DEF OnDisk

\* A step of the tick that leaves the M1 bars alone.
LEMMA SameBars ==
    ASSUME Base, worker # None, worker.pc # "COMMIT_REQUEST",
           UNCHANGED <<traded, now, revised, requests, csv, manifest, export, datasets, jobs, state, scheduler, faults, refilled>>,
           NEW g \in Files, disk' = [disk EXCEPT ![worker.d] = g],
           g.m1 = disk[worker.d].m1, HtfSound(g),
           worker' \in Ticks, worker'.pc \in {"M1", "COMMIT"}, worker'.pc = "M1" => worker.pc = "MIGRATE",
           worker'.id = worker.id, worker'.d = worker.d, worker'.novel = worker.novel,
           worker'.ds.m1End = worker.ds.m1End
    PROVE  Base'
<1>1. /\ TypeOK /\ UpToDateMeansNoOpenRequest /\ FilesKept /\ AnswersKept /\ RequestsKept
      /\ now \in Int
    BY BaseFacts
<1>2. PICK d, f : d = worker.d /\ f = disk[d]
    OBVIOUS
<1>3. AppendKept /\ d = Active /\ d \in DOMAIN datasets /\ d \in DOMAIN disk
    BY <1>2, AppendingFacts
<1>4. OnDisk(d) \subseteq traded /\ f.m1[0] # {} /\ M1(g) = M1(f)
    BY <1>1, <1>2, <1>3, KeptFacts DEF M1
<1>5. /\ FilesKept' /\ OnDisk(Active)' = OnDisk(d) /\ Active' = d
      /\ disk'[d] = g /\ \A e \in DOMAIN datasets \ {d} : disk'[e] = disk[e]
    BY <1>1, <1>2, <1>3, <1>4, FilesWritten DEF OnDisk
<1>6. TypeOK' /\ UpToDateMeansNoOpenRequest' /\ Open' = Open
    BY <1>1 DEF TypeOK, UpToDateMeansNoOpenRequest, Open
<1>7. \A i : Known(i)' = Known(i)
    BY DEF Known
<1>8. AnswersKept'
    <2>1. \A e \in DOMAIN datasets : disk'[e].m1 = disk[e].m1
        BY <1>2, <1>5
    <2> QED BY <1>1, <1>7, <2>1 DEF AnswersKept
<1>9. (OnDisk(Active) \cup Replaced)' = OnDisk(Active) \cup Replaced
    BY <1>3, <1>5 DEF Replaced
<1>10. PICK k, l : k = datasets[Active].m1End /\ l = worker.ds.m1End
    OBVIOUS
<1>11. k \in Int /\ (datasets[Active].m1End)' = k
    BY <1>1, <1>3, <1>5, <1>10, KeptFacts DEF Minutes
<1>12. ASSUME NEW id, NEW from, RequestKept(id, from) PROVE RequestKept(id, from)'
    <2>1. datasets[Active].m1End <= (datasets[Active].m1End)'
        BY <1>10, <1>11
    <2> QED BY <1>9, <1>10, <1>11, <1>12, <2>1, RequestStep
<1>13. RequestsKept'
    <2>1. ASSUME NEW i \in Open PROVE RequestKept(i, jobs[i].from)'
        <3>1. PICK from : from = jobs[i].from /\ from = jobs'[i].from
            OBVIOUS
        <3>2. RequestKept(i, from)'
            BY <1>1, <1>12, <3>1 DEF RequestsKept
        <3> QED BY <3>1, <3>2
    <2>2. Covered(Max(OnDisk(Active)))' /\ Covered(datasets[Active].m1End)'
        <3>1. PICK t : t = Max(OnDisk(Active)) /\ t = (Max(OnDisk(Active)))'
            BY <1>3, <1>5
        <3>2. Covered(k) /\ Covered(t)
            BY <1>1, <1>10, <3>1 DEF RequestsKept
        <3>3. Covered(k)' /\ Covered(t)'
            BY <1>9, <3>2, CoveredStep
        <3> QED BY <1>11, <3>1, <3>3 DEF Covered
    <2> QED BY <1>1, <1>6, <2>1, <2>2 DEF RequestsKept
<1>14. TickKept'
    <2>1. Covered(l)'
        <3>1. Covered(l)
            BY <1>3, <1>10 DEF AppendKept
        <3> QED BY <1>9, <3>1, CoveredStep
    <2>2. /\ worker.id \in Open /\ worker.novel # {} /\ Known(worker.id)
          /\ NovelMinutes \subseteq MinutesOf(csv[worker.id]) /\ k <= l
          /\ worker.pc = "MIGRATE" =>
               \E t \in Minutes : NovelMinutes = (traded \cap jobs[worker.id].from .. t) \ OnDisk(d)
        BY <1>2, <1>3, <1>10 DEF AppendKept
    <2>3. NovelMinutes' = NovelMinutes /\ OnDisk(d)' = OnDisk(d)
        BY <1>5 DEF NovelMinutes
    <2>4. PICK w : w = worker'
        OBVIOUS
    <2>5. Covered(w.ds.m1End)' /\ (datasets[Active].m1End)' <= w.ds.m1End
        BY <1>10, <1>11, <2>1, <2>2, <2>4
    <2>6. AppendKept'
        BY <1>2, <1>3, <1>5, <1>6, <1>7, <2>2, <2>3, <2>4, <2>5 DEF AppendKept
    <2> QED BY <2>6 DEF TickKept
<1> QED BY <1>5, <1>6, <1>8, <1>13, <1>14 DEF Base, Kept

LEMMA BeginAppendKept ==
    ASSUME Base, NEW trigger \in Schedulers, NEW i \in Ids, BeginAppend(trigger, i)
    PROVE  Base'
<1>1. /\ UNCHANGED <<traded, now, revised, requests, csv, manifest, export, datasets, disk, jobs, state, scheduler, faults, refilled>>
      /\ worker = None /\ i \in Open /\ csv[i] # None /\ manifest[i] # None /\ manifest[i].rows > 0
    BY DEF BeginAppend, HasBars, Answered, MayTick, marketVars, collectorVars, rows
<1>2. TypeOK /\ UpToDateMeansNoOpenRequest /\ FilesKept /\ AnswersKept /\ RequestsKept /\ TickKept /\ now \in Int
    BY BaseFacts
<1>3. PICK d, novel, row, bars, from :
          d = Active /\ bars = csv[i] /\ novel = Novel(bars, d) /\ row = datasets[d] /\ from = jobs[i].from
    OBVIOUS
<1>4. PICK pc \in {"MIGRATE", "M1"} :
          worker' = [pc |-> pc, trigger |-> trigger, id |-> i, d |-> d, ds |-> row, novel |-> novel,
                     combined |-> {}]
    BY <1>3 DEF BeginAppend
<1>5. novel # {} /\ bars # {} /\ novel \subseteq bars /\ bars \in BarSets
    BY <1>1, <1>2, <1>3 DEF BeginAppend, Novel, TypeOK
<1>6. /\ novel \in BarSets /\ MinutesOf(novel) \subseteq MinutesOf(bars)
      /\ MinutesOf(novel) = MinutesOf(bars) \ OnDisk(d)
    BY <1>3, <1>5 DEF BarSets, MinutesOf, Novel, OnDisk
<1>7. d \in DOMAIN datasets /\ d \in Nat /\ row \in DatasetRows /\ row.m1End \in Minutes
    BY <1>2, <1>3, ActiveKept, KeptFacts DEF FilesKept
<1>8. worker' \in Ticks
    BY <1>4, <1>6, <1>7 DEF Ticks, Requesting, AppendingTicks
<1>9. Known(i)
    BY <1>1, <1>3, <1>5 DEF Known
<1>10. \E t \in Minutes : MinutesOf(bars) = traded \cap from .. t
    <2>1. RequestKept(i, from)
        BY <1>1, <1>2, <1>3 DEF RequestsKept
    <2> QED BY <1>1, <1>3, <2>1 DEF RequestKept
<1>11. AnswersKept'
    <2>1. now <= now' /\ DOMAIN datasets' = DOMAIN datasets
        BY <1>1, <1>2
    <2> QED BY <1>1, <1>2, <2>1, AnswersSame
<1>12. RequestsKept' /\ Open' = Open /\ (OnDisk(Active) \cup Replaced)' = OnDisk(Active) \cup Replaced
    <2>1. requests' \subseteq requests
        BY <1>1
    <2> QED BY <1>1, <1>2, <2>1, RequestsSame
<1>13. TickKept'
    <2>1. PICK w, e : w = worker' /\ e = row.m1End
        OBVIOUS
    <2>2. w.pc = pc /\ w.id = i /\ w.d = d /\ w.ds = row /\ w.novel = novel
        BY <1>4, <2>1
    <2>3. NovelMinutes' = MinutesOf(novel) /\ OnDisk(d)' = OnDisk(d) /\ Active' = d
        BY <1>1, <1>3, <2>1, <2>2 DEF NovelMinutes, OnDisk, Active
    <2>4. Covered(e)' /\ e <= e
        <3>1. Covered(e)
            BY <1>2, <1>3, <2>1 DEF RequestsKept
        <3> QED BY <1>1, <1>7, <1>12, <2>1, <3>1, CoveredStep DEF Minutes
    <2>5. Known(i)'
        BY <1>1, <1>9 DEF Known
    <2>6. \E t \in Minutes : MinutesOf(novel) = (traded \cap from .. t) \ OnDisk(d)
        BY <1>6, <1>10
    <2>7. AppendKept'
        BY <1>1, <1>3, <1>5, <1>6, <1>12, <2>1, <2>2, <2>3, <2>4, <2>5, <2>6 DEF AppendKept
    <2> QED BY <1>8, <2>1, <2>2, <2>7 DEF TickKept
<1>14. TypeOK' /\ UpToDateMeansNoOpenRequest'
    BY <1>1, <1>2, <1>12 DEF TypeOK, UpToDateMeansNoOpenRequest
<1> QED BY <1>1, <1>2, <1>11, <1>12, <1>13, <1>14, FilesSame DEF Base, Kept

LEMMA MigrateKept ==
    ASSUME Base, Migrate
    PROVE  Base'
<1>1. /\ UNCHANGED <<traded, now, revised, requests, csv, manifest, export, datasets, jobs, state, scheduler, faults, refilled>>
      /\ worker # None /\ worker.pc = "MIGRATE"
      /\ disk' = [disk EXCEPT ![worker.d].base = "FRAGMENTS"]
      /\ worker' = [worker EXCEPT !.pc = "M1", !.ds.path = "FRAGMENTS"]
    BY DEF Migrate, Appending, OnlyAppend, marketVars, collectorVars, rows
<1>2. PICK w, d, f, g, row : /\ w = worker /\ d = w.d /\ f = disk[d] /\ g = [f EXCEPT !.base = "FRAGMENTS"]
                             /\ row = [w.ds EXCEPT !.path = "FRAGMENTS"]
    OBVIOUS
<1>3. /\ w \in [pc : {"MIGRATE", "M1", "HTF", "COMMIT"}, trigger : Schedulers, id : Ids,
                d : Nat, ds : DatasetRows, novel : BarSets, combined : SUBSET Minutes]
      /\ d \in DOMAIN datasets /\ d \in DOMAIN disk
    BY <1>1, <1>2, AppendingFacts
<1>4. worker' = [w EXCEPT !.pc = "M1", !.ds = row] /\ disk' = [disk EXCEPT ![d] = g]
    BY <1>1, <1>2, <1>3
<1>5. row \in DatasetRows /\ row.m1End = w.ds.m1End
    BY <1>2, <1>3 DEF DatasetRows
<1>6. worker' = [pc |-> "M1", trigger |-> w.trigger, id |-> w.id, d |-> w.d, ds |-> row, novel |-> w.novel, combined |-> w.combined]
    BY <1>3, <1>4
<1>7. worker' \in Ticks
    BY <1>3, <1>5, <1>6 DEF Ticks, Requesting, AppendingTicks
<1>8. f \in Files /\ HtfSound(f)
    BY <1>2, <1>3, KeptFacts, BaseFacts
<1>9. g \in Files /\ g.m1 = f.m1 /\ g.htf = f.htf
    BY <1>2, <1>8 DEF Files
<1>10. HtfSound(g)
    BY <1>8, <1>9 DEF HtfSound
<1> QED BY <1>1, <1>2, <1>4, <1>5, <1>6, <1>7, <1>9, <1>10, SameBars


-----------------------------------------------------------------------------
(* The files of a fragment, and the end of a tick *)

\* The M1 fragment: what it replaces was answered to its request, and what it
\* brings begins behind what is covered.
LEMMA WriteM1Kept ==
    ASSUME Base, WriteM1
    PROVE  Base' /\ worker' \in Ticks
<1>1. /\ UNCHANGED <<traded, now, revised, requests, csv, manifest, export, datasets, jobs, state, scheduler, faults>>
      /\ worker # None /\ worker.pc = "M1"
      /\ disk' = [disk EXCEPT ![worker.d].m1 = [disk[worker.d].m1 EXCEPT ![worker.id] = worker.novel]]
      /\ worker' = [worker EXCEPT !.pc = "HTF", !.combined = Combined,
                      !.ds.m1Rows = @ + Cardinality(worker.novel),
                      !.ds.m1End = Max({@, Max(MinutesOf(worker.novel))})]
      /\ refilled' = IF disk[worker.d].m1[worker.id] = {} THEN refilled ELSE refilled \cup {worker.id}
    BY DEF WriteM1, AppendM1, Appending, OnlyAppend, marketVars, collectorVars, rows
<1>2. /\ TypeOK /\ UpToDateMeansNoOpenRequest /\ FilesKept /\ AnswersKept /\ RequestsKept
      /\ traded \in SUBSET Minutes
    BY BaseFacts
<1>3. PICK w, d, f, id, ms, ns, n, x, y, e, cs, from :
          /\ w = worker /\ d = w.d /\ f = disk[d] /\ id = w.id /\ ms = OnDisk(d) /\ ns = MinutesOf(w.novel)
          /\ n = Cardinality(w.novel) /\ x = w.ds.m1End /\ y = Max(ns) /\ e = Max({x, y}) /\ cs = Combined
          /\ from = jobs[id].from
    OBVIOUS
<1>4. /\ w \in [pc : {"MIGRATE", "M1", "HTF", "COMMIT"}, trigger : Schedulers, id : Ids,
                d : Nat, ds : DatasetRows, novel : BarSets, combined : SUBSET Minutes]
      /\ d = Active /\ d \in DOMAIN datasets /\ d \in DOMAIN disk
      /\ id \in Ids /\ id \in Frags /\ id # 0 /\ ns \in SUBSET Minutes /\ ns # {}
    BY <1>1, <1>3, AppendingFacts DEF NovelMinutes
<1>5. /\ id \in Open /\ w.novel # {} /\ Known(id) /\ ns \subseteq MinutesOf(csv[id])
      /\ Covered(x) /\ datasets[d].m1End <= x
      /\ \E t \in Minutes : ns = (traded \cap from .. t) \ ms
    <2>1. AppendKept
        BY <1>1, AppendingFacts
    <2> QED BY <1>1, <1>3, <1>4, <2>1 DEF AppendKept, NovelMinutes
<1>6. /\ f \in Files /\ HtfSound(f) /\ f.m1[0] # {} /\ ms = MinutesOf(M1(f)) /\ ms \in SUBSET Minutes
      /\ ms \subseteq traded /\ datasets[d].m1End \in Minutes
    BY <1>2, <1>3, <1>4, KeptFacts DEF OnDisk
<1>7. /\ n \in Nat /\ x \in Minutes /\ y \in ns /\ y \in Minutes /\ e \in {x, y} /\ e \in Minutes /\ x <= e
    <2>1. n \in Nat
        BY <1>3, <1>4, BarsFinite
    <2>2. x \in Minutes /\ y \in ns /\ y \in Minutes
        BY <1>3, <1>4, MaxOfMinutes DEF DatasetRows
    <2>3. {x, y} \in SUBSET Minutes /\ {x, y} # {}
        BY <2>2
    <2> QED BY <1>3, <2>1, <2>2, <2>3, MaxOfMinutes
<1>8. PICK g, row : /\ g = [f EXCEPT !.m1 = [f.m1 EXCEPT ![id] = w.novel]]
                    /\ row = [w.ds EXCEPT !.m1Rows = w.ds.m1Rows + n, !.m1End = e]
    OBVIOUS
<1>9. disk' = [disk EXCEPT ![d] = g] /\ worker' = [w EXCEPT !.pc = "HTF", !.combined = cs, !.ds = row]
    <2>1. disk' = [disk EXCEPT ![d] = g]
        BY <1>1, <1>3, <1>4, <1>6, <1>8 DEF Files
    <2>2. worker' = [w EXCEPT !.pc = "HTF", !.combined = cs, !.ds = row]
        BY <1>1, <1>3, <1>4, <1>8 DEF DatasetRows
    <2> QED BY <2>1, <2>2
<1>10. /\ g \in Files /\ g.htf = f.htf /\ g.m1[id] = w.novel /\ \A i \in Frags \ {id} : g.m1[i] = f.m1[i]
    BY <1>4, <1>6, <1>8 DEF Files
\* The minutes on disk, before and after.
<1>11. PICK ls : ls = MinutesOf(f.m1[id])
    OBVIOUS
<1>12. PICK qs : qs = MinutesOf(M1(g))
    OBVIOUS
<1>13. ns \subseteq qs /\ ms \ ls \subseteq qs /\ qs \subseteq ms \cup ns
    <2>1. w.novel \subseteq M1(g)
        BY <1>4, <1>10 DEF M1
    <2>2. M1(f) \ f.m1[id] \subseteq M1(g)
        BY <1>10 DEF M1
    <2>3. M1(g) \subseteq M1(f) \cup w.novel
        BY <1>10 DEF M1
    <2> QED BY <1>3, <1>6, <1>11, <1>12, <2>1, <2>2, <2>3 DEF MinutesOf
<1>14. ns \subseteq traded
    <2>1. csv[id] # None
        BY <1>5 DEF Known
    <2> QED BY <1>2, <1>4, <1>5, <2>1 DEF AnswersKept
<1>15. /\ FilesKept' /\ OnDisk(Active)' = qs /\ Active' = d /\ OnDisk(d)' = qs
       /\ disk'[d] = g /\ \A c \in DOMAIN datasets \ {d} : disk'[c] = disk[c]
    <2>1. HtfSound(g)
        BY <1>6, <1>10 DEF HtfSound
    <2>2. 0 \in Frags
        BY SyncAssumption DEF Frags
    <2>3. MinutesOf(M1(g)) \subseteq traded /\ g.m1[0] # {}
        BY <1>4, <1>6, <1>10, <1>12, <1>13, <1>14, <2>2
    <2>4. /\ FilesKept' /\ OnDisk(Active)' = MinutesOf(M1(g)) /\ Active' = d
          /\ disk'[d] = g /\ \A c \in DOMAIN datasets \ {d} : disk'[c] = disk[c]
        BY <1>1, <1>2, <1>4, <1>9, <1>10, <2>1, <2>3, FilesWritten
    <2> QED BY <1>12, <2>4 DEF OnDisk
<1>16. OnDisk(Active) \cup Replaced \subseteq (OnDisk(Active) \cup Replaced)'
    <2>1. Replaced \subseteq Replaced'
        BY <1>1 DEF Replaced
    <2>2. ls \subseteq qs \cup Replaced'
        <3>1. CASE f.m1[id] = {}
            BY <1>11, <3>1 DEF MinutesOf
        <3>2. CASE f.m1[id] # {}
            <4>1. ls \subseteq MinutesOf(csv[id])
                BY <1>2, <1>3, <1>4, <1>11, <3>2 DEF AnswersKept
            <4>2. id \in refilled'
                BY <1>1, <1>3, <3>2
            <4> QED BY <1>1, <4>1, <4>2 DEF Replaced
        <3> QED BY <3>1, <3>2
    <2>3. ms \subseteq qs \cup Replaced'
        BY <1>13, <2>2
    <2> QED BY <1>3, <1>4, <1>15, <2>1, <2>3
<1>17. Open' = Open
    BY <1>1 DEF Open
<1>18. \A i : Known(i)' = Known(i)
    BY <1>1 DEF Known
<1>19. TypeOK' /\ UpToDateMeansNoOpenRequest'
    <2>1. refilled' \subseteq Ids
        BY <1>1, <1>2, <1>3, <1>4 DEF TypeOK
    <2> QED BY <1>1, <1>2, <1>17, <2>1 DEF TypeOK, UpToDateMeansNoOpenRequest
<1>20. AnswersKept'
    <2>1. ASSUME NEW c \in DOMAIN datasets, NEW i \in Ids, disk'[c].m1[i] # {}
          PROVE  Known(i) /\ jobs[i] # None /\ MinutesOf(disk'[c].m1[i]) \subseteq MinutesOf(csv[i])
        <3>1. i \in Frags
            BY SyncAssumption DEF Ids, Frags
        <3>2. CASE c = d /\ i = id
            BY <1>3, <1>5, <1>10, <1>15, <3>2 DEF Open
        <3>3. CASE c = d /\ i # id
            <4>1. disk'[c].m1[i] = disk[c].m1[i]
                BY <1>3, <1>10, <1>15, <3>1, <3>3
            <4> QED BY <1>2, <2>1, <4>1 DEF AnswersKept
        <3>4. CASE c # d
            BY <1>2, <1>15, <2>1, <3>4 DEF AnswersKept
        <3> QED BY <3>2, <3>3, <3>4
    <2>2. \A i \in refilled' : Known(i)
        BY <1>1, <1>2, <1>3, <1>5 DEF AnswersKept
    <2>3. /\ \A i \in Ids : csv[i] # None => MinutesOf(csv[i]) \subseteq traded \cap 1 .. now
          /\ \A r \in requests : csv[r.id] # None => \A m \in MinutesOf(csv[r.id]) : m >= r.from
          /\ \A r, q \in requests : r.id = q.id => r = q
          /\ export # None => export.req \in requests /\ csv[export.req.id] # None
                              /\ (export.pc = "MANIFEST" => export.bars = csv[export.req.id])
        BY <1>2 DEF AnswersKept
    <2> QED BY <1>1, <1>18, <2>1, <2>2, <2>3 DEF AnswersKept
<1>21. ASSUME NEW i, NEW first, RequestKept(i, first) PROVE RequestKept(i, first)'
    <2>1. (datasets[Active].m1End)' = datasets[Active].m1End /\ datasets[Active].m1End \in Int
        BY <1>1, <1>4, <1>6, <1>15 DEF Minutes
    <2>2. datasets[Active].m1End <= (datasets[Active].m1End)'
        BY <2>1
    <2> QED BY <1>1, <1>16, <1>21, <2>1, <2>2, RequestStep
\* Every minute up to a new bar is covered.
<1>22. ASSUME NEW b \in ns PROVE Covered(b)'
    <2>1. RequestKept(id, from)
        BY <1>2, <1>3, <1>5 DEF RequestsKept
    <2>2. PICK u : u = from - 1
        OBVIOUS
    <2>3. Covered(u) /\ from \in Nat \ {0}
        BY <2>1, <2>2 DEF RequestKept
    <2>4. Covered(u)'
        BY <1>1, <1>16, <2>3, CoveredStep
    <2>5. PICK t \in Minutes : ns = (traded \cap from .. t) \ ms
        BY <1>5
    <2>6. ASSUME NEW m \in traded, m <= b PROVE m \in qs \cup Replaced'
        <3>1. m \in Minutes /\ b \in Minutes /\ m \in Int /\ b \in Int /\ t \in Int
            BY <1>2, <1>4 DEF Minutes
        <3>2. CASE m < from
            <4>1. m <= u
                BY <2>2, <2>3, <3>1, <3>2
            <4> QED BY <1>1, <1>15, <2>4, <4>1 DEF Covered
        <3>3. CASE ~(m < from)
            <4>1. m \in traded \cap from .. t
                BY <2>3, <2>5, <2>6, <3>1, <3>3
            <4>2. m \in ms \cup ns
                BY <2>5, <4>1
            <4>3. ms \subseteq qs \cup Replaced'
                BY <1>3, <1>4, <1>15, <1>16
            <4> QED BY <1>13, <4>2, <4>3
        <3> QED BY <3>2, <3>3
    <2> QED BY <1>1, <1>15, <2>6 DEF Covered
<1>23. RequestsKept'
    <2>1. ASSUME NEW i \in Open PROVE RequestKept(i, jobs[i].from)'
        <3>1. PICK first : first = jobs[i].from /\ first = jobs'[i].from
            BY <1>1
        <3>2. RequestKept(i, first)'
            BY <1>2, <1>21, <3>1 DEF RequestsKept
        <3> QED BY <3>1, <3>2
    <2>2. Covered(datasets[Active].m1End)'
        <3>1. PICK k : k = datasets[Active].m1End /\ k = (datasets[Active].m1End)'
            BY <1>1, <1>4, <1>15
        <3>2. Covered(k)'
            BY <1>1, <1>2, <1>16, <3>1, CoveredStep DEF RequestsKept
        <3> QED BY <3>1, <3>2 DEF Covered
    <2>3. Covered(Max(OnDisk(Active)))'
        <3>1. PICK k, l : k = Max(OnDisk(Active)) /\ l = Max(qs) /\ l = (Max(OnDisk(Active)))'
            BY <1>15
        <3>2. l \in qs /\ k \in Minutes /\ \A z \in ms : z <= k
            <4>1. qs \in SUBSET Minutes /\ qs # {}
                BY <1>4, <1>6, <1>13
            <4>2. k \in Minutes /\ \A z \in ms : z <= k
                BY <1>2, <1>3, <1>4, <3>1, KeptFacts
            <4> QED BY <3>1, <4>1, <4>2, MaxOfMinutes
        <3>3. Covered(l)'
            <4>1. CASE l \in ns
                BY <1>22, <4>1
            <4>2. CASE l \in ms
                <5>1. Covered(k) /\ k \in Int /\ l \in Int /\ l <= k
                    BY <1>2, <1>6, <3>1, <3>2, <4>2 DEF RequestsKept, Minutes
                <5>2. Covered(l)
                    BY <1>2, <5>1, CoveredBelow
                <5> QED BY <1>1, <1>16, <5>2, CoveredStep
            <4> QED BY <1>13, <3>2, <4>1, <4>2
        <3> QED BY <3>1, <3>3 DEF Covered
    <2> QED BY <1>1, <1>2, <1>17, <2>1, <2>2, <2>3 DEF RequestsKept
<1>24. row \in DatasetRows /\ row.m1End = e
    <2>1. PICK q, z : q = w.ds /\ z = q.m1Rows + n
        OBVIOUS
    <2>2. q \in DatasetRows /\ z \in Nat /\ row = [q EXCEPT !.m1Rows = z, !.m1End = e]
        BY <1>4, <1>7, <1>8, <2>1 DEF DatasetRows
    <2> QED BY <1>7, <2>2 DEF DatasetRows
<1>25. TickKept' /\ worker' \in Ticks
    <2>1. worker' = [pc |-> "HTF", trigger |-> w.trigger, id |-> id, d |-> d, ds |-> row, novel |-> w.novel, combined |-> cs]
        BY <1>3, <1>4, <1>9
    <2>2. cs \in SUBSET Minutes
        <3>1. cs \subseteq ms \cup ns
            BY <1>3 DEF Combined, OnDisk
        <3> QED BY <1>4, <1>6, <3>1
    <2>3. worker' \in Ticks
        BY <1>3, <1>4, <1>24, <2>1, <2>2 DEF Ticks, Requesting, AppendingTicks
    <2>4. PICK v : v = worker'
        OBVIOUS
    <2>5. v.pc = "HTF" /\ v.id = id /\ v.d = d /\ v.ds = row /\ v.novel = w.novel
        BY <2>1, <2>4
    <2>6. NovelMinutes' = ns
        BY <1>3, <2>4, <2>5 DEF NovelMinutes
    <2>7. Covered(e)'
        <3>1. CASE e = x
            BY <1>1, <1>5, <1>16, <3>1, CoveredStep
        <3>2. CASE e = y
            BY <1>7, <1>22, <3>2
        <3> QED BY <1>7, <3>1, <3>2
    <2>8. Covered(v.ds.m1End)'
        BY <1>24, <2>5, <2>7
    <2>9. (datasets[Active].m1End)' <= v.ds.m1End
        <3>1. PICK k : k = datasets[d].m1End
            OBVIOUS
        <3>2. k <= x /\ x <= e /\ k \in Int /\ x \in Int /\ e \in Int
            BY <1>5, <1>6, <1>7, <3>1 DEF Minutes
        <3>3. k <= e
            BY <3>2
        <3> QED BY <1>1, <1>15, <1>24, <2>5, <3>1, <3>3
    <2>10. Known(id)'
        BY <1>5, <1>18
    <2>11. AppendKept'
        BY <1>1, <1>5, <1>15, <1>17, <2>4, <2>5, <2>6, <2>8, <2>9, <2>10 DEF AppendKept
    <2> QED BY <2>3, <2>4, <2>5, <2>11 DEF TickKept
<1> QED BY <1>15, <1>19, <1>20, <1>23, <1>25 DEF Base, Kept

LEMMA WriteHtfKept ==
    ASSUME Base, WriteHtf
    PROVE  Base' /\ worker' \in Ticks
<1>1. /\ UNCHANGED <<traded, now, revised, requests, csv, manifest, export, datasets, jobs, state, scheduler, faults, refilled>>
      /\ worker # None /\ worker.pc = "HTF"
    BY DEF WriteHtf, Appending, OnlyAppend, marketVars, collectorVars, rows
<1>2. PICK w, d, f, end, ds : w = worker /\ d = w.d /\ f = disk[d] /\ end = w.ds.htfEnd /\ ds = Derived
    OBVIOUS
<1>3. /\ w \in [pc : {"MIGRATE", "M1", "HTF", "COMMIT"}, trigger : Schedulers, id : Ids,
                d : Nat, ds : DatasetRows, novel : BarSets, combined : SUBSET Minutes]
      /\ d \in DOMAIN datasets /\ d \in DOMAIN disk /\ w.id > 0
    BY <1>1, <1>2, AppendingFacts
<1>4. f \in Files /\ HtfSound(f) /\ disk \in Seq(Files)
    BY <1>2, <1>3, KeptFacts, BaseFacts DEF FilesKept
<1>5. /\ ds \in SUBSET [b : Minutes, of : SUBSET Minutes]
      /\ \A r \in ds : r.of = MinutesIn(r.b)
      /\ \A r, q \in ds : r.b = q.b => r = q
    <2>1. PICK cs : cs = w.combined
        OBVIOUS
    <2>2. cs \in SUBSET Minutes
        BY <1>3, <2>1
    <2>3. ds \subseteq ResampledCompleted(cs)
        BY <1>2, <2>1 DEF Derived
    <2>4. /\ \A r, q \in Resampled(cs) : r.b = q.b => r = q
          /\ Resampled(cs) \in SUBSET [b : Minutes, of : SUBSET Minutes]
          /\ ResampledCompleted(cs) \subseteq Resampled(cs)
          /\ \A r \in ResampledCompleted(cs) : r.of = MinutesIn(r.b)
        BY <2>2, ResampledFacts
    <2> QED BY <2>3, <2>4
<1>6. PICK D, N, n, fr, other, g, last, row :
          /\ D = {r.b : r \in ds} /\ N = {b \in D : b > end}
          /\ n = Cardinality({r \in ds : r.b > end}) /\ fr = [frag |-> w.id, bars |-> ds]
          /\ other = {q \in f.htf : q.frag # w.id}
          /\ g = (IF ds = {} THEN f ELSE [f EXCEPT !.htf = other \cup {fr}])
          /\ last = Max({end} \cup N)
          /\ row = [w.ds EXCEPT !.htfRows = w.ds.htfRows + n, !.htfEnd = last,
                                !.fingerprint = Append(w.ds.fingerprint, w.novel)]
    OBVIOUS
<1>7. disk' = [disk EXCEPT ![d] = g] /\ worker' = [w EXCEPT !.pc = "COMMIT", !.ds = row]
    <2>1. disk' = [disk EXCEPT ![d] = g]
        <3>1. CASE ds = {}
            <4>1. disk' = disk /\ g = disk[d]
                BY <1>2, <1>6, <3>1 DEF WriteHtf
            <4>2. disk = [disk EXCEPT ![d] = disk[d]]
                BY <1>4
            <4> QED BY <4>1, <4>2
        <3>2. CASE ds # {}
            <4>1. disk' = [disk EXCEPT ![d].htf = other \cup {fr}]
                BY <1>2, <1>6, <3>2 DEF WriteHtf
            <4> QED BY <1>2, <1>3, <1>4, <1>6, <3>2, <4>1 DEF Files
        <3> QED BY <3>1, <3>2
    <2>2. {r.b : r \in {q \in ds : q.b > end}} = N
        BY <1>6
    <2>3. worker' = [worker EXCEPT !.pc = "COMMIT",
                       !.ds.htfRows = @ + n, !.ds.htfEnd = Max({@} \cup N),
                       !.ds.fingerprint = Append(@, worker.novel)]
        BY <1>2, <1>6, <2>2 DEF WriteHtf
    <2>4. worker' = [w EXCEPT !.pc = "COMMIT", !.ds = row]
        BY <1>2, <1>3, <1>6, <2>3 DEF DatasetRows
    <2> QED BY <2>1, <2>4
<1>8. g \in Files /\ g.m1 = f.m1 /\ HtfSound(g)
    <2>1. CASE ds = {}
        BY <1>4, <1>6, <2>1
    <2>2. CASE ds # {}
        <3>1. w.id > 0 /\ fr \in Fragments /\ fr.frag = w.id /\ fr.bars = ds /\ ~(fr.frag = 0)
            BY <1>3, <1>5, <1>6 DEF Ids, Fragments
        <3>2. g \in Files /\ g.m1 = f.m1 /\ g.htf = other \cup {fr} /\ other \subseteq f.htf
            BY <1>4, <1>6, <2>2, <3>1 DEF Files
        <3> QED BY <1>4, <1>5, <3>1, <3>2 DEF HtfSound
    <2> QED BY <2>1, <2>2
<1>9. n \in Nat /\ N \in SUBSET Minutes /\ end \in Minutes /\ last \in Minutes
    <2>1. N \in SUBSET Minutes /\ end \in Minutes
        BY <1>2, <1>3, <1>5, <1>6 DEF DatasetRows
    <2>2. {end} \cup N \in SUBSET Minutes /\ {end} \cup N # {}
        BY <2>1
    <2>3. n \in Nat
        <3>1. PICK rs : rs = {r \in ds : r.b > end}
            OBVIOUS
        <3>2. {r.b : r \in rs} \in SUBSET Minutes /\ \A r, q \in rs : r.b = q.b => r = q
            BY <1>5, <3>1
        <3>3. Cardinality(rs) \in Nat
            BY <3>2, RecordsCount, MinuteSetsFinite
        <3> QED BY <1>6, <3>1, <3>3
    <2> QED BY <1>6, <2>1, <2>2, <2>3, MaxOfMinutes
<1>10. row \in DatasetRows /\ row.m1End = w.ds.m1End
    <2>1. PICK q, x, fp : q = w.ds /\ x = q.htfRows + n /\ fp = Append(q.fingerprint, w.novel)
        OBVIOUS
    <2>2. q \in DatasetRows /\ q.htfRows \in Nat /\ q.fingerprint \in Seq(BarSets) /\ w.novel \in BarSets
        BY <1>3, <2>1 DEF DatasetRows
    <2>3. x \in Nat /\ fp \in Seq(BarSets)
        BY <1>9, <2>1, <2>2
    <2>4. row = [q EXCEPT !.htfRows = x, !.htfEnd = last, !.fingerprint = fp]
        BY <1>6, <2>1
    <2>5. row \in DatasetRows /\ row.m1End = q.m1End
        BY <1>9, <2>2, <2>3, <2>4 DEF DatasetRows
    <2> QED BY <2>1, <2>5
<1>11. worker' = [pc |-> "COMMIT", trigger |-> w.trigger, id |-> w.id, d |-> w.d, ds |-> row, novel |-> w.novel, combined |-> w.combined]
    BY <1>3, <1>7
<1>12. worker' \in Ticks
    BY <1>3, <1>10, <1>11 DEF Ticks, Requesting, AppendingTicks
<1> QED BY <1>1, <1>2, <1>7, <1>8, <1>10, <1>11, <1>12, SameBars

\* A tick that ends: the rows stay, or become those of the session.
LEMMA RowsKept ==
    ASSUME Base, UNCHANGED <<traded, requests, csv, manifest, export, disk, refilled>>, worker' = None,
           \/ datasets' = datasets
           \/ /\ worker # None /\ worker.pc # "COMMIT_REQUEST"
              /\ datasets' = [datasets EXCEPT ![worker.d] = worker.ds]
    PROVE  /\ FilesKept' /\ TickKept' /\ DOMAIN datasets' = DOMAIN datasets
           /\ Covered(Max(OnDisk(Active)))' /\ Covered(datasets[Active].m1End)'
           /\ \A id, from : RequestKept(id, from) => RequestKept(id, from)'
<1>1. FilesKept /\ RequestsKept /\ Active \in DOMAIN datasets
    BY BaseFacts, ActiveKept
<1>2. PICK d, k, l, t : d = Active /\ k = datasets[d].m1End /\ l = datasets'[d].m1End /\ t = Max(OnDisk(d))
    OBVIOUS
<1>3. /\ DOMAIN datasets' = DOMAIN datasets /\ datasets' \in Seq(DatasetRows) /\ Len(datasets') = Len(datasets)
      /\ k \in Int /\ l \in Int /\ k <= l /\ Covered(l) /\ Covered(t)
    <2>1. datasets \in Seq(DatasetRows) /\ k \in Minutes /\ Covered(k) /\ Covered(t)
        BY <1>1, <1>2, KeptFacts DEF FilesKept, RequestsKept
    <2>2. CASE datasets' = datasets
        BY <1>2, <2>1, <2>2 DEF Minutes
    <2>3. CASE /\ worker # None /\ worker.pc # "COMMIT_REQUEST"
               /\ datasets' = [datasets EXCEPT ![worker.d] = worker.ds]
        <3>1. /\ AppendKept /\ worker.d = d /\ d \in DOMAIN datasets /\ worker.ds \in DatasetRows
            BY <1>2, <2>3, AppendingFacts
        <3>2. datasets'[d] = worker.ds
            BY <2>1, <2>3, <3>1
        <3>3. Covered(l) /\ k <= l
            BY <1>2, <3>1, <3>2 DEF AppendKept
        <3>4. l \in Minutes
            BY <1>2, <3>1, <3>2 DEF DatasetRows
        <3> QED BY <2>1, <2>3, <3>1, <3>3, <3>4 DEF Minutes
    <2> QED BY <2>2, <2>3
<1>4. FilesKept'
    BY <1>1, <1>3 DEF FilesKept, OnDisk
<1>5. Active' = d /\ OnDisk(d)' = OnDisk(d) /\ Replaced' = Replaced
    BY <1>2, <1>3 DEF Active, OnDisk, Replaced
<1>6. (OnDisk(Active) \cup Replaced)' = OnDisk(Active) \cup Replaced
    BY <1>2, <1>5 DEF OnDisk
<1>7. Covered(Max(OnDisk(Active)))' /\ Covered(datasets[Active].m1End)'
    <2>1. t = (Max(OnDisk(Active)))' /\ l = (datasets[Active].m1End)'
        BY <1>2, <1>5 DEF OnDisk
    <2>2. Covered(t)' /\ Covered(l)'
        BY <1>3, <1>6, CoveredStep
    <2> QED BY <2>1, <2>2 DEF Covered
<1>8. ASSUME NEW id, NEW from, RequestKept(id, from) PROVE RequestKept(id, from)'
    <2>1. datasets[Active].m1End = k /\ (datasets[Active].m1End)' = l
        BY <1>2, <1>5
    <2>2. /\ datasets[Active].m1End \in Int /\ (datasets[Active].m1End)' \in Int
          /\ datasets[Active].m1End <= (datasets[Active].m1End)'
        BY <1>3, <2>1
    <2> QED BY <1>6, <1>8, <2>2, RequestStep
<1>9. TickKept'
    BY DEF TickKept
<1> QED BY <1>3, <1>4, <1>7, <1>8, <1>9

LEMMA CommitAppendKept ==
    ASSUME Base, CommitAppend
    PROVE  Base'
<1>1. /\ UNCHANGED <<traded, now, revised, requests, csv, manifest, export, disk, scheduler, faults, refilled>>
      /\ worker # None /\ worker.pc = "COMMIT" /\ worker' = None
      /\ datasets' = [datasets EXCEPT ![worker.d] = worker.ds]
    BY DEF CommitAppend, Appending, OnlyAppend, marketVars, collectorVars
<1>2. TypeOK /\ AnswersKept /\ RequestsKept /\ now \in Int
    BY BaseFacts
<1>3. PICK w, i, end : w = worker /\ i = w.id /\ end = w.ds.m1End
    OBVIOUS
<1>4. /\ jobs' = [jobs EXCEPT ![i].status = "COMPLETED"]
      /\ state' = [status |-> "UP_TO_DATE", latest |-> end, error |-> None]
    BY <1>3 DEF CommitAppend, Finished
<1>5. i \in Open /\ w.ds \in DatasetRows
    BY <1>1, <1>3, AppendingFacts DEF AppendKept
<1>6. jobs[i] \in Jobs /\ i \in Ids
    BY <1>2, <1>5 DEF TypeOK, Open
<1>7. /\ jobs' \in [Ids -> Jobs \cup {None}] /\ jobs'[i] \in Jobs /\ jobs'[i].status = "COMPLETED"
      /\ \A j \in Ids \ {i} : jobs'[j] = jobs[j]
    BY <1>2, <1>4, <1>6 DEF TypeOK, Jobs
<1>8. Open' = {}
    <2>1. \A j \in Open : j = i
        BY <1>2, <1>5 DEF RequestsKept
    <2> QED BY <1>7, <2>1 DEF Open
<1>9. TypeOK' /\ UpToDateMeansNoOpenRequest'
    <2>1. end \in Nat
        BY <1>3, <1>5 DEF DatasetRows, Minutes
    <2>2. state' \in States
        BY <1>4, <2>1 DEF States
    <2> QED BY <1>1, <1>2, <1>7, <1>8, <2>2 DEF TypeOK, UpToDateMeansNoOpenRequest
<1>10. /\ FilesKept' /\ TickKept' /\ DOMAIN datasets' = DOMAIN datasets
       /\ Covered(Max(OnDisk(Active)))' /\ Covered(datasets[Active].m1End)'
    BY <1>1, RowsKept
<1>11. AnswersKept'
    <2>1. now <= now' /\ \A j \in Ids : jobs[j] # None => jobs'[j] # None
        BY <1>1, <1>2, <1>7, NoneAssumption
    <2> QED BY <1>1, <1>2, <1>10, <2>1, AnswersSame
<1>12. RequestsKept'
    BY <1>8, <1>10 DEF RequestsKept
<1> QED BY <1>9, <1>10, <1>11, <1>12 DEF Base, Kept

\* A tick that is cut off; what it wrote stays on disk.
LEMMA CutOffKept ==
    ASSUME Base, WriteFails \/ Restart
    PROVE  Base'
<1>1. /\ UNCHANGED <<traded, now, revised, requests, csv, manifest, export, disk, jobs, refilled>>
      /\ worker' = None
    BY DEF WriteFails, Restart, marketVars, collectorVars, rows
<1>2. TypeOK /\ UpToDateMeansNoOpenRequest /\ AnswersKept /\ RequestsKept /\ now \in Int
    BY BaseFacts
<1>3. /\ \/ datasets' = datasets
         \/ /\ worker # None /\ worker.pc # "COMMIT_REQUEST"
            /\ datasets' = [datasets EXCEPT ![worker.d] = worker.ds]
      /\ state' \in States /\ scheduler' \in {"RUNNING", "DEAD"}
      /\ state'.status = "UP_TO_DATE" => state.status = "UP_TO_DATE"
      /\ faults' \in 0 .. MaxFaults
    <2>1. CASE WriteFails
        <3>1. worker # None /\ worker.pc \in {"M1", "HTF"} /\ faults < MaxFaults /\ faults' = faults + 1
            BY <2>1 DEF WriteFails, Appending
        <3>2. faults' \in 0 .. MaxFaults
            BY <1>2, <3>1, SyncAssumption DEF TypeOK
        <3>3. CASE /\ datasets' = [datasets EXCEPT ![worker.d] = worker.ds]
                   /\ state' = [state EXCEPT !.status = "MT5_UNAVAILABLE", !.error = "WRITE_FAILED"]
                   /\ UNCHANGED scheduler
            <4>1. state' \in States /\ state'.status = "MT5_UNAVAILABLE"
                BY <1>2, <3>3 DEF TypeOK, States
            <4> QED BY <1>2, <3>1, <3>2, <3>3, <4>1 DEF TypeOK
        <3>4. CASE /\ scheduler' = (IF worker.trigger = "SCHEDULED" THEN "DEAD" ELSE scheduler)
                   /\ UNCHANGED <<datasets, state>>
            BY <1>2, <3>1, <3>2, <3>4 DEF TypeOK
        <3> QED BY <2>1, <3>3, <3>4 DEF WriteFails
    <2>2. CASE Restart
        <3>1. /\ UNCHANGED <<datasets, state>> /\ scheduler' = "RUNNING"
              /\ faults < MaxFaults \/ worker = None
              /\ faults' = IF worker = None THEN faults ELSE faults + 1
            BY <2>2 DEF Restart, rows
        <3>2. faults' \in 0 .. MaxFaults
            BY <1>2, <3>1, SyncAssumption DEF TypeOK
        <3> QED BY <1>2, <3>1, <3>2 DEF TypeOK
    <2> QED BY <2>1, <2>2
<1>4. /\ FilesKept' /\ TickKept' /\ DOMAIN datasets' = DOMAIN datasets
      /\ Covered(Max(OnDisk(Active)))' /\ Covered(datasets[Active].m1End)'
      /\ \A id, from : RequestKept(id, from) => RequestKept(id, from)'
    BY <1>1, <1>3, RowsKept
<1>5. Open' = Open
    BY <1>1 DEF Open
<1>6. TypeOK' /\ UpToDateMeansNoOpenRequest'
    BY <1>1, <1>2, <1>3, <1>5 DEF TypeOK, UpToDateMeansNoOpenRequest
<1>7. RequestsKept'
    <2>1. ASSUME NEW i \in Open PROVE RequestKept(i, jobs[i].from)'
        <3>1. PICK from : from = jobs[i].from /\ from = jobs'[i].from
            BY <1>1
        <3>2. RequestKept(i, from)
            BY <1>2, <3>1 DEF RequestsKept
        <3>3. RequestKept(i, from)'
            BY <1>4, <3>2
        <3> QED BY <3>1, <3>3
    <2> QED BY <1>2, <1>4, <1>5, <2>1 DEF RequestsKept
<1>8. AnswersKept'
    <2>1. now <= now' /\ \A j \in Ids : jobs[j] # None => jobs'[j] # None
        BY <1>1, <1>2
    <2> QED BY <1>1, <1>2, <1>4, <2>1, AnswersSame
<1> QED BY <1>4, <1>6, <1>7, <1>8 DEF Base, Kept

LEMMA BootstrapKept ==
    ASSUME ~BootstrapAnytime, Base, NEW end \in Minutes, Bootstrap(end)
    PROVE  Base'
<1>1. /\ UNCHANGED <<traded, now, revised, requests, csv, manifest, export, jobs, worker, scheduler, faults, refilled>>
      /\ worker = None /\ Open = {} /\ end \in {BaseEnd, now}
    BY DEF Bootstrap, MayBootstrap, marketVars, collectorVars
<1>2. TypeOK /\ FilesKept /\ AnswersKept /\ RequestsKept /\ now \in Int /\ traded \in SUBSET Minutes
    BY BaseFacts
<1>3. PICK S, files, row, last : /\ S = traded \cap 1 .. end /\ files = BaseFiles(S) /\ row = NewDataset(S)
                                 /\ last = Max(S)
    OBVIOUS
<1>4. traded \in Sessions /\ BaseEnd <= end
    BY <1>1, <1>2, SyncAssumption DEF TypeOK
<1>5. /\ S \in SUBSET Minutes /\ S # {} /\ MinutesOf(M1(files)) = S
      /\ files \in Files /\ FilesSound(files) /\ RowSound(row, files)
    BY <1>3, <1>4, BaseSound
<1>6. last \in S /\ last \in Minutes
    BY <1>3, <1>5, MaxOfMinutes
<1>7. TypeOK' /\ UpToDateMeansNoOpenRequest'
    <2>1. last \in Nat
        BY <1>6 DEF Minutes
    <2>2. state' = [status |-> "UP_TO_DATE", latest |-> last, error |-> None]
        BY <1>3 DEF Bootstrap
    <2>3. state' \in States
        BY <2>1, <2>2 DEF States
    <2> QED BY <1>1, <1>2, <2>3 DEF TypeOK, UpToDateMeansNoOpenRequest, Open
<1>8. Open' = {} /\ TickKept'
    BY <1>1 DEF Open, TickKept
<1>9. CASE UNCHANGED <<datasets, disk>>
    <2>1. now <= now' /\ requests' \subseteq requests
        BY <1>1, <1>2
    <2>2. FilesKept' /\ AnswersKept' /\ RequestsKept'
        BY <1>1, <1>2, <1>9, <2>1, FilesSame, AnswersSame, RequestsSame
    <2> QED BY <1>7, <1>8, <2>2 DEF Base, Kept
<1>10. CASE /\ Len(datasets) < MaxDatasets
            /\ datasets' = Append(datasets, row) /\ disk' = Append(disk, files)
    <2>1. PICK n : n = Len(datasets)
        OBVIOUS
    <2>2. /\ datasets \in Seq(DatasetRows) /\ disk \in Seq(Files) /\ Len(disk) = n /\ n \in Nat
          /\ row \in DatasetRows /\ row.m1End \in S
        BY <1>2, <1>5, <2>1 DEF FilesKept, RowSound
    <2>3. /\ datasets' \in Seq(DatasetRows) /\ disk' \in Seq(Files)
          /\ Len(disk') = n + 1 /\ Len(datasets') = n + 1 /\ n + 1 \in 1 .. MaxDatasets
        BY <1>5, <1>10, <2>1, <2>2, SyncAssumption
    <2>4. /\ DOMAIN datasets' = 1 .. n + 1 /\ DOMAIN datasets = 1 .. n
          /\ datasets'[n + 1] = row /\ disk'[n + 1] = files
          /\ \A d \in 1 .. n : datasets'[d] = datasets[d] /\ disk'[d] = disk[d]
        BY <1>10, <2>1, <2>2, <2>3
    <2>5. files.m1 = [i \in Frags |-> IF i = 0 THEN BarsOf(S) ELSE {}] /\ BarsOf(S) # {}
        BY <1>3, <1>5 DEF BaseFiles, BarsOf
    <2>6. Active' = n + 1 /\ OnDisk(Active)' = S /\ (datasets[Active].m1End)' = row.m1End
        BY <1>5, <2>3, <2>4 DEF OnDisk, Active
    <2>7. FilesKept'
        <3>1. ASSUME NEW d \in 1 .. n + 1
              PROVE  HtfSound(disk'[d]) /\ MinutesOf(M1(disk'[d])) \subseteq traded /\ disk'[d].m1[0] # {}
            <4>1. CASE d = n + 1
                <5>1. files.m1[0] # {}
                    BY <2>5, SyncAssumption DEF Frags
                <5> QED BY <1>3, <1>5, <2>4, <4>1, <5>1 DEF FilesSound
            <4>2. CASE d \in 1 .. n
                BY <1>2, <2>4, <4>2 DEF FilesKept, OnDisk
            <4> QED BY <2>2, <4>1, <4>2
        <3>2. \A d \in 1 .. n + 1 : HtfSound(disk[d])'
            BY <3>1 DEF HtfSound
        <3> QED BY <1>1, <2>3, <2>4, <3>1, <3>2 DEF FilesKept, OnDisk
    <2>8. AnswersKept'
        <3>1. ASSUME NEW d \in 1 .. n + 1, NEW i \in Ids, disk'[d].m1[i] # {}
              PROVE  Known(i) /\ jobs[i] # None /\ MinutesOf(disk'[d].m1[i]) \subseteq MinutesOf(csv[i])
            <4>1. CASE d = n + 1
                <5>1. i \in Frags /\ i # 0
                    BY SyncAssumption DEF Ids, Frags
                <5> QED BY <2>4, <2>5, <3>1, <4>1, <5>1
            <4>2. CASE d \in 1 .. n
                BY <1>2, <2>4, <3>1, <4>2 DEF AnswersKept
            <4> QED BY <2>2, <4>1, <4>2
        <3>2. \A i : Known(i)' = Known(i)
            BY <1>1 DEF Known
        <3>3. /\ \A i \in Ids : csv[i] # None => MinutesOf(csv[i]) \subseteq traded \cap 1 .. now
              /\ \A r \in requests : csv[r.id] # None => \A m \in MinutesOf(csv[r.id]) : m >= r.from
              /\ \A r, q \in requests : r.id = q.id => r = q
              /\ export # None => export.req \in requests /\ csv[export.req.id] # None
                                  /\ (export.pc = "MANIFEST" => export.bars = csv[export.req.id])
              /\ \A i \in refilled : Known(i)
            BY <1>2 DEF AnswersKept
        <3> QED BY <1>1, <2>4, <3>1, <3>2, <3>3 DEF AnswersKept
    <2>9. ASSUME NEW t \in S PROVE Covered(t)'
        <3>1. \A m \in traded : m <= t => m \in S
            <4>1. ASSUME NEW m \in traded, m <= t PROVE m \in S
                <5>1. m \in Minutes /\ t \in Minutes /\ t <= end /\ end \in Minutes
                    BY <1>2, <1>3, <1>5
                <5> QED BY <1>3, <4>1, <5>1 DEF Minutes
            <4> QED BY <4>1
        <3> QED BY <1>1, <2>6, <3>1 DEF Covered
    <2>10. Covered(Max(OnDisk(Active)))' /\ Covered(datasets[Active].m1End)'
        <3>1. PICK k : k = row.m1End
            OBVIOUS
        <3>2. last = (Max(OnDisk(Active)))' /\ k = (datasets[Active].m1End)'
            BY <1>3, <2>6, <3>1
        <3>3. Covered(last)' /\ Covered(k)'
            BY <1>6, <2>2, <2>9, <3>1
        <3> QED BY <3>2, <3>3 DEF Covered
    <2>11. RequestsKept'
        BY <1>8, <2>10 DEF RequestsKept
    <2> QED BY <1>7, <1>8, <2>7, <2>8, <2>11 DEF Base, Kept
<1> QED BY <1>3, <1>9, <1>10 DEF Bootstrap

LEMMA BaseStep == ~BootstrapAnytime /\ Base /\ [Next]_vars => Base'
<1> SUFFICES ASSUME ~BootstrapAnytime, Base, [Next]_vars
             PROVE  Base'
    OBVIOUS
<1>1. CASE UNCHANGED vars
    <2>1. UNCHANGED <<traded, now, revised, requests, csv, manifest, export, datasets, disk,
                      jobs, state, worker, scheduler, faults, refilled>>
        BY <1>1 DEF vars
    <2>2. /\ TypeOK /\ UpToDateMeansNoOpenRequest /\ FilesKept /\ AnswersKept /\ RequestsKept /\ TickKept
          /\ now \in Int
        BY BaseFacts
    <2>3. TypeOK' /\ UpToDateMeansNoOpenRequest'
        BY <2>1, <2>2 DEF TypeOK, UpToDateMeansNoOpenRequest, Open
    <2>4. requests' \subseteq requests /\ now <= now' /\ \A i : Known(i)' = Known(i)
        BY <2>1, <2>2 DEF Known
    <2>5. FilesKept' /\ AnswersKept' /\ RequestsKept' /\ TickKept'
        BY <2>1, <2>2, <2>4, FilesSame, AnswersSame, RequestsSame, TickSame
    <2> QED BY <2>3, <2>5 DEF Base, Kept
<1>2. CASE MinutePasses \/ (\E m \in Minutes : Revise(m))
    BY <1>2, MarketKept
<1>3. CASE Collector \/ TerminalRestart
    BY <1>3, ExportCsvKept, CollectorKept DEF Collector
<1>4. CASE \E trigger \in Schedulers : Tick(trigger)
    <2>1. PICK trigger \in Schedulers : Tick(trigger)
        BY <1>4
    <2>2. CASE \E id \in Ids : WriteRequest(trigger, id)
        BY <2>2, WriteRequestKept
    <2>3. CASE Await(trigger) \/ \E i \in Ids : ConsumeUnreadable(trigger, i)
        BY <2>3, ReportKept
    <2>4. CASE \E i \in Ids : ConsumeEmpty(trigger, i) \/ ConsumeRefused(trigger, i) \/ ConsumeKnown(trigger, i)
        BY <2>4, CloseKept
    <2>5. CASE \E i \in Ids : BeginAppend(trigger, i)
        BY <2>5, BeginAppendKept
    <2> QED BY <2>1, <2>2, <2>3, <2>4, <2>5 DEF Tick
<1>5. CASE TickStep
    BY <1>5, CommitRequestKept, MigrateKept, WriteM1Kept, WriteHtfKept, CommitAppendKept DEF TickStep
<1>6. CASE WriteFails \/ Restart
    BY <1>6, CutOffKept
<1>7. CASE \E end \in Minutes : Bootstrap(end)
    BY <1>7, BootstrapKept
<1> QED BY <1>1, <1>2, <1>3, <1>4, <1>5, <1>6, <1>7 DEF Next

-----------------------------------------------------------------------------
(* What is final *)

\* Only the fragment of the tick's own, open request is ever written, and only
\* datasets are added.
LEMMA FragmentsStep ==
    ASSUME ~BootstrapAnytime, Base, [Next]_vars
    PROVE  /\ traded' = traded
           /\ \A d \in DOMAIN datasets : d \in DOMAIN datasets' /\ \A i \in Frags :
                \/ disk'[d].m1[i] = disk[d].m1[i]
                \/ /\ WriteM1 /\ worker # None /\ worker.pc = "M1" /\ d = worker.d /\ i = worker.id
                   /\ disk'[d].m1[i] = worker.novel
<1>1. FilesKept /\ DOMAIN disk = DOMAIN datasets
    BY BaseFacts, ActiveKept
<1>2. traded' = traded
    BY DEF Next, vars, MinutePasses, Revise, Collector, ExportCsv, ExportManifest, DeleteRequest, TerminalRestart,
           Tick, WriteRequest, Await, ConsumeEmpty, ConsumeRefused, ConsumeKnown, ConsumeUnreadable, BeginAppend,
           TickStep, CommitRequest, Migrate, WriteM1, AppendM1, WriteHtf, CommitAppend, WriteFails, Restart, Bootstrap,
           OnlyAppend, marketVars, collectorVars, rows
<1> SUFFICES ASSUME NEW d \in DOMAIN datasets
             PROVE  /\ d \in DOMAIN datasets'
                    /\ \A i \in Frags :
                         \/ disk'[d].m1[i] = disk[d].m1[i]
                         \/ /\ WriteM1 /\ worker # None /\ worker.pc = "M1" /\ d = worker.d /\ i = worker.id
                            /\ disk'[d].m1[i] = worker.novel
    BY <1>2
<1>3. /\ d \in DOMAIN disk /\ disk \in Seq(Files) /\ disk[d] \in Files /\ datasets \in Seq(DatasetRows)
      /\ Len(disk) = Len(datasets)
    BY <1>1 DEF FilesKept
<1>4. FilesKept'
    BY BaseStep DEF Base, Kept
<1>5. ASSUME disk' \in Seq(Files), Len(disk) <= Len(disk') PROVE d \in DOMAIN datasets'
    <2>1. datasets' \in Seq(DatasetRows) /\ Len(datasets') = Len(disk')
        BY <1>4 DEF FilesKept
    <2> QED BY <1>3, <1>5, <2>1
<1>6. CASE disk' = disk
    BY <1>3, <1>5, <1>6
<1>7. ASSUME NEW g, disk' = [disk EXCEPT ![worker.d] = g] PROVE d \in DOMAIN datasets'
    <2>1. disk' \in Seq(Files)
        BY <1>4 DEF FilesKept
    <2>2. Len(disk') = Len(disk)
        BY <1>3, <1>7
    <2> QED BY <1>3, <1>5, <2>1, <2>2
<1>8. CASE Migrate
    <2>1. disk' = [disk EXCEPT ![worker.d].base = "FRAGMENTS"]
        BY <1>8 DEF Migrate
    <2>2. disk'[d].m1 = disk[d].m1
        BY <1>3, <2>1 DEF Files
    <2> QED BY <1>7, <2>1, <2>2
<1>9. CASE WriteHtf
    <2>1. PICK hs : hs = {f \in disk[worker.d].htf : f.frag # worker.id} \cup {[frag |-> worker.id, bars |-> Derived]}
        OBVIOUS
    <2>2. disk' = disk \/ disk' = [disk EXCEPT ![worker.d].htf = hs]
        BY <1>9, <2>1 DEF WriteHtf
    <2>3. disk'[d].m1 = disk[d].m1
        BY <1>3, <2>2 DEF Files
    <2> QED BY <1>6, <1>7, <2>2, <2>3
<1>10. CASE WriteM1
    <2>1. /\ worker # None /\ worker.pc = "M1"
          /\ disk' = [disk EXCEPT ![worker.d].m1 = [disk[worker.d].m1 EXCEPT ![worker.id] = worker.novel]]
        BY <1>10 DEF WriteM1, AppendM1, Appending
    <2>2. CASE d # worker.d
        <3>1. disk'[d] = disk[d]
            BY <1>3, <2>1, <2>2
        <3> QED BY <1>7, <2>1, <3>1
    <2>3. CASE d = worker.d
        <3>1. disk'[d].m1 = [disk[d].m1 EXCEPT ![worker.id] = worker.novel] /\ disk[d].m1 \in [Frags -> BarSets]
            BY <1>3, <2>1, <2>3 DEF Files
        <3> QED BY <1>7, <1>10, <2>1, <2>3, <3>1
    <2> QED BY <2>2, <2>3
<1>11. CASE \E end \in Minutes : Bootstrap(end)
    <2>1. PICK end \in Minutes : Bootstrap(end)
        BY <1>11
    <2>2. PICK files : files = BaseFiles(traded \cap 1 .. end)
        OBVIOUS
    <2>3. disk' = disk \/ disk' = Append(disk, files)
        BY <2>1, <2>2 DEF Bootstrap
    <2>4. disk'[d] = disk[d] /\ Len(disk) <= Len(disk')
        BY <1>3, <2>3
    <2>5. disk' \in Seq(Files)
        BY <1>4 DEF FilesKept
    <2> QED BY <1>5, <2>4, <2>5
<1>12. CASE CommitRequest \/ CommitAppend
    BY <1>6, <1>12 DEF CommitRequest, CommitAppend
<1>13. CASE MinutePasses \/ (\E m \in Minutes : Revise(m)) \/ Collector \/ TerminalRestart
    <2>1. disk' = disk
        BY <1>13 DEF MinutePasses, Revise, Collector, ExportCsv, ExportManifest, DeleteRequest, TerminalRestart
    <2> QED BY <1>6, <2>1
<1>14. CASE (\E trigger \in Schedulers : Tick(trigger)) \/ WriteFails \/ Restart
    <2>1. disk' = disk
        BY <1>14 DEF Tick, WriteRequest, Await, ConsumeEmpty, ConsumeRefused, ConsumeKnown,
                     ConsumeUnreadable, BeginAppend, WriteFails, Restart
    <2> QED BY <1>6, <2>1
<1>15. CASE UNCHANGED vars
    BY <1>6, <1>15 DEF vars
<1> QED BY <1>8, <1>9, <1>10, <1>11, <1>12, <1>13, <1>14, <1>15 DEF Next, TickStep

\* Minutes become final, never the reverse, and what is behind a later minute
\* only is behind an earlier one.
LEMMA FinalStep ==
    ASSUME Base, NEW t \in Int, NEW u \in Int, t <= u, FinalAfter(t), traded' = traded, Active' = Active,
           Open' \subseteq Open,
           \A i \in Frags \ Open : disk'[Active].m1[i] = disk[Active].m1[i],
           \A i \in Completed' \ Completed : \A c \in MinutesOf(disk'[Active].m1[i]) :
             \A m \in traded : u < m /\ m <= c => m \in Final'
    PROVE  FinalAfter(u)'
<1>1. traded \in SUBSET Minutes
    BY BaseFacts
<1>2. Final \subseteq Final'
    BY DEF Final
<1>3. 0 \in Frags \ Open /\ Completed \subseteq Frags \ Open
    BY SyncAssumption DEF Frags, Open, Ids, Completed
<1>4. ASSUME NEW i \in Completed' \cup {0}, NEW c \in MinutesOf(disk'[Active].m1[i]), NEW m \in traded, u < m, m <= c
      PROVE  m \in Final'
    <2>1. CASE i \in Completed \cup {0}
        <3>1. c \in MinutesOf(disk[Active].m1[i])
            BY <1>3, <1>4, <2>1
        <3>2. t < m
            BY <1>1, <1>4 DEF Minutes
        <3> QED BY <1>2, <1>4, <2>1, <3>1, <3>2 DEF FinalAfter
    <2>2. CASE i \in Completed' \ Completed
        BY <1>4, <2>2
    <2> QED BY <2>1, <2>2
<1> QED BY <1>4 DEF FinalAfter


-----------------------------------------------------------------------------
(* The order of what is final *)

\* Steps that leave the M1 files and the jobs alone.
LEMMA OrderSame ==
    ASSUME Base, OrderKept, traded' = traded, jobs' = jobs, Active' = Active,
           \A i \in Frags : disk'[Active].m1[i] = disk[Active].m1[i],
           datasets[Active].m1End <= (datasets[Active].m1End)', (datasets[Active].m1End)' \in Int,
           worker' # None =>
             /\ worker'.pc = "COMMIT_REQUEST" => worker'.from = (datasets[Active].m1End)' + 1
             /\ worker'.pc \in {"HTF", "COMMIT"} =>
                  \A m \in MinutesOf(disk'[worker'.d].m1[worker'.id]) : m <= worker'.ds.m1End
    PROVE  OrderKept'
<1>1. Open' = Open /\ Completed' = Completed
    BY DEF Open, Completed
<1>2. /\ TypeOK /\ FilesKept /\ RequestsKept
    BY BaseFacts
<1>3. PICK k, l : k = datasets[Active].m1End /\ l = (datasets[Active].m1End)'
    OBVIOUS
<1>4. k \in Int /\ l \in Int /\ k <= l
    BY <1>2, <1>3, ActiveKept, KeptFacts DEF Minutes
<1>5. ASSUME NEW i \in Open PROVE FinalAfter(jobs[i].from - 1)'
    <2>1. PICK t : t = jobs[i].from - 1 /\ t = jobs'[i].from - 1
        OBVIOUS
    <2>2. RequestKept(i, jobs[i].from)
        BY <1>2 DEF RequestsKept
    <2>3. jobs[i].from \in Nat
        BY <2>2 DEF RequestKept
    <2>4. t \in Int /\ t <= t /\ FinalAfter(t)
        BY <2>1, <2>3 DEF OrderKept
    <2>5. FinalAfter(t)'
        BY <1>1, <2>4, FinalStep
    <2> QED BY <2>1, <2>5 DEF FinalAfter
<1>6. Open = {} => FinalAfter(datasets[Active].m1End)'
    <2>1. Open = {} => FinalAfter(k)
        BY <1>3 DEF OrderKept
    <2>2. Open = {} => FinalAfter(l)'
        BY <1>1, <1>4, <2>1, FinalStep
    <2> QED BY <1>3, <2>2 DEF FinalAfter
<1> QED BY <1>1, <1>5, <1>6 DEF OrderKept

LEMMA CloseOrder ==
    ASSUME Base, OrderKept, traded' = traded, NEW i \in Open, Active' = Active,
           \A f \in Frags : disk'[Active].m1[f] = disk[Active].m1[f], Open' = {}, worker' = None,
           Completed' \subseteq Completed \cup {i},
           NEW l \in Int, l = (datasets[Active].m1End)', jobs[i].from - 1 <= l,
           i \in Completed' => \A c \in MinutesOf(disk[Active].m1[i]) :
             \A m \in traded : l < m /\ m <= c => m \in OnDisk(Active)
    PROVE  OrderKept'
<1>1. FilesKept /\ RequestKept(i, jobs[i].from)
    BY BaseFacts DEF RequestsKept
<1>2. PICK t : t = jobs[i].from - 1
    OBVIOUS
<1>3. t \in Int /\ t <= l /\ FinalAfter(t)
    <2>1. jobs[i].from \in Nat
        BY <1>1 DEF RequestKept
    <2> QED BY <1>2, <2>1 DEF OrderKept
<1>4. Final' = OnDisk(Active)
    BY DEF Final, OnDisk, M1, MinutesOf
<1>5. FinalAfter(l)'
    <2>1. \A j \in Completed' \ Completed : \A c \in MinutesOf(disk'[Active].m1[j]) :
             \A m \in traded : l < m /\ m <= c => m \in Final'
        <3>1. i \in Frags
            BY SyncAssumption DEF Open, Ids, Frags
        <3> QED BY <1>4, <3>1
    <2> QED BY <1>3, <2>1, FinalStep
<1>6. FinalAfter(datasets[Active].m1End)'
    BY <1>5 DEF FinalAfter
<1> QED BY <1>6 DEF OrderKept

LEMMA OrderStep ==
    ASSUME ~BootstrapAnytime, Base, OrderKept, [Next]_vars
    PROVE  OrderKept'
<1>1. /\ TypeOK /\ FilesKept /\ AnswersKept /\ RequestsKept /\ TickKept
      /\ traded \in SUBSET Minutes /\ Active \in DOMAIN datasets
      /\ traded' = traded /\ FilesKept'
    BY BaseFacts, ActiveKept, FragmentsStep, BaseStep DEF Base, Kept
<1>2. PICK k : k = datasets[Active].m1End
    OBVIOUS
<1>3. k \in Int /\ k <= k
    BY <1>1, <1>2, KeptFacts DEF Minutes
<1>4. CASE UNCHANGED <<traded, datasets, disk, jobs, worker>>
    <2>1. Active' = Active /\ (datasets[Active].m1End)' = k
        BY <1>2, <1>4 DEF Active
    <2>2. datasets[Active].m1End <= (datasets[Active].m1End)'
        BY <1>2, <1>3, <2>1
    <2>3. worker' # None =>
             /\ worker'.pc = "COMMIT_REQUEST" => worker'.from = (datasets[Active].m1End)' + 1
             /\ worker'.pc \in {"HTF", "COMMIT"} =>
                  \A m \in MinutesOf(disk'[worker'.d].m1[worker'.id]) : m <= worker'.ds.m1End
        BY <1>2, <1>4, <2>1 DEF OrderKept
    <2> QED BY <1>3, <1>4, <2>1, <2>2, <2>3, OrderSame
<1>5. CASE \/ UNCHANGED vars \/ MinutePasses \/ (\E m \in Minutes : Revise(m)) \/ Collector \/ TerminalRestart
           \/ \E trigger \in Schedulers : Await(trigger) \/ \E i \in Ids : ConsumeUnreadable(trigger, i)
    BY <1>4, <1>5 DEF vars, MinutePasses, Revise, Collector, ExportCsv, ExportManifest, DeleteRequest, TerminalRestart,
                      Await, ConsumeUnreadable, marketVars, collectorVars, rows
<1>6. CASE \E trigger \in Schedulers : \E id \in Ids : WriteRequest(trigger, id)
    <2>1. PICK trigger \in Schedulers, id \in Ids : WriteRequest(trigger, id)
        BY <1>6
    <2>2. /\ UNCHANGED <<traded, datasets, disk, jobs>>
          /\ worker' = [pc |-> "COMMIT_REQUEST", trigger |-> trigger, id |-> id, from |-> RequestedFrom]
        BY <2>1 DEF WriteRequest, marketVars, rows
    <2>3. Active' = Active /\ (datasets[Active].m1End)' = k
        BY <1>2, <2>2 DEF Active
    <2>4. datasets[Active].m1End <= (datasets[Active].m1End)'
        BY <1>2, <1>3, <2>3
    <2>5. worker'.pc = "COMMIT_REQUEST" /\ worker'.from = (datasets[Active].m1End)' + 1
        BY <1>2, <2>2, <2>3 DEF RequestedFrom
    <2>6. \A i \in Frags : disk'[Active].m1[i] = disk[Active].m1[i]
        BY <2>2
    <2> QED BY <1>1, <1>3, <2>2, <2>3, <2>4, <2>5, <2>6, OrderSame
<1>7. CASE CommitRequest
    <2>1. /\ UNCHANGED <<traded, datasets, disk>>
          /\ worker # None /\ worker.pc = "COMMIT_REQUEST" /\ worker' = None
        BY <1>7 DEF CommitRequest, marketVars
    <2>2. PICK id, from, job : id = worker.id /\ from = worker.from /\ job = [status |-> "REQUESTED", from |-> from]
        OBVIOUS
    <2>3. jobs' = [jobs EXCEPT ![id] = job]
        BY <1>7, <2>2 DEF CommitRequest
    <2>4. worker \in Ticks /\ Open = {} /\ jobs[id] = None /\ from = k + 1
        BY <1>1, <1>2, <2>1, <2>2 DEF TickKept, OrderKept
    <2>5. id \in Ids
        BY <2>2, <2>4 DEF Ticks, Requesting, AppendingTicks
    <2>6. jobs'[id] = job /\ \A i \in Ids \ {id} : jobs'[i] = jobs[i]
        BY <1>1, <2>3, <2>5 DEF TypeOK
    <2>7. /\ Completed' = Completed /\ \A i \in Open' : i = id /\ jobs'[i].from = from
          /\ Open' # {}
        <3>1. from \in Nat
            BY <1>3, <1>1, <1>2, <2>4, KeptFacts DEF Minutes
        <3>2. job \in Jobs /\ job.status = "REQUESTED" /\ job.from = from
            BY <2>2, <3>1 DEF Jobs
        <3>3. job # None
            BY <3>2, NoneAssumption
        <3>4. id \in Open'
            BY <2>5, <2>6, <3>2, <3>3 DEF Open
        <3>5. \A i \in Open' : i = id
            BY <2>4, <2>6 DEF Open
        <3>6. id \notin Completed /\ id \notin Completed'
            BY <2>4, <2>6, <3>2 DEF Completed
        <3>7. Completed' = Completed
            BY <2>6, <3>6 DEF Completed
        <3> QED BY <2>6, <3>2, <3>4, <3>5, <3>7
    <2>8. Active' = Active /\ disk[Active].m1[id] = {}
        BY <1>1, <2>1, <2>4, <2>5 DEF Active, AnswersKept
    <2>9. Final' = Final
        <3>1. Final' = UNION {MinutesOf(disk[Active].m1[i]) : i \in Frags \ Open'}
            BY <2>1, <2>8 DEF Final
        <3>2. Final = UNION {MinutesOf(disk[Active].m1[i]) : i \in Frags}
            BY <2>4 DEF Final
        <3>3. MinutesOf(disk[Active].m1[id]) = {}
            BY <2>8 DEF MinutesOf
        <3> QED BY <2>7, <3>1, <3>2, <3>3
    <2>10. FinalAfter(k)
        BY <1>2, <2>4 DEF OrderKept
    <2>11. FinalAfter(k)'
        BY <2>1, <2>7, <2>8, <2>9, <2>10 DEF FinalAfter
    <2>12. ASSUME NEW i \in Open' PROVE FinalAfter(jobs[i].from - 1)'
        <3>1. PICK t : t = jobs'[i].from - 1
            OBVIOUS
        <3>2. t = k
            BY <1>3, <2>4, <2>7, <3>1
        <3>3. FinalAfter(t)'
            BY <2>11, <3>2
        <3> QED BY <3>1, <3>3 DEF FinalAfter
    <2> QED BY <2>1, <2>7, <2>12 DEF OrderKept
<1>8. CASE \E trigger \in Schedulers : \E i \in Ids :
             ConsumeEmpty(trigger, i) \/ ConsumeRefused(trigger, i) \/ ConsumeKnown(trigger, i)
    <2>1. PICK trigger \in Schedulers, i \in Ids :
              ConsumeEmpty(trigger, i) \/ ConsumeRefused(trigger, i) \/ ConsumeKnown(trigger, i)
        BY <1>8
    <2>2. /\ UNCHANGED <<traded, csv, manifest, datasets, disk, worker>>
          /\ worker = None /\ i \in Open
        BY <2>1 DEF ConsumeEmpty, ConsumeRefused, ConsumeKnown, HasBars, MayTick, marketVars, collectorVars
    <2>3. PICK s \in {"COMPLETED", "FAILED"} :
              /\ jobs' = [jobs EXCEPT ![i].status = s]
              /\ s = "COMPLETED" => ConsumeEmpty(trigger, i) \/ ConsumeKnown(trigger, i)
        BY <2>1 DEF ConsumeEmpty, ConsumeRefused, ConsumeKnown, Finished
    <2>4. jobs[i] \in Jobs /\ RequestKept(i, jobs[i].from)
        BY <1>1, <2>2 DEF TypeOK, Open, RequestsKept
    <2>5. jobs'[i].status = s /\ \A j \in Ids \ {i} : jobs'[j] = jobs[j]
        BY <1>1, <2>3, <2>4 DEF TypeOK, Jobs
    <2>6. Open' = {} /\ Completed' \subseteq Completed \cup {i} /\ (i \in Completed' => s = "COMPLETED")
        <3>1. \A j \in Open : j = i
            BY <1>1, <2>2 DEF RequestsKept
        <3> QED BY <2>5, <3>1 DEF Open, Completed
    <2>7. Active' = Active /\ k = (datasets[Active].m1End)' /\ \A f \in Frags : disk'[Active].m1[f] = disk[Active].m1[f]
        BY <1>2, <2>2 DEF Active
    <2>8. PICK from, u : from = jobs[i].from /\ u = from - 1
        OBVIOUS
    <2>9. u <= k /\ from \in Nat
        BY <1>2, <2>4, <2>8 DEF RequestKept
    <2>10. ASSUME i \in Completed', NEW c \in MinutesOf(disk[Active].m1[i]), NEW m \in traded, k < m, m <= c
           PROVE  m \in OnDisk(Active)
        <3>1. disk[Active].m1[i] # {}
            BY <2>10 DEF MinutesOf
        <3>2. Known(i) /\ c \in MinutesOf(csv[i])
            BY <1>1, <2>1, <2>10, <3>1 DEF AnswersKept
        <3>3. ConsumeKnown(trigger, i)
            BY <2>3, <2>6, <2>10, <3>2 DEF ConsumeEmpty, Known
        <3>4. csv[i] \subseteq M1(disk[Active])
            <4>1. Conflicts(csv[i], Active) = {} /\ Novel(csv[i], Active) = {}
                BY <3>3 DEF ConsumeKnown
            <4> QED BY <4>1 DEF Conflicts, Novel
        <3>5. PICK t \in Minutes : MinutesOf(csv[i]) = traded \cap from .. t
            BY <2>4, <2>8, <3>2 DEF RequestKept, Known
        <3>6. c \in Int /\ m \in Int /\ t \in Int /\ c <= t
            BY <1>1, <2>9, <3>2, <3>5 DEF Minutes
        <3>7. m \in from .. t
            BY <1>3, <2>8, <2>9, <2>10, <3>6
        <3>8. m \in MinutesOf(csv[i])
            BY <3>5, <3>7
        <3> QED BY <3>4, <3>8 DEF OnDisk, MinutesOf
    <2> QED BY <1>1, <1>3, <2>2, <2>6, <2>7, <2>8, <2>9, <2>10, CloseOrder
<1>9. CASE (\E trigger \in Schedulers : \E i \in Ids : BeginAppend(trigger, i)) \/ Migrate \/ WriteHtf
    <2>1. /\ UNCHANGED <<traded, datasets, jobs>> /\ ~WriteM1
          /\ worker'.pc \in {"MIGRATE", "M1", "COMMIT"}
          /\ worker'.pc = "COMMIT" =>
               worker # None /\ worker.pc = "HTF" /\ worker'.d = worker.d /\ worker'.id = worker.id
               /\ worker'.ds.m1End = worker.ds.m1End
        <3>1. CASE \E trigger \in Schedulers : \E i \in Ids : BeginAppend(trigger, i)
            <4>1. worker = None /\ UNCHANGED <<traded, datasets, jobs>>
                BY <3>1 DEF BeginAppend, MayTick, marketVars, rows
            <4>2. worker'.pc \in {"MIGRATE", "M1"}
                BY <3>1 DEF BeginAppend
            <4> QED BY <4>1, <4>2 DEF WriteM1, AppendM1, Appending
        <3>2. CASE Migrate
            <4>1. /\ worker # None /\ worker.pc = "MIGRATE" /\ UNCHANGED <<traded, datasets, jobs>>
                  /\ worker' = [worker EXCEPT !.pc = "M1", !.ds.path = "FRAGMENTS"]
                BY <3>2 DEF Migrate, Appending, OnlyAppend, marketVars, rows
            <4>2. worker'.pc = "M1"
                BY <4>1, AppendingFacts
            <4> QED BY <4>1, <4>2 DEF WriteM1, AppendM1, Appending
        <3>3. CASE WriteHtf
            <4>1. PICK rs : rs = {r \in Derived : r.b > worker.ds.htfEnd}
                OBVIOUS
            <4>2. /\ worker # None /\ worker.pc = "HTF" /\ UNCHANGED <<traded, datasets, jobs>>
                  /\ worker' = [worker EXCEPT !.pc = "COMMIT",
                                  !.ds.htfRows = @ + Cardinality(rs),
                                  !.ds.htfEnd = Max({@} \cup {r.b : r \in rs}),
                                  !.ds.fingerprint = Append(@, worker.novel)]
                BY <3>3, <4>1 DEF WriteHtf, Appending, OnlyAppend, marketVars, rows
            <4>3. worker.ds \in DatasetRows /\ worker'.pc = "COMMIT" /\ worker'.d = worker.d /\ worker'.id = worker.id
                  /\ worker'.ds.m1End = worker.ds.m1End
                BY <4>2, AppendingFacts DEF DatasetRows
            <4> QED BY <4>2, <4>3 DEF WriteM1, AppendM1, Appending
        <3> QED BY <1>9, <3>1, <3>2, <3>3
    <2>2. \A d \in DOMAIN datasets : \A i \in Frags : disk'[d].m1[i] = disk[d].m1[i]
        BY <2>1, FragmentsStep
    <2>3. Active' = Active /\ (datasets[Active].m1End)' = k
        BY <1>2, <2>1 DEF Active
    <2>4. datasets[Active].m1End <= (datasets[Active].m1End)'
        BY <1>2, <1>3, <2>3
    <2>5. worker'.pc = "COMMIT" => \A m \in MinutesOf(disk'[worker'.d].m1[worker'.id]) : m <= worker'.ds.m1End
        <3> SUFFICES ASSUME worker'.pc = "COMMIT"
                     PROVE  \A m \in MinutesOf(disk'[worker'.d].m1[worker'.id]) : m <= worker'.ds.m1End
            OBVIOUS
        <3>1. worker.d \in DOMAIN datasets /\ worker.id \in Frags
            BY <2>1, AppendingFacts
        <3>2. disk'[worker'.d].m1[worker'.id] = disk[worker.d].m1[worker.id]
            BY <2>1, <2>2, <3>1
        <3> QED BY <2>1, <3>2 DEF OrderKept
    <2> QED BY <1>1, <1>3, <2>1, <2>2, <2>3, <2>4, <2>5, OrderSame
<1>10. CASE WriteM1
    <2>1. /\ UNCHANGED <<traded, datasets, jobs>> /\ worker # None /\ worker.pc = "M1"
          /\ worker' = [worker EXCEPT !.pc = "HTF", !.combined = Combined,
                          !.ds.m1Rows = @ + Cardinality(worker.novel),
                          !.ds.m1End = Max({@, Max(MinutesOf(worker.novel))})]
          /\ disk' = [disk EXCEPT ![worker.d].m1 = [disk[worker.d].m1 EXCEPT ![worker.id] = worker.novel]]
        BY <1>10 DEF WriteM1, AppendM1, Appending, OnlyAppend, marketVars, rows
    <2>2. PICK d, id, ns, x, y, e :
              /\ d = worker.d /\ id = worker.id /\ ns = NovelMinutes
              /\ x = worker.ds.m1End /\ y = Max(ns) /\ e = Max({x, y})
        OBVIOUS
    <2>3. /\ worker \in [pc : {"MIGRATE", "M1", "HTF", "COMMIT"}, trigger : Schedulers, id : Ids,
                         d : Nat, ds : DatasetRows, novel : BarSets, combined : SUBSET Minutes]
          /\ AppendKept /\ d = Active /\ d \in DOMAIN datasets /\ d \in DOMAIN disk
          /\ id \in Ids /\ id \in Frags /\ id # 0 /\ ns \in SUBSET Minutes /\ ns # {}
        BY <2>1, <2>2, AppendingFacts
    <2>4. worker'.pc = "HTF" /\ worker'.d = d /\ worker'.id = id /\ worker'.ds.m1End = e
        BY <2>1, <2>2, <2>3 DEF DatasetRows, NovelMinutes
    <2>5. \A m \in ns : m <= e
        <3>1. x \in Minutes /\ y \in Minutes /\ \A m \in ns : m <= y
            BY <2>2, <2>3, MaxOfMinutes DEF DatasetRows
        <3>2. e \in Minutes /\ y <= e
            <4>1. {x, y} \in SUBSET Minutes /\ {x, y} # {}
                BY <3>1
            <4> QED BY <2>2, <4>1, MaxOfMinutes
        <3> QED BY <2>3, <3>1, <3>2 DEF Minutes
    <2>6. /\ disk'[d].m1[id] = worker.novel /\ \A i \in Frags \ {id} : disk'[d].m1[i] = disk[d].m1[i]
        <3>1. disk[d] \in Files
            BY <1>1, <2>3, KeptFacts
        <3>2. disk'[d].m1 = [disk[d].m1 EXCEPT ![id] = worker.novel] /\ disk[d].m1 \in [Frags -> BarSets]
            BY <1>1, <2>1, <2>2, <2>3, <3>1 DEF Files, FilesKept
        <3> QED BY <2>3, <3>2
    <2>7. id \in Open /\ Open' = Open /\ Completed' = Completed /\ Active' = d
        BY <2>1, <2>2, <2>3 DEF AppendKept, Open, Completed, Active
    <2>8. \A i \in Frags \ Open : disk'[Active].m1[i] = disk[Active].m1[i]
        BY <2>3, <2>6, <2>7
    <2>9. ASSUME NEW i \in Open PROVE FinalAfter(jobs[i].from - 1)'
        <3>1. PICK t : t = jobs[i].from - 1 /\ t = jobs'[i].from - 1
            BY <2>1
        <3>2. RequestKept(i, jobs[i].from)
            BY <1>1 DEF RequestsKept
        <3>3. jobs[i].from \in Nat
            BY <3>2 DEF RequestKept
        <3>4. t \in Int /\ t <= t /\ FinalAfter(t)
            BY <3>1, <3>3 DEF OrderKept
        <3>5. FinalAfter(t)'
            BY <1>1, <2>3, <2>7, <2>8, <3>4, FinalStep
        <3> QED BY <3>1, <3>5 DEF FinalAfter
    <2>10. \A m \in MinutesOf(disk'[worker'.d].m1[worker'.id]) : m <= worker'.ds.m1End
        BY <2>2, <2>4, <2>5, <2>6 DEF NovelMinutes
    <2> QED BY <2>4, <2>7, <2>9, <2>10 DEF OrderKept
<1>11. CASE CommitAppend
    <2>1. /\ UNCHANGED <<traded, disk>> /\ worker # None /\ worker.pc = "COMMIT" /\ worker' = None
          /\ datasets' = [datasets EXCEPT ![worker.d] = worker.ds]
        BY <1>11 DEF CommitAppend, Appending, OnlyAppend, marketVars
    <2>2. PICK i, l, from : i = worker.id /\ l = worker.ds.m1End /\ from = jobs[i].from
        OBVIOUS
    <2>3. jobs' = [jobs EXCEPT ![i].status = "COMPLETED"]
        BY <1>11, <2>2 DEF CommitAppend, Finished
    <2>4. /\ AppendKept /\ worker.d = Active /\ worker.ds \in DatasetRows
        BY <2>1, AppendingFacts
    <2>5. i \in Open /\ k <= l /\ l \in Minutes
        BY <1>2, <2>2, <2>4 DEF AppendKept, DatasetRows
    <2>6. jobs[i] \in Jobs /\ i \in Ids /\ RequestKept(i, from)
        BY <1>1, <2>2, <2>5 DEF TypeOK, Open, RequestsKept
    <2>7. jobs'[i].status = "COMPLETED" /\ \A j \in Ids \ {i} : jobs'[j] = jobs[j]
        BY <1>1, <2>3, <2>6 DEF TypeOK, Jobs
    <2>8. Open' = {} /\ Completed' \subseteq Completed \cup {i}
        <3>1. \A j \in Open : j = i
            BY <1>1, <2>5 DEF RequestsKept
        <3> QED BY <2>7, <3>1 DEF Open, Completed
    <2>9. Active' = Active /\ l = (datasets[Active].m1End)'
        BY <1>1, <2>1, <2>2, <2>4 DEF Active, FilesKept
    <2>10. from - 1 <= l
        <3>1. PICK u : u = from - 1
            OBVIOUS
        <3>2. u <= k /\ u \in Int /\ l \in Int
            BY <1>2, <2>5, <2>6, <3>1 DEF RequestKept, Minutes
        <3>3. u <= l
            BY <1>3, <2>5, <3>2
        <3> QED BY <3>1, <3>3
    <2>11. \A c \in MinutesOf(disk[Active].m1[i]) : c <= l
        BY <2>1, <2>2, <2>4 DEF OrderKept
    <2>12. ASSUME NEW c \in MinutesOf(disk[Active].m1[i]), NEW m \in traded, l < m, m <= c
           PROVE  m \in OnDisk(Active)
        <3>1. i \in Frags
            BY <2>6, SyncAssumption DEF Ids, Frags
        <3>2. c \in Minutes
            BY <1>1, <2>12, <3>1, KeptFacts
        <3> QED BY <1>1, <2>5, <2>11, <2>12, <3>2 DEF Minutes
    <2>13. l \in Int /\ \A f \in Frags : disk'[Active].m1[f] = disk[Active].m1[f]
        BY <2>1, <2>5 DEF Minutes
    <2> QED BY <2>1, <2>2, <2>5, <2>8, <2>9, <2>10, <2>12, <2>13, CloseOrder
<1>12. CASE WriteFails \/ Restart
    <2>1. /\ UNCHANGED <<traded, disk, jobs>> /\ worker' = None
          /\ \/ datasets' = datasets
             \/ worker # None /\ worker.pc # "COMMIT_REQUEST" /\ datasets' = [datasets EXCEPT ![worker.d] = worker.ds]
        BY <1>12 DEF WriteFails, Restart, Appending, marketVars, rows
    <2>2. Active' = Active /\ datasets[Active].m1End <= (datasets[Active].m1End)' /\ (datasets[Active].m1End)' \in Int
        <3>1. CASE datasets' = datasets
            BY <1>2, <1>3, <3>1 DEF Active
        <3>2. CASE worker # None /\ worker.pc # "COMMIT_REQUEST" /\ datasets' = [datasets EXCEPT ![worker.d] = worker.ds]
            <4>1. AppendKept /\ worker.d = Active /\ worker.ds \in DatasetRows
                BY <3>2, AppendingFacts
            <4>2. Active' = Active /\ datasets'[Active] = worker.ds
                BY <1>1, <3>2, <4>1 DEF Active, FilesKept
            <4>3. datasets[Active].m1End <= worker.ds.m1End /\ worker.ds.m1End \in Minutes
                BY <4>1 DEF AppendKept, DatasetRows
            <4> QED BY <4>2, <4>3 DEF Minutes
        <3> QED BY <2>1, <3>1, <3>2
    <2>3. \A i \in Frags : disk'[Active].m1[i] = disk[Active].m1[i]
        BY <2>1
    <2> QED BY <2>1, <2>2, <2>3, OrderSame
<1>13. CASE \E end \in Minutes : Bootstrap(end)
    <2>1. PICK end \in Minutes : Bootstrap(end)
        BY <1>13
    <2>2. UNCHANGED <<traded, jobs, worker>> /\ worker = None /\ Open = {} /\ end \in {BaseEnd, now}
        BY <2>1 DEF Bootstrap, MayBootstrap, marketVars
    <2>3. CASE UNCHANGED <<datasets, disk>>
        BY <1>4, <2>2, <2>3
    <2>4. PICK S, files, row : S = traded \cap 1 .. end /\ files = BaseFiles(S) /\ row = NewDataset(S)
        OBVIOUS
    <2>5. CASE datasets' = Append(datasets, row) /\ disk' = Append(disk, files)
        <3>1. /\ S \in SUBSET Minutes /\ S # {} /\ files \in Files
            <4>1. traded \in Sessions /\ BaseEnd <= end
                BY <1>1, <2>2, SyncAssumption DEF TypeOK
            <4> QED BY <2>4, <4>1, BaseSound
        <3>2. PICK e : e = Max(S)
            OBVIOUS
        <3>3. e \in Minutes /\ (\A m \in S : m <= e) /\ row.m1End = e
            BY <2>4, <3>1, <3>2, MaxOfMinutes DEF NewDataset
        <3>4. disk'[Active'] = files /\ datasets'[Active'] = row
            BY <1>1, <2>5 DEF Active, FilesKept
        <3>5. MinutesOf(files.m1[0]) = S /\ \A i \in Frags \ {0} : files.m1[i] = {}
            <4>1. files.m1 = [i \in Frags |-> IF i = 0 THEN BarsOf(S) ELSE {}] /\ 0 \in Frags
                BY <2>4, SyncAssumption DEF BaseFiles, Frags
            <4> QED BY <3>1, <4>1, BarsOfFacts
        <3>6. Open' = {} /\ Completed' \subseteq Frags \ {0}
            BY <2>2, SyncAssumption DEF Open, Completed, Ids, Frags
        <3>7. ASSUME NEW i \in Completed' \cup {0}, NEW c \in MinutesOf(files.m1[i]), NEW m \in traded, e < m, m <= c
              PROVE  FALSE
            <4>1. c \in S
                BY <3>5, <3>6, <3>7 DEF MinutesOf
            <4>2. c <= e /\ c \in Int /\ e \in Int /\ m \in Int
                BY <1>1, <3>1, <3>3, <4>1 DEF Minutes
            <4> QED BY <3>7, <4>2
        <3>8. FinalAfter(e)'
            BY <2>2, <3>4, <3>7 DEF FinalAfter
        <3>9. e = (datasets[Active].m1End)'
            BY <3>3, <3>4
        <3>10. FinalAfter(datasets[Active].m1End)'
            BY <3>8, <3>9 DEF FinalAfter
        <3> QED BY <2>2, <3>6, <3>10 DEF OrderKept
    <2> QED BY <2>1, <2>3, <2>4, <2>5 DEF Bootstrap
<1> QED BY <1>5, <1>6, <1>7, <1>8, <1>9, <1>10, <1>11, <1>12, <1>13 DEF Next, Tick, TickStep

LEMMA InitOrder == Init => OrderKept
<1> SUFFICES ASSUME Init PROVE OrderKept
    OBVIOUS
<1>1. BaseEnd \in Minutes /\ BaseEnd <= BaseEnd
    BY SyncAssumption DEF Minutes
<1>2. PICK S, files, row, e : S = traded \cap 1 .. BaseEnd /\ files = BaseFiles(S) /\ row = NewDataset(S) /\ e = Max(S)
    OBVIOUS
<1>3. S \in SUBSET Minutes /\ S # {} /\ traded \in SUBSET Minutes
    <2>1. traded \in Sessions
        BY DEF Init
    <2>2. S \in SUBSET Minutes /\ S # {}
        BY <1>1, <1>2, <2>1, BaseSound
    <2> QED BY <2>1, <2>2, SyncAssumption DEF Minutes
<1>4. Active = 1 /\ datasets[1] = row /\ disk[1] = files
    BY <1>2 DEF Init, Snapshot, Active
<1>5. Open = {} /\ Completed = {} /\ worker = None
    BY DEF Init, Open, Completed
<1>6. e \in Minutes /\ (\A m \in S : m <= e) /\ row.m1End = e
    BY <1>2, <1>3, MaxOfMinutes DEF NewDataset
<1>7. MinutesOf(files.m1[0]) = S
    <2>1. files.m1 = [i \in Frags |-> IF i = 0 THEN BarsOf(S) ELSE {}] /\ 0 \in Frags
        BY <1>2, SyncAssumption DEF BaseFiles, Frags
    <2> QED BY <1>3, <2>1, BarsOfFacts
<1>8. FinalAfter(e)
    <2>1. ASSUME NEW c \in S, NEW m \in traded, e < m, m <= c PROVE FALSE
        BY <1>3, <1>6, <2>1 DEF Minutes
    <2> QED BY <1>4, <1>5, <1>7, <2>1 DEF FinalAfter
<1> QED BY <1>4, <1>5, <1>6, <1>8 DEF OrderKept

\* Without a fault no fragment of an open request is on disk before the tick
\* that commits it, and so none is replaced.
LEMMA WrittenOnceStep ==
    ASSUME ~BootstrapAnytime, Base, WrittenOnce, [Next]_vars, worker # None => faults' = faults
    PROVE  WrittenOnce'
<1>1. /\ TypeOK /\ FilesKept /\ AnswersKept /\ RequestsKept /\ TickKept
      /\ refilled = {}
    BY BaseFacts DEF WrittenOnce
<1>2. \A d \in DOMAIN datasets, i \in Open :
        disk[d].m1[i] # {} => worker # None /\ worker.pc \in {"HTF", "COMMIT"} /\ worker.id = i
    BY DEF WrittenOnce
<1>3. Open \subseteq Ids /\ Ids \subseteq Frags
    BY SyncAssumption DEF Open, Ids, Frags
<1>4. ASSUME NEW d \in DOMAIN datasets, NEW i \in Open, ~WriteM1
      PROVE  disk'[d].m1[i] = disk[d].m1[i]
    BY <1>3, <1>4, FragmentsStep
<1>5. CASE /\ UNCHANGED <<datasets, refilled>> /\ ~WriteM1 /\ Open' \subseteq Open
           /\ worker = None \/ (worker.pc \notin {"HTF", "COMMIT"}) \/ worker' = worker
    BY <1>1, <1>2, <1>4, <1>5 DEF WrittenOnce
<1>6. CASE Open' = {} /\ refilled' = refilled
    BY <1>1, <1>6 DEF WrittenOnce
<1>7. CASE \/ UNCHANGED vars \/ MinutePasses \/ (\E m \in Minutes : Revise(m)) \/ Collector \/ TerminalRestart
           \/ \E trigger \in Schedulers : Await(trigger) \/ \E i \in Ids : ConsumeUnreadable(trigger, i)
    <2>1. UNCHANGED <<datasets, disk, jobs, worker, refilled>>
        BY <1>7 DEF vars, MinutePasses, Revise, Collector, ExportCsv, ExportManifest, DeleteRequest, TerminalRestart,
                    Await, ConsumeUnreadable, rows
    <2> QED BY <1>1, <1>2, <2>1 DEF WrittenOnce, Open
<1>8. CASE \E trigger \in Schedulers : \E id \in Ids : WriteRequest(trigger, id)
    <2>1. Open = {} /\ UNCHANGED <<jobs, refilled>>
        BY <1>8 DEF WriteRequest, rows
    <2> QED BY <1>6, <2>1 DEF Open
<1>9. CASE CommitRequest
    <2>1. UNCHANGED <<datasets, disk, refilled>> /\ worker # None /\ worker.pc = "COMMIT_REQUEST"
        BY <1>9 DEF CommitRequest
    <2>2. PICK id, job : id = worker.id /\ job = [status |-> "REQUESTED", from |-> worker.from]
        OBVIOUS
    <2>3. jobs' = [jobs EXCEPT ![id] = job]
        BY <1>9, <2>2 DEF CommitRequest
    <2>4. worker \in Ticks /\ Open = {} /\ jobs[id] = None
        BY <1>1, <2>1, <2>2 DEF TickKept
    <2>5. id \in Ids
        BY <2>2, <2>4 DEF Ticks, Requesting, AppendingTicks
    <2>6. \A i \in Ids \ {id} : jobs'[i] = jobs[i]
        BY <1>1, <2>3, <2>5 DEF TypeOK
    <2>7. Open' \subseteq {id}
        BY <2>4, <2>6 DEF Open
    <2>8. \A d \in DOMAIN datasets : disk[d].m1[id] = {}
        BY <1>1, <2>4, <2>5 DEF AnswersKept
    <2> QED BY <1>1, <2>1, <2>7, <2>8 DEF WrittenOnce
<1>10. CASE \E trigger \in Schedulers : \E i \in Ids :
              ConsumeEmpty(trigger, i) \/ ConsumeRefused(trigger, i) \/ ConsumeKnown(trigger, i)
    <2>1. PICK trigger \in Schedulers, i \in Ids :
              ConsumeEmpty(trigger, i) \/ ConsumeRefused(trigger, i) \/ ConsumeKnown(trigger, i)
        BY <1>10
    <2>2. UNCHANGED <<datasets, disk, refilled>> /\ worker = None /\ i \in Open
        BY <2>1 DEF ConsumeEmpty, ConsumeRefused, ConsumeKnown, HasBars, MayTick
    <2>3. PICK s \in {"COMPLETED", "FAILED"} : jobs' = [jobs EXCEPT ![i].status = s]
        BY <2>1 DEF ConsumeEmpty, ConsumeRefused, ConsumeKnown, Finished
    <2>4. \A j \in Ids \ {i} : jobs'[j] = jobs[j]
        BY <1>1, <2>2, <2>3 DEF TypeOK, Open
    <2>5. Open' \subseteq Open
        BY <2>2, <2>4 DEF Open
    <2> QED BY <1>1, <1>2, <2>2, <2>5 DEF WrittenOnce
<1>11. CASE \E trigger \in Schedulers : \E i \in Ids : BeginAppend(trigger, i)
    <2>1. worker = None /\ UNCHANGED <<datasets, disk, jobs, refilled>>
        BY <1>11 DEF BeginAppend, MayTick, rows
    <2> QED BY <1>1, <1>2, <2>1 DEF WrittenOnce, Open
<1>12. CASE Migrate
    <2>1. worker # None /\ worker.pc = "MIGRATE" /\ UNCHANGED <<datasets, jobs, refilled>> /\ ~WriteM1
        BY <1>12 DEF Migrate, WriteM1, AppendM1, Appending, rows
    <2> QED BY <1>5, <2>1 DEF Open
<1>13. CASE WriteM1
    <2>1. /\ worker # None /\ worker.pc = "M1" /\ UNCHANGED <<datasets, jobs>>
          /\ worker' = [worker EXCEPT !.pc = "HTF", !.combined = Combined,
                          !.ds.m1Rows = @ + Cardinality(worker.novel),
                          !.ds.m1End = Max({@, Max(MinutesOf(worker.novel))})]
          /\ refilled' = IF disk[worker.d].m1[worker.id] = {} THEN refilled ELSE refilled \cup {worker.id}
        BY <1>13 DEF WriteM1, AppendM1, Appending, rows
    <2>2. /\ worker \in [pc : {"MIGRATE", "M1", "HTF", "COMMIT"}, trigger : Schedulers, id : Ids,
                         d : Nat, ds : DatasetRows, novel : BarSets, combined : SUBSET Minutes]
          /\ worker.id \in Open /\ worker.d \in DOMAIN datasets
        BY <2>1, AppendingFacts DEF AppendKept
    <2>3. disk[worker.d].m1[worker.id] = {}
        BY <1>2, <2>1, <2>2
    <2>4. worker'.pc = "HTF" /\ worker'.id = worker.id /\ worker' # None
        <3>1. worker'.pc = "HTF" /\ worker'.id = worker.id
            BY <2>1, <2>2
        <3>2. worker' \in Ticks
            BY <1>13, WriteM1Kept
        <3> QED BY <3>1, <3>2, NoneAssumption
    <2>5. \A i \in Open' : i = worker.id
        BY <1>1, <2>1, <2>2 DEF RequestsKept, Open
    <2> QED BY <1>1, <2>1, <2>3, <2>4, <2>5 DEF WrittenOnce
<1>14. CASE WriteHtf
    <2>1. PICK rs : rs = {r \in Derived : r.b > worker.ds.htfEnd}
        OBVIOUS
    <2>2. /\ worker # None /\ worker.pc = "HTF" /\ UNCHANGED <<datasets, jobs, refilled>> /\ ~WriteM1
          /\ worker' = [worker EXCEPT !.pc = "COMMIT",
                          !.ds.htfRows = @ + Cardinality(rs),
                          !.ds.htfEnd = Max({@} \cup {r.b : r \in rs}),
                          !.ds.fingerprint = Append(@, worker.novel)]
        BY <1>14, <2>1 DEF WriteHtf, WriteM1, AppendM1, Appending, rows
    <2>3. worker'.pc = "COMMIT" /\ worker'.id = worker.id
        BY <2>2, AppendingFacts
    <2>4. worker' # None
        BY <1>14, WriteHtfKept, NoneAssumption
    <2>5. Open' = Open
        BY <2>2 DEF Open
    <2>6. ASSUME NEW d \in DOMAIN datasets, NEW i \in Open, disk'[d].m1[i] # {} PROVE worker.id = i
        BY <1>2, <1>4, <2>2, <2>6
    <2> QED BY <1>1, <2>2, <2>3, <2>4, <2>5, <2>6 DEF WrittenOnce
<1>15. CASE CommitAppend
    <2>1. worker # None /\ worker.pc = "COMMIT" /\ UNCHANGED refilled /\ jobs' = [jobs EXCEPT ![worker.id].status = "COMPLETED"]
        BY <1>15 DEF CommitAppend, Finished, Appending
    <2>2. worker.id \in Open /\ worker.id \in Ids
        BY <2>1, AppendingFacts DEF AppendKept
    <2>3. \A i \in Open : i = worker.id
        BY <1>1, <2>2 DEF RequestsKept
    <2>4. /\ jobs'[worker.id].status = "COMPLETED"
          /\ \A j \in Ids \ {worker.id} : jobs'[j] = jobs[j]
        BY <1>1, <2>1, <2>2 DEF TypeOK, Jobs, Open
    <2>5. Open' = {}
        BY <2>3, <2>4 DEF Open
    <2> QED BY <1>6, <2>1, <2>5
<1>16. CASE WriteFails \/ Restart
    <2>1. worker = None
        <3> SUFFICES ASSUME worker # None PROVE FALSE
            OBVIOUS
        <3>1. faults' = faults + 1
            BY <1>16 DEF WriteFails, Restart
        <3>2. faults \in Int
            BY <1>1, SyncAssumption DEF TypeOK
        <3> QED BY <3>1, <3>2
    <2>2. UNCHANGED <<datasets, disk, jobs, refilled>> /\ worker' = None
        BY <1>16, <2>1 DEF WriteFails, Restart, Appending, rows
    <2> QED BY <1>1, <1>2, <2>1, <2>2 DEF WrittenOnce, Open
<1>17. CASE \E end \in Minutes : Bootstrap(end)
    <2>1. Open = {} /\ UNCHANGED <<jobs, refilled>>
        BY <1>17 DEF Bootstrap, MayBootstrap
    <2> QED BY <1>6, <2>1 DEF Open
<1> QED BY <1>7, <1>8, <1>9, <1>10, <1>11, <1>12, <1>13, <1>14, <1>15, <1>16, <1>17 DEF Next, Tick, TickStep


-----------------------------------------------------------------------------
(* The invariant *)

LEMMA FaultsGrow ==
    ASSUME TypeOK, [Next]_vars
    PROVE  /\ faults' = 0 => faults = 0
           /\ refilled \subseteq refilled'
<1>1. faults' = faults \/ faults' = faults + 1
    BY DEF Next, vars, MinutePasses, Revise, Collector, ExportCsv, ExportManifest, DeleteRequest, TerminalRestart,
           Tick, WriteRequest, Await, ConsumeEmpty, ConsumeRefused, ConsumeKnown, ConsumeUnreadable, BeginAppend,
           TickStep, CommitRequest, Migrate, WriteM1, AppendM1, WriteHtf, CommitAppend, WriteFails, Restart, Bootstrap,
           OnlyAppend, marketVars, collectorVars, rows
<1>2. faults \in Nat
    BY SyncAssumption DEF TypeOK
<1>3. refilled \subseteq refilled'
    BY DEF Next, vars, MinutePasses, Revise, Collector, ExportCsv, ExportManifest, DeleteRequest, TerminalRestart,
           Tick, WriteRequest, Await, ConsumeEmpty, ConsumeRefused, ConsumeKnown, ConsumeUnreadable, BeginAppend,
           TickStep, CommitRequest, Migrate, WriteM1, AppendM1, WriteHtf, CommitAppend, WriteFails, Restart, Bootstrap,
           OnlyAppend, marketVars, collectorVars, rows
<1> QED BY <1>1, <1>2, <1>3

\* Every step that replaces no fragment keeps the stronger part.
LEMMA CoreStep ==
    ASSUME ~BootstrapAnytime, Core, [Next]_vars, WriteM1 => disk[worker.d].m1[worker.id] = {}
    PROVE  Core'
<1>1. CASE UNCHANGED vars
    <2>1. /\ UNCHANGED <<traded, now, revised, requests, csv, manifest, export, datasets, disk,
                         jobs, state, worker, scheduler, faults, refilled>>
        BY <1>1 DEF vars
    <2>2. TypeOK' /\ UpToDateMeansNoOpenRequest'
        BY <2>1 DEF Core, TypeOK, UpToDateMeansNoOpenRequest, Open
    <2>3. DatasetsSound' /\ (faults' = 0 => DatasetsExact')
        BY <2>1, DataUntouched
    <2>4. RequestsSound' /\ TickSound'
        BY <2>1, SameTicks DEF Core, RequestsSound
    <2> QED BY <2>2, <2>3, <2>4 DEF Core
<1>2. CASE MinutePasses \/ (\E m \in Minutes : Revise(m))
    BY <1>2, MarketKeeps
<1>3. CASE Collector \/ TerminalRestart
    BY <1>3, ExportCsvKeeps, CollectorKeeps DEF Collector
<1>4. CASE \E trigger \in Schedulers : Tick(trigger)
    <2>1. PICK trigger \in Schedulers : Tick(trigger)
        BY <1>4
    <2>2. CASE \E id \in Ids : WriteRequest(trigger, id)
        BY <2>2, WriteRequestKeeps
    <2>3. CASE Await(trigger) \/ \E i \in Ids : ConsumeUnreadable(trigger, i)
        BY <2>3, ReportKeeps
    <2>4. CASE \E i \in Ids : ConsumeEmpty(trigger, i) \/ ConsumeRefused(trigger, i) \/ ConsumeKnown(trigger, i)
        BY <2>4, CloseKeeps
    <2>5. CASE \E i \in Ids : BeginAppend(trigger, i)
        BY <2>5, BeginAppendKeeps
    <2> QED BY <2>1, <2>2, <2>3, <2>4, <2>5 DEF Tick
<1>5. CASE TickStep
    BY <1>5, CommitRequestKeeps, MigrateKeeps, WriteM1Keeps, WriteHtfKeeps, CommitAppendKeeps DEF TickStep
<1>6. CASE WriteFails \/ Restart
    BY <1>6, CutOffKeeps
<1>7. CASE \E end \in Minutes : Bootstrap(end)
    BY <1>7, BootstrapKeeps
<1> QED BY <1>1, <1>2, <1>3, <1>4, <1>5, <1>6, <1>7 DEF Next

\* A fragment that is replaced is recorded as replaced.
LEMMA RefilledStep ==
    ASSUME Base, WriteM1, refilled' = {}
    PROVE  disk[worker.d].m1[worker.id] = {}
<1>1. /\ worker # None /\ worker.pc = "M1"
      /\ refilled' = IF disk[worker.d].m1[worker.id] = {} THEN refilled ELSE refilled \cup {worker.id}
    BY DEF WriteM1, AppendM1, Appending
<1> QED BY <1>1

\* The invariant, without what follows from the rest of it.
Inv == Base /\ OrderKept /\ (refilled = {} => Core) /\ (faults = 0 => WrittenOnce)

LEMMA InitInv == Init => Inv
<1> SUFFICES ASSUME Init PROVE Inv
    OBVIOUS
<1>1. Open = {} /\ refilled = {}
    BY DEF Init, Open
<1>2. WrittenOnce
    BY <1>1 DEF WrittenOnce
<1> QED BY <1>2, InitBase, InitOrder, InitCore DEF Inv

LEMMA InvStep == ~BootstrapAnytime /\ Inv /\ [Next]_vars => Inv'
<1> SUFFICES ASSUME ~BootstrapAnytime, Inv, [Next]_vars
             PROVE  Inv'
    OBVIOUS
<1>1. Base /\ OrderKept /\ TypeOK
    BY BaseFacts DEF Inv
<1>2. Base' /\ OrderKept'
    BY <1>1, BaseStep, OrderStep
<1>3. ASSUME refilled' = {} PROVE Core'
    <2>1. Core
        BY <1>1, <1>3, FaultsGrow DEF Inv
    <2>2. WriteM1 => disk[worker.d].m1[worker.id] = {}
        BY <1>1, <1>3, RefilledStep
    <2> QED BY <2>1, <2>2, CoreStep
<1>4. ASSUME faults' = 0 PROVE WrittenOnce'
    <2>1. faults = 0 /\ WrittenOnce
        BY <1>1, <1>4, FaultsGrow DEF Inv
    <2> QED BY <1>1, <1>4, <2>1, WrittenOnceStep
<1> QED BY <1>2, <1>3, <1>4 DEF Inv

LEMMA InvSuffices == Inv => RegistryInv
<1> SUFFICES ASSUME Inv PROVE RegistryInv
    OBVIOUS
<1>1. /\ TypeOK /\ UpToDateMeansNoOpenRequest /\ Kept /\ FilesKept /\ RequestsKept
    BY BaseFacts DEF Inv, Base
<1>2. HolesOnlyByReplacement
    BY <1>1 DEF RequestsKept, HolesOnlyByReplacement
<1>3. RegistryNeverAhead
    <2>1. CASE refilled = {}
        BY <2>1, NeverAhead DEF Inv
    <2>2. CASE refilled # {}
        BY <2>2 DEF RegistryNeverAhead
    <2> QED BY <2>1, <2>2
<1>4. FragmentOrderIsInert
    <2>1. \A d \in DOMAIN datasets : disk[d] \in Files /\ HtfSound(disk[d])
        BY <1>1, KeptFacts
    <2> QED BY <2>1, OneContent DEF FragmentOrderIsInert
<1>5. /\ refilled = {} => DatasetsSound /\ RequestsSound /\ TickSound
      /\ faults = 0 => DatasetsExact /\ WrittenOnce
    BY DEF Inv, Core, WrittenOnce
<1> QED BY <1>1, <1>2, <1>3, <1>4, <1>5 DEF RegistryInv, Inv

LEMMA RegistryInvGives == RegistryInv => Inv
BY DEF RegistryInv, Inv, Base, Core, WrittenOnce

\* As long as the Owner bootstraps only between requests, whatever is cut off,
\* revised or answered twice: no minute of the market is missing below the last
\* one on disk but those of a replaced fragment, no row is ahead of its files
\* while no fragment was replaced, no bucket's contents depend on the order of
\* the fragments and no request is open behind UP_TO_DATE.
THEOREM RegistryInvariant == ~BootstrapAnytime /\ Spec => []RegistryInv
<1>1. ~BootstrapAnytime /\ Init => RegistryInv
    BY InitInv, InvSuffices
<1>2. ~BootstrapAnytime /\ RegistryInv /\ [Next]_vars => RegistryInv'
    <2>1. Inv' => RegistryInv'
        BY InvSuffices, PTL
    <2> QED BY <2>1, RegistryInvGives, InvStep
<1>3. CASE ~BootstrapAnytime
    BY <1>1, <1>2, <1>3, PTL DEF Spec
<1> QED BY <1>3

\* Without a fault the rows count what is on disk and every complete bucket is
\* there.
THEOREM ExactSafety == ~BootstrapAnytime /\ Spec => []RegistryExactWithoutFaults
<1>1. RegistryInv => RegistryExactWithoutFaults
    <2> SUFFICES ASSUME RegistryInv, faults = 0, worker = None, NEW d \in DOMAIN datasets
                 PROVE  /\ datasets[d].m1Rows = Cardinality(OnDisk(d)) /\ datasets[d].m1End = Max(OnDisk(d))
                        /\ datasets[d].htfRows = Cardinality(BucketsOnDisk(disk[d]))
                        /\ {r.b : r \in ResampledCompleted(OnDisk(d))} \subseteq BucketsOnDisk(disk[d])
        BY DEF RegistryExactWithoutFaults
    <2>1. Row(d) = datasets[d] /\ Settled(d) = OnDisk(d)
        BY DEF Row, Settled, Busy
    <2>2. /\ RowExact(datasets[d], disk[d])
          /\ {r.b : r \in ResampledCompleted(OnDisk(d))} \subseteq BucketsOnDisk(disk[d])
        BY <2>1 DEF RegistryInv, DatasetsExact
    <2>3. DatasetsSound
        BY DEF RegistryInv, WrittenOnce
    <2>4. PICK e, l : e = datasets[d].m1End /\ l = Max(OnDisk(d))
        OBVIOUS
    <2>5. e \in OnDisk(d) /\ l \in OnDisk(d) /\ e \in Minutes /\ l \in Minutes /\ e <= l
        BY <2>3, <2>4, DatasetFacts DEF RowSound, OnDisk
    <2>6. l <= e
        BY <2>2, <2>4, <2>5 DEF RowExact, OnDisk
    <2>7. e = l
        BY <2>5, <2>6 DEF Minutes
    <2> QED BY <2>2, <2>4, <2>7 DEF RowExact, OnDisk
<1> QED BY <1>1, RegistryInvariant, PTL

\* No file of the snapshot or of a request that is closed ever changes, and new
\* bars come behind all bars of the snapshot and of completed requests.
THEOREM FinishedHistorySafety == ~BootstrapAnytime /\ Spec => FinishedHistoryIsAppendOnly
<1>1. ASSUME ~BootstrapAnytime, RegistryInv, [Next]_vars
      PROVE  [\A d \in DOMAIN datasets :
                /\ \A i \in Frags \ Open : disk'[d].m1[i] = disk[d].m1[i]
                /\ \A b \in M1(disk'[d]) \ M1(disk[d]) :
                     \A i \in Completed \cup {0} : \A c \in disk[d].m1[i] : c.m < b.m]_vars
    <2>1. Base /\ OrderKept /\ TypeOK /\ FilesKept /\ RequestsKept /\ traded \in SUBSET Minutes
        BY <1>1, RegistryInvGives, BaseFacts DEF Inv
    <2> SUFFICES ASSUME NEW d \in DOMAIN datasets
                 PROVE  /\ \A i \in Frags \ Open : disk'[d].m1[i] = disk[d].m1[i]
                        /\ \A b \in M1(disk'[d]) \ M1(disk[d]) :
                             \A i \in Completed \cup {0} : \A c \in disk[d].m1[i] : c.m < b.m
        OBVIOUS
    <2>2. \A i \in Frags :
            \/ disk'[d].m1[i] = disk[d].m1[i]
            \/ /\ WriteM1 /\ worker # None /\ worker.pc = "M1" /\ d = worker.d /\ i = worker.id
               /\ disk'[d].m1[i] = worker.novel
        BY <1>1, <2>1, FragmentsStep
    <2>3. worker # None /\ worker.pc = "M1" => AppendKept /\ worker.d = Active
        BY <2>1, AppendingFacts
    <2>4. \A i \in Frags \ Open : disk'[d].m1[i] = disk[d].m1[i]
        BY <2>2, <2>3 DEF AppendKept
    <2>5. ASSUME NEW b \in M1(disk'[d]) \ M1(disk[d]), NEW i \in Completed \cup {0}, NEW c \in disk[d].m1[i]
          PROVE  c.m < b.m
        <3>1. PICK k \in Frags : b \in disk'[d].m1[k] /\ b \notin disk[d].m1[k]
            BY <2>5 DEF M1
        <3>2. worker # None /\ worker.pc = "M1" /\ d = worker.d /\ b \in worker.novel
            BY <2>2, <3>1
        <3>3. AppendKept /\ d = Active
            BY <2>3, <3>2
        <3>4. PICK m, n, from, u : m = b.m /\ n = c.m /\ from = jobs[worker.id].from /\ u = from - 1
            OBVIOUS
        <3>5. PICK t \in Minutes : NovelMinutes = (traded \cap from .. t) \ OnDisk(d)
            BY <3>2, <3>3, <3>4 DEF AppendKept
        <3>6. m \in NovelMinutes
            BY <3>2, <3>4 DEF NovelMinutes, MinutesOf
        <3>7. RequestKept(worker.id, from) /\ FinalAfter(u)
            BY <2>1, <3>3, <3>4 DEF AppendKept, RequestsKept, OrderKept
        <3>8. from \in Nat /\ m \in traded /\ m \in Minutes /\ m \notin OnDisk(d) /\ from <= m
            BY <2>1, <3>5, <3>6, <3>7 DEF RequestKept
        <3>9. i \in Frags /\ n \in MinutesOf(disk[d].m1[i])
            BY <3>4, SyncAssumption DEF Completed, Ids, Frags, MinutesOf
        <3>10. n \in Minutes
            <4>1. disk[d] \in Files /\ OnDisk(d) \in SUBSET Minutes
                BY <2>1, KeptFacts
            <4>2. MinutesOf(disk[d].m1[i]) \subseteq OnDisk(d)
                BY <3>9, <4>1, BarsOfFiles DEF OnDisk
            <4> QED BY <3>9, <4>1, <4>2
        <3>11. ASSUME m <= n PROVE FALSE
            <4>1. u < m
                BY <3>4, <3>8 DEF Minutes
            <4>2. m \in Final
                BY <2>5, <3>3, <3>7, <3>8, <3>9, <3>11, <4>1 DEF FinalAfter
            <4>3. Final \subseteq OnDisk(Active)
                BY DEF Final, OnDisk, M1, MinutesOf
            <4> QED BY <3>3, <3>8, <4>2, <4>3
        <3>12. n < m
            BY <3>8, <3>10, <3>11 DEF Minutes
        <3> QED BY <3>4, <3>12
    <2> QED BY <2>4, <2>5
<1>2. CASE ~BootstrapAnytime
    <2>1. RegistryInv /\ [Next]_vars =>
            [\A d \in DOMAIN datasets :
                /\ \A i \in Frags \ Open : disk'[d].m1[i] = disk[d].m1[i]
                /\ \A b \in M1(disk'[d]) \ M1(disk[d]) :
                     \A i \in Completed \cup {0} : \A c \in disk[d].m1[i] : c.m < b.m]_vars
        BY <1>1, <1>2
    <2> QED BY <1>2, <2>1, RegistryInvariant, PTL DEF Spec, FinishedHistoryIsAppendOnly
<1> QED BY <1>2

=============================================================================
