--------------------------- MODULE StreamsProofs ---------------------------
(***************************************************************************)
(* Proofs of the safety properties of Streams.                             *)
(***************************************************************************)
EXTENDS Streams, FiniteSetTheorems, SequenceTheorems, WellFoundedInduction, TLAPS

-----------------------------------------------------------------------------
(* Induction over a set of numbers, and functions that are defined by        *)
(* recursion.                                                                *)

LEMMA Least ==
  ASSUME NEW T, T \subseteq Nat, T # {}
  PROVE  \E m \in T : \A n \in T : m <= n
  <1>0. PICK R : R = {ss \in Nat \X Nat : ss[1] < ss[2]}
    OBVIOUS
  <1>1. IsWellFoundedOn(R, Nat)
    BY <1>0, NatLessThanWellFounded DEF OpToRel
  <1>2. PICK m \in T : \A y \in T : ~(<<y, m>> \in R)
    BY <1>1, WFMin
  <1>3. \A y \in T : ~(y < m)
    BY <1>0, <1>2
  <1> QED BY <1>3

LEMMA SetInduction ==
  ASSUME NEW T, 0 \in T, \A n \in Nat : n \in T => n + 1 \in T
  PROVE  Nat \subseteq T
  <1> SUFFICES ASSUME NEW k \in Nat, k \notin T PROVE FALSE
    OBVIOUS
  <1>1. PICK m \in Nat \ T : \A n \in Nat \ T : m <= n
    <2>1. PICK U : U = Nat \ T
      OBVIOUS
    <2>2. U \subseteq Nat /\ U # {}
      BY <2>1
    <2> QED BY <2>1, <2>2, Least
  <1>2. m # 0 /\ m - 1 \in Nat /\ m - 1 \in T
    BY <1>1
  <1> QED BY <1>1, <1>2

\* The function that starts with x0 and applies g[i] in its i-th step.
IsRun(h, n, x0, g) == h[0] = x0 /\ \A i \in 1..n : h[i] = g[i][h[i - 1]]

LEMMA Iterates ==
  ASSUME NEW S, NEW x0 \in S, NEW n \in Nat, NEW g \in [1..n -> [S -> S]]
  PROVE  \E h \in [0..n -> S] : IsRun(h, n, x0, g)
  <1> PICK T : T = {k \in Nat : k <= n => \E h \in [0..k -> S] : IsRun(h, k, x0, g)}
    OBVIOUS
  <1>1. 0 \in T
    <2> PICK h : h = [i \in 0..0 |-> x0]
      OBVIOUS
    <2>1. h \in [0..0 -> S] /\ IsRun(h, 0, x0, g)
      BY DEF IsRun
    <2> QED BY <2>1
  <1>2. ASSUME NEW k \in Nat, k \in T PROVE k + 1 \in T
    <2> SUFFICES ASSUME k + 1 <= n
                 PROVE  \E h \in [0..(k + 1) -> S] : IsRun(h, k + 1, x0, g)
      OBVIOUS
    <2>1. PICK h \in [0..k -> S] : IsRun(h, k, x0, g)
      BY <1>2
    <2>2. PICK f : f = [i \in 0..(k + 1) |-> IF i = k + 1 THEN g[k + 1][h[k]] ELSE h[i]]
      OBVIOUS
    <2>3. g[k + 1] \in [S -> S] /\ h[k] \in S
      OBVIOUS
    <2>4. f \in [0..(k + 1) -> S]
      BY <2>2, <2>3
    <2>5. f[0] = x0
      BY <2>1, <2>2 DEF IsRun
    <2>6. ASSUME NEW i \in 1..(k + 1) PROVE f[i] = g[i][f[i - 1]]
      <3>1. CASE i = k + 1
        BY <2>2, <3>1
      <3>2. CASE i # k + 1
        BY <2>1, <2>2, <3>2 DEF IsRun
      <3> QED BY <3>1, <3>2
    <2>7. IsRun(f, k + 1, x0, g)
      BY <2>5, <2>6 DEF IsRun
    <2> QED BY <2>4, <2>7
  <1>3. Nat \subseteq T
    BY <1>1, <1>2, SetInduction
  <1> QED BY <1>3

\* The sums of the first numbers of b.
IsSum(f, n, b) == f = [i \in 0..n |-> IF i = 0 THEN 0 ELSE f[i - 1] + b[i]]

LEMMA SumExists ==
  ASSUME NEW n \in Nat, NEW b \in [1..n -> Nat]
  PROVE  \E h : IsSum(h, n, b)
  <1> PICK g : g = [i \in 1..n |-> [x \in Nat |-> x + b[i]]]
    OBVIOUS
  <1> PICK z \in Nat : z = 0
    OBVIOUS
  <1>1. g \in [1..n -> [Nat -> Nat]]
    OBVIOUS
  <1>2. PICK h \in [0..n -> Nat] : IsRun(h, n, z, g)
    BY <1>1, Iterates
  <1>3. ASSUME NEW i \in 1..n PROVE h[i] = h[i - 1] + b[i]
    <2>1. PICK k \in 0..n : k = i - 1
      OBVIOUS
    <2>2. h[k] \in Nat /\ g[i] = [x \in Nat |-> x + b[i]]
      OBVIOUS
    <2>3. h[i] = g[i][h[k]]
      BY <1>2, <2>1 DEF IsRun
    <2> QED BY <2>1, <2>2, <2>3
  <1>4. \A i \in 0..n : h[i] = IF i = 0 THEN 0 ELSE h[i - 1] + b[i]
    <2>1. h[0] = 0
      BY <1>2 DEF IsRun
    <2>2. \A i \in 0..n : i = 0 \/ i \in 1..n
      OBVIOUS
    <2> QED BY <1>3, <2>1, <2>2
  <1>5. IsSum(h, n, b)
    <2>1. h = [i \in 0..n |-> h[i]]
      OBVIOUS
    <2> QED BY <1>4, <2>1 DEF IsSum
  <1> QED BY <1>5

LEMMA SumIs ==
  ASSUME NEW n \in Nat, NEW b \in [1..n -> Nat], NEW f, IsSum(f, n, b)
  PROVE  /\ f \in [0..n -> Nat]
         /\ f[0] = 0
         /\ \A i \in 1..n : f[i] = f[i - 1] + b[i]
  <1>1. f[0] = 0 /\ \A i \in 1..n : f[i] = f[i - 1] + b[i]
    BY DEF IsSum
  <1>2. PICK T : T = {i \in Nat : i <= n => f[i] \in Nat}
    OBVIOUS
  <1>3. 0 \in T
    BY <1>1, <1>2
  <1>4. ASSUME NEW i \in Nat, i \in T PROVE i + 1 \in T
    <2> SUFFICES ASSUME i + 1 <= n PROVE f[i + 1] \in Nat
      BY <1>2
    <2>1. i + 1 \in 1..n /\ (i + 1) - 1 = i /\ f[i] \in Nat
      BY <1>2, <1>4
    <2>2. f[i + 1] = f[i] + b[i + 1] /\ b[i + 1] \in Nat
      BY <1>1, <2>1
    <2> QED BY <2>1, <2>2
  <1>5. Nat \subseteq T
    BY <1>3, <1>4, SetInduction
  <1>6. \A i \in 0..n : f[i] \in Nat
    BY <1>2, <1>5
  <1>7. f = [i \in 0..n |-> f[i]]
    BY DEF IsSum
  <1> QED BY <1>1, <1>6, <1>7

Item == Channels \X Nat
Request == [data : Seq(Item), eos : BOOLEAN]

Hit(v, c) == IF v[1] = c THEN 1 ELSE 0

\* f counts the bytes of c in data, or the bytes of writes.
IsCount(f, data, c) ==
    /\ f \in [0..Len(data) -> Nat] /\ f[0] = 0
    /\ \A i \in 1..Len(data) : f[i] = f[i - 1] + Hit(data[i], c)

IsLength(f, writes) ==
    /\ f \in [0..Len(writes) -> Nat] /\ f[0] = 0
    /\ \A i \in 1..Len(writes) : f[i] = f[i - 1] + Len(writes[i].data)

LEMMA BytesIs ==
  ASSUME NEW data \in Seq(Item), NEW c
  PROVE  IsCount(Bytes(data, c), data, c)
  <1> PICK n \in Nat : n = Len(data)
    OBVIOUS
  <1>0. \A i \in 1..n : Hit(data[i], c) \in Nat
    BY DEF Hit
  <1>1. PICK b : b = [i \in 1..n |-> Hit(data[i], c)]
    OBVIOUS
  <1> b \in [1..n -> Nat]
    BY <1>0, <1>1
  <1>2. PICK h : IsSum(h, n, b)
    BY SumExists
  <1>3. h = [i \in 0..n |-> IF i = 0 THEN 0 ELSE h[i - 1] + Hit(data[i], c)]
    <2>1. \A i \in 0..n : h[i] = IF i = 0 THEN 0 ELSE h[i - 1] + b[i]
      BY <1>2 DEF IsSum
    <2>2. \A i \in 0..n : i = 0 \/ b[i] = Hit(data[i], c)
      BY <1>1
    <2>3. h = [i \in 0..n |-> h[i]]
      BY <1>2 DEF IsSum
    <2> QED BY <2>1, <2>2, <2>3
  <1>4. PICK f : f = Bytes(data, c)
    OBVIOUS
  <1>5. f = [i \in 0..n |-> IF i = 0 THEN 0 ELSE f[i - 1] + Hit(data[i], c)]
    BY <1>3, <1>4 DEF Bytes, Hit
  <1>6. IsSum(f, n, b)
    <2>1. ASSUME NEW i \in 0..n, i # 0 PROVE f[i] = f[i - 1] + b[i]
      <3>1. f[i] = f[i - 1] + Hit(data[i], c)
        BY <1>5, <2>1
      <3>2. i \in 1..n
        BY <2>1
      <3>3. b[i] = Hit(data[i], c)
        BY <1>1, <3>2
      <3> QED BY <3>1, <3>3
    <2>2. \A i \in 0..n : f[i] = IF i = 0 THEN 0 ELSE f[i - 1] + b[i]
      BY <1>5, <2>1
    <2>3. f = [i \in 0..n |-> f[i]]
      BY <1>5
    <2> QED BY <2>2, <2>3 DEF IsSum
  <1>7. /\ f \in [0..n -> Nat]
        /\ f[0] = 0
        /\ \A i \in 1..n : f[i] = f[i - 1] + b[i]
    BY <1>6, SumIs
  <1> QED BY <1>1, <1>4, <1>7 DEF IsCount

LEMMA WaitingIs ==
  ASSUME NEW writes \in Seq(Request)
  PROVE  IsLength(Waiting(writes), writes)
  <1> PICK n \in Nat : n = Len(writes)
    OBVIOUS
  <1>0. \A i \in 1..n : Len(writes[i].data) \in Nat
    BY DEF Request
  <1>1. PICK b : b = [i \in 1..n |-> Len(writes[i].data)]
    OBVIOUS
  <1> b \in [1..n -> Nat]
    BY <1>0, <1>1
  <1>2. PICK h : IsSum(h, n, b)
    BY SumExists
  <1>3. h = [i \in 0..n |-> IF i = 0 THEN 0 ELSE h[i - 1] + Len(writes[i].data)]
    <2>1. \A i \in 0..n : h[i] = IF i = 0 THEN 0 ELSE h[i - 1] + b[i]
      BY <1>2 DEF IsSum
    <2>2. \A i \in 0..n : i = 0 \/ b[i] = Len(writes[i].data)
      BY <1>1
    <2>3. h = [i \in 0..n |-> h[i]]
      BY <1>2 DEF IsSum
    <2>4. \A i \in 0..n : h[i] = IF i = 0 THEN 0 ELSE h[i - 1] + Len(writes[i].data)
      BY ONLY <2>1, <2>2
    <2> QED BY ONLY <2>3, <2>4
  <1>4. PICK f : f = Waiting(writes)
    OBVIOUS
  <1>5. f = [i \in 0..n |-> IF i = 0 THEN 0 ELSE f[i - 1] + Len(writes[i].data)]
    BY <1>3, <1>4 DEF Waiting
  <1>6. IsSum(f, n, b)
    <2>1. ASSUME NEW i \in 0..n, i # 0 PROVE f[i] = f[i - 1] + b[i]
      <3>1. f[i] = f[i - 1] + Len(writes[i].data)
        BY <1>5, <2>1
      <3>2. i \in 1..n
        BY <2>1
      <3>3. b[i] = Len(writes[i].data)
        BY <1>1, <3>2
      <3> QED BY <3>1, <3>3
    <2>2. \A i \in 0..n : f[i] = IF i = 0 THEN 0 ELSE f[i - 1] + b[i]
      BY <1>5, <2>1
    <2>3. f = [i \in 0..n |-> f[i]]
      BY <1>5
    <2> QED BY <2>2, <2>3 DEF IsSum
  <1>7. /\ f \in [0..n -> Nat]
        /\ f[0] = 0
        /\ \A i \in 1..n : f[i] = f[i - 1] + b[i]
    BY <1>6, SumIs
  <1> QED BY <1>1, <1>4, <1>7 DEF IsLength

LEMMA Shift == \A i, j, k, m, n \in Nat : i + j + (k + m) + n = i + (j + m) + k + n
  OBVIOUS

-----------------------------------------------------------------------------
(* Counting the bytes of a channel. *)

\* x is data with more behind it.
Extends(x, data, more) ==
    /\ Len(x) = Len(data) + Len(more)
    /\ \A i \in 1..Len(data) : x[i] = data[i]
    /\ \A i \in 1..Len(more) : x[Len(data) + i] = more[i]

LEMMA BytesPrefix ==
  ASSUME NEW c, NEW x \in Seq(Item), NEW data \in Seq(Item), NEW n \in Nat,
         n <= Len(x), n <= Len(data), \A i \in 1..n : x[i] = data[i]
  PROVE  \A i \in 0..n : Bytes(x, c)[i] = Bytes(data, c)[i]
  <1> PICK f, g : f = Bytes(x, c) /\ g = Bytes(data, c)
    OBVIOUS
  <1>0. IsCount(f, x, c) /\ IsCount(g, data, c)
    BY BytesIs
  <1>1. /\ f[0] = 0 /\ \A i \in 1..n : f[i] = f[i - 1] + Hit(x[i], c)
        /\ g[0] = 0 /\ \A i \in 1..n : g[i] = g[i - 1] + Hit(data[i], c)
    <2>1. \A i \in 1..n : i \in 1..Len(x) /\ i \in 1..Len(data)
      OBVIOUS
    <2> QED BY <1>0, <2>1 DEF IsCount
  <1>2. PICK T : T = {i \in Nat : i <= n => f[i] = g[i]}
    OBVIOUS
  <1>3. 0 \in T
    BY <1>1, <1>2
  <1>4. ASSUME NEW i \in Nat, i \in T PROVE i + 1 \in T
    <2> SUFFICES ASSUME i + 1 <= n PROVE f[i + 1] = g[i + 1]
      BY <1>2
    <2>1. i + 1 \in 1..n /\ (i + 1) - 1 = i /\ f[i] = g[i] /\ x[i + 1] = data[i + 1]
      BY <1>2, <1>4
    <2> QED BY <1>1, <2>1
  <1>5. Nat \subseteq T
    BY <1>3, <1>4, SetInduction
  <1> QED BY <1>2, <1>5

LEMMA BytesExtends ==
  ASSUME NEW c, NEW x \in Seq(Item), NEW data \in Seq(Item), NEW more \in Seq(Item),
         Extends(x, data, more)
  PROVE  /\ \A i \in 0..Len(data) : Bytes(x, c)[i] = Bytes(data, c)[i]
         /\ \A i \in 0..Len(more) :
              Bytes(x, c)[Len(data) + i] = Bytes(data, c)[Len(data)] + Bytes(more, c)[i]
  <1> PICK m, n : m = Len(data) /\ n = Len(more)
    OBVIOUS
  <1>0. /\ m \in Nat /\ n \in Nat /\ Len(x) = m + n
        /\ \A i \in 1..m : x[i] = data[i]
        /\ \A i \in 1..n : x[m + i] = more[i]
    BY DEF Extends
  <1>1. \A i \in 0..m : Bytes(x, c)[i] = Bytes(data, c)[i]
    <2>1. m <= Len(x) /\ m <= Len(data)
      BY <1>0
    <2> QED BY <1>0, <2>1, BytesPrefix
  <1> PICK f, g, h : f = Bytes(x, c) /\ g = Bytes(more, c) /\ h = Bytes(data, c)[m]
    OBVIOUS
  <1>a. IsCount(f, x, c) /\ IsCount(g, more, c) /\ IsCount(Bytes(data, c), data, c)
    BY BytesIs
  <1>2. /\ \A i \in 1..(m + n) : f[i] = f[i - 1] + Hit(x[i], c)
        /\ g[0] = 0 /\ \A i \in 1..n : g[i] = g[i - 1] + Hit(more[i], c)
        /\ g \in [0..n -> Nat]
    BY <1>0, <1>a DEF IsCount
  <1>3. h \in Nat /\ f[m] = h
    <2>1. Bytes(data, c) \in [0..m -> Nat] /\ m \in 0..m
      BY <1>0, <1>a DEF IsCount
    <2> QED BY <1>1, <2>1
  <1>4. PICK T : T = {i \in Nat : i <= n => f[m + i] = h + g[i]}
    OBVIOUS
  <1>5. 0 \in T
    BY <1>0, <1>2, <1>3, <1>4
  <1>6. ASSUME NEW i \in Nat, i \in T PROVE i + 1 \in T
    <2> SUFFICES ASSUME i + 1 <= n PROVE f[m + (i + 1)] = h + g[i + 1]
      BY <1>4
    <2>1. /\ i + 1 \in 1..n /\ (i + 1) - 1 = i /\ f[m + i] = h + g[i]
          /\ m + (i + 1) \in 1..(m + n) /\ (m + (i + 1)) - 1 = m + i
      BY <1>0, <1>4, <1>6
    <2>2. x[m + (i + 1)] = more[i + 1]
      BY <1>0, <2>1
    <2>6. g[i] \in Nat
      <3>1. i \in 0..n
        BY <2>1
      <3> QED BY <1>2, <3>1
    <2>3. PICK k \in {0, 1} : k = Hit(more[i + 1], c)
      BY DEF Hit
    <2>4. f[m + (i + 1)] = f[m + i] + k
      BY <1>2, <2>1, <2>2, <2>3
    <2>5. g[i + 1] = g[i] + k
      BY <1>2, <2>1, <2>3
    <2> QED BY <1>3, <2>1, <2>4, <2>5, <2>6
  <1>7. Nat \subseteq T
    BY <1>5, <1>6, SetInduction
  <1>8. \A i \in 0..n : f[m + i] = h + g[i]
    BY <1>4, <1>7
  <1> QED BY <1>1, <1>8

LEMMA BytesOwn ==
  ASSUME NEW data \in Seq(Item), NEW c, \A i \in 1..Len(data) : data[i][1] = c
  PROVE  \A i \in 0..Len(data) : Bytes(data, c)[i] = i
  <1> PICK f, n : f = Bytes(data, c) /\ n = Len(data)
    OBVIOUS
  <1>2. n \in Nat /\ f[0] = 0 /\ \A i \in 1..n : f[i] = f[i - 1] + 1
    <2>1. IsCount(f, data, c)
      BY BytesIs
    <2>2. \A i \in 1..n : Hit(data[i], c) = 1
      BY DEF Hit
    <2> QED BY <2>1, <2>2 DEF IsCount
  <1>3. PICK T : T = {i \in Nat : i <= n => f[i] = i}
    OBVIOUS
  <1>4. 0 \in T
    BY <1>2, <1>3
  <1>5. ASSUME NEW i \in Nat, i \in T PROVE i + 1 \in T
    <2> SUFFICES ASSUME i + 1 <= n PROVE f[i + 1] = i + 1
      BY <1>3
    <2>1. i + 1 \in 1..n /\ (i + 1) - 1 = i /\ f[i] = i
      BY <1>3, <1>5
    <2> QED BY <1>2, <2>1
  <1>6. Nat \subseteq T
    BY <1>4, <1>5, SetInduction
  <1> QED BY <1>2, <1>3, <1>6

LEMMA BytesNone ==
  ASSUME NEW data \in Seq(Item), NEW c, \A i \in 1..Len(data) : data[i][1] # c
  PROVE  Bytes(data, c)[Len(data)] = 0
  <1> PICK f, n : f = Bytes(data, c) /\ n = Len(data)
    OBVIOUS
  <1>1. IsCount(f, data, c)
    BY BytesIs
  <1>2. n \in Nat /\ f[0] = 0 /\ \A i \in 1..n : f[i] = f[i - 1] + 0
    <2>1. \A i \in 1..n : Hit(data[i], c) = 0
      BY DEF Hit
    <2> QED BY <1>1, <2>1 DEF IsCount
  <1>3. PICK T : T = {i \in Nat : i <= n => f[i] = 0}
    OBVIOUS
  <1>4. 0 \in T
    BY <1>2, <1>3
  <1>5. ASSUME NEW i \in Nat, i \in T PROVE i + 1 \in T
    <2> SUFFICES ASSUME i + 1 <= n PROVE f[i + 1] = 0
      BY <1>3
    <2>1. i + 1 \in 1..n /\ (i + 1) - 1 = i /\ f[i] = 0
      BY <1>3, <1>5
    <2> QED BY <1>2, <2>1
  <1>6. Nat \subseteq T
    BY <1>4, <1>5, SetInduction
  <1> QED BY <1>2, <1>3, <1>6

LEMMA WaitingAppend ==
  ASSUME NEW W \in Seq(Request), NEW r \in Request, NEW V, V = Append(W, r)
  PROVE  /\ V \in Seq(Request)
         /\ \A k \in 0..Len(W) : Waiting(V)[k] = Waiting(W)[k]
         /\ Waiting(V)[Len(W) + 1] = Waiting(W)[Len(W)] + Len(r.data)
  <1> PICK f, g, n : f = Waiting(V) /\ g = Waiting(W) /\ n = Len(W)
    OBVIOUS
  <1>1. /\ V \in Seq(Request) /\ n \in Nat /\ Len(V) = n + 1 /\ V[n + 1] = r
        /\ \A i \in 1..n : V[i] = W[i]
    OBVIOUS
  <1>2. IsLength(f, V) /\ IsLength(g, W)
    BY <1>1, WaitingIs
  <1>3. /\ f[0] = 0 /\ \A i \in 1..(n + 1) : f[i] = f[i - 1] + Len(V[i].data)
        /\ g[0] = 0 /\ \A i \in 1..n : g[i] = g[i - 1] + Len(W[i].data)
    BY <1>1, <1>2 DEF IsLength
  <1>4. PICK T : T = {i \in Nat : i <= n => f[i] = g[i]}
    OBVIOUS
  <1>5. 0 \in T
    BY <1>3, <1>4
  <1>6. ASSUME NEW i \in Nat, i \in T PROVE i + 1 \in T
    <2> SUFFICES ASSUME i + 1 <= n PROVE f[i + 1] = g[i + 1]
      BY <1>4
    <2>1. /\ i + 1 \in 1..n /\ i + 1 \in 1..(n + 1) /\ (i + 1) - 1 = i /\ f[i] = g[i]
          /\ V[i + 1] = W[i + 1]
      BY <1>1, <1>4, <1>6
    <2> QED BY <1>3, <2>1
  <1>7. Nat \subseteq T
    BY <1>5, <1>6, SetInduction
  <1>8. \A k \in 0..n : f[k] = g[k]
    BY <1>4, <1>7
  <1>9. f[n + 1] = g[n] + Len(r.data)
    <2>1. n + 1 \in 1..(n + 1) /\ (n + 1) - 1 = n /\ n \in 0..n
      BY <1>1
    <2> QED BY <1>1, <1>3, <1>8, <2>1
  <1> QED BY <1>1, <1>8, <1>9

\* The first n bytes of the first request are gone.
LEMMA WaitingFirst ==
  ASSUME NEW W \in Seq(Request), NEW V \in Seq(Request), NEW n \in Nat, W # <<>>,
         Len(V) = Len(W), Len(V[1].data) + n = Len(W[1].data),
         \A k \in 2..Len(W) : V[k] = W[k]
  PROVE  \A k \in 1..Len(W) : Waiting(V)[k] + n = Waiting(W)[k]
  <1> PICK f, g, m : f = Waiting(V) /\ g = Waiting(W) /\ m = Len(W)
    OBVIOUS
  <1>1. m \in Nat /\ m > 0
    OBVIOUS
  <1>2. IsLength(f, V) /\ IsLength(g, W)
    BY WaitingIs
  <1>3. /\ f[0] = 0 /\ \A i \in 1..m : f[i] = f[i - 1] + Len(V[i].data)
        /\ g[0] = 0 /\ \A i \in 1..m : g[i] = g[i - 1] + Len(W[i].data)
        /\ \A i \in 0..m : f[i] \in Nat /\ g[i] \in Nat
    BY <1>1, <1>2 DEF IsLength
  <1>4. PICK T : T = {i \in Nat : i \in 1..m => f[i] + n = g[i]}
    OBVIOUS
  <1>5. 0 \in T
    BY <1>4
  <1>6. ASSUME NEW i \in Nat, i \in T PROVE i + 1 \in T
    <2> SUFFICES ASSUME i + 1 <= m PROVE f[i + 1] + n = g[i + 1]
      BY <1>4
    <2>1. i + 1 \in 1..m /\ (i + 1) - 1 = i /\ i \in 0..m
      BY <1>1
    <2>2. f[i + 1] = f[i] + Len(V[i + 1].data) /\ g[i + 1] = g[i] + Len(W[i + 1].data)
      BY <1>3, <2>1
    <2>a. \A k \in 1..m : W[k] \in Request /\ V[k] \in Request
      OBVIOUS
    <2>b. Len(V[i + 1].data) \in Nat /\ Len(W[i + 1].data) \in Nat
      BY <2>a, <2>1 DEF Request
    <2>3. CASE i = 0
      BY <1>3, <2>2, <2>3, <2>b
    <2>4. CASE i # 0
      <3>1. i \in 1..m /\ i + 1 \in 2..m /\ f[i] \in Nat /\ g[i] \in Nat
        BY <2>1, <2>4, <1>3
      <3>2. f[i] + n = g[i] /\ V[i + 1] = W[i + 1]
        BY <1>4, <1>6, <3>1
      <3> QED BY <2>2, <2>b, <3>1, <3>2
    <2> QED BY <2>3, <2>4
  <1>7. Nat \subseteq T
    BY <1>5, <1>6, SetInduction
  <1> QED BY <1>4, <1>7

LEMMA WaitingTail ==
  ASSUME NEW W \in Seq(Request), W # <<>>, NEW V \in Seq(Request), NEW n \in Nat,
         n = Len(W[1].data), Len(V) + 1 = Len(W), \A k \in 1..Len(V) : V[k] = W[k + 1]
  PROVE  \A k \in 0..Len(V) : Waiting(W)[k + 1] = Waiting(V)[k] + n
  <1> PICK f, g, m : f = Waiting(V) /\ g = Waiting(W) /\ m = Len(V)
    OBVIOUS
  <1>1. m \in Nat
    OBVIOUS
  <1>2. IsLength(f, V) /\ IsLength(g, W)
    BY WaitingIs
  <1>3. /\ f[0] = 0 /\ \A i \in 1..m : f[i] = f[i - 1] + Len(V[i].data)
        /\ g[0] = 0 /\ \A i \in 1..(m + 1) : g[i] = g[i - 1] + Len(W[i].data)
        /\ \A i \in 0..m : f[i] \in Nat
    BY <1>1, <1>2 DEF IsLength
  <1>4. PICK T : T = {i \in Nat : i <= m => g[i + 1] = f[i] + n}
    OBVIOUS
  <1>5. 0 \in T
    <2>1. 1 \in 1..(m + 1)
      BY <1>1
    <2> QED BY <1>3, <1>4, <2>1
  <1>6. ASSUME NEW i \in Nat, i \in T PROVE i + 1 \in T
    <2> SUFFICES ASSUME i + 1 <= m PROVE g[(i + 1) + 1] = f[i + 1] + n
      BY <1>4
    <2>1. /\ i + 1 \in 1..m /\ (i + 1) - 1 = i /\ i \in 0..m
          /\ (i + 1) + 1 \in 1..(m + 1) /\ ((i + 1) + 1) - 1 = i + 1
      BY <1>1
    <2>2. /\ f[i + 1] = f[i] + Len(V[i + 1].data)
          /\ g[(i + 1) + 1] = g[i + 1] + Len(W[(i + 1) + 1].data)
      BY <1>3, <2>1
    <2>3. V[i + 1] = W[(i + 1) + 1] /\ g[i + 1] = f[i] + n /\ f[i] \in Nat
      BY <1>3, <1>4, <1>6, <2>1
    <2>4. Len(V[i + 1].data) \in Nat
      BY <2>1 DEF Request
    <2> QED BY <2>2, <2>3, <2>4
  <1>7. Nat \subseteq T
    BY <1>5, <1>6, SetInduction
  <1> QED BY <1>4, <1>7

\* The bytes of c: those in the ring R and in the requests W follow the tk bytes that the
\* process has taken, and make up the sn bytes that were sent, unless the stream has ended
\* (eos) and nothing waits.
InRing(R, c, tk) == \A i \in 1..Len(R) : R[i][1] = c => R[i] = <<c, tk + Bytes(R, c)[i]>>

WriterOK(R, W, eos, c, tk, sn) ==
    /\ InRing(R, c, tk)
    /\ \A k \in 1..Len(W) : \A i \in 1..Len(W[k].data) :
         W[k].data[i] = <<c, tk + Bytes(R, c)[Len(R)] + Waiting(W)[k - 1] + i>>
    /\ W # <<>> \/ ~eos => sn = tk + Bytes(R, c)[Len(R)] + Waiting(W)[Len(W)]

\* Bytes of another channel are added to the ring.
LEMMA PutOther ==
  ASSUME NEW R \in Seq(Item), NEW W, NEW eos, NEW c, NEW tk, NEW sn, WriterOK(R, W, eos, c, tk, sn),
         NEW D \in Seq(Item), \A i \in 1..Len(D) : D[i][1] # c,
         NEW Q \in Seq(Item), Extends(Q, R, D), NEW e, eos => e
  PROVE  WriterOK(Q, W, e, c, tk, sn)
  <1> PICK m, n : m = Len(R) /\ n = Len(D)
    OBVIOUS
  <1>1. m \in Nat /\ n \in Nat /\ Len(Q) = m + n
    BY DEF Extends
  <1>2. /\ \A i \in 0..m : Bytes(Q, c)[i] = Bytes(R, c)[i]
        /\ \A i \in 0..n : Bytes(Q, c)[m + i] = Bytes(R, c)[m] + Bytes(D, c)[i]
    BY BytesExtends
  <1>3. IsCount(Bytes(R, c), R, c)
    BY BytesIs
  <1>4. Bytes(D, c)[n] = 0
    BY BytesNone
  <1>5. Bytes(Q, c)[Len(Q)] = Bytes(R, c)[m]
    <2>1. n \in 0..n /\ m \in 0..m
      BY <1>1
    <2>2. Bytes(R, c)[m] \in Nat
      BY <1>3, <2>1 DEF IsCount
    <2> QED BY <1>1, <1>2, <1>4, <2>1, <2>2
  <1>6. ASSUME NEW i \in 1..Len(Q), Q[i][1] = c PROVE Q[i] = <<c, tk + Bytes(Q, c)[i]>>
    <2>1. CASE i <= m
      <3>1. i \in 1..m /\ i \in 0..m /\ Q[i] = R[i]
        BY <2>1 DEF Extends
      <3>2. Q[i] = <<c, tk + Bytes(R, c)[i]>>
        BY <1>6, <3>1 DEF WriterOK, InRing
      <3> QED BY <1>2, <3>1, <3>2
    <2>2. CASE i > m
      <3>1. i - m \in 1..n /\ i = m + (i - m)
        BY <1>1, <2>2
      <3>2. Q[i] = D[i - m]
        BY <3>1 DEF Extends
      <3> QED BY <1>6, <3>1, <3>2
    <2> QED BY <1>1, <2>1, <2>2
  <1> QED BY <1>5, <1>6 DEF WriterOK, InRing

\* The bytes D of c, which are the first of its waiting bytes, are put into the ring.
Starts(D, x) == Len(D) <= Len(x) /\ \A i \in 1..Len(D) : D[i] = x[i]

Puts(R, W, eos, c, tk, sn, D, Q) ==
    /\ R \in Seq(Item) /\ W \in Seq(Request) /\ W # <<>> /\ tk \in Nat
    /\ WriterOK(R, W, eos, c, tk, sn)
    /\ D \in Seq(Item) /\ Starts(D, W[1].data)
    /\ Q \in Seq(Item) /\ Extends(Q, R, D)

LEMMA PutOwn ==
  ASSUME NEW R, NEW W, NEW eos, NEW c, NEW tk, NEW sn, NEW D, NEW Q,
         Puts(R, W, eos, c, tk, sn, D, Q)
  PROVE  /\ InRing(Q, c, tk)
         /\ Bytes(Q, c)[Len(Q)] = Bytes(R, c)[Len(R)] + Len(D)
         /\ Bytes(R, c)[Len(R)] \in Nat
  <1> PICK m, n, a : m = Len(R) /\ n = Len(D) /\ a = Bytes(R, c)[Len(R)]
    OBVIOUS
  <1>1. m \in Nat /\ n \in Nat /\ Len(Q) = m + n /\ tk \in Nat
    BY DEF Puts, Extends
  <1>2. /\ \A i \in 0..m : Bytes(Q, c)[i] = Bytes(R, c)[i]
        /\ \A i \in 0..n : Bytes(Q, c)[m + i] = a + Bytes(D, c)[i]
    BY BytesExtends DEF Puts
  <1>3. a \in Nat
    <2>1. IsCount(Bytes(R, c), R, c) /\ m \in 0..m
      BY <1>1, BytesIs DEF Puts
    <2> QED BY <2>1 DEF IsCount
  <1>4. \A i \in 1..n : D[i] = <<c, tk + a + i>>
    <2>1. W \in Seq(Request) /\ 1 \in 1..Len(W) /\ 1 - 1 = 0
      BY DEF Puts
    <2>2. Waiting(W)[0] = 0
      BY <2>1, WaitingIs DEF IsLength
    <2>3. \A i \in 1..Len(W[1].data) : W[1].data[i] = <<c, tk + a + 0 + i>>
      BY <2>1, <2>2 DEF Puts, WriterOK
    <2>4. W[1] \in Request
      BY <2>1
    <2>5. Len(W[1].data) \in Nat
      BY <2>4 DEF Request
    <2>6. n <= Len(W[1].data) /\ \A i \in 1..n : D[i] = W[1].data[i]
      BY DEF Puts, Starts
    <2>7. \A i \in 1..n : i \in 1..Len(W[1].data)
      BY <1>1, <2>5, <2>6
    <2>8. \A i \in 1..n : tk + a + 0 + i = tk + a + i
      BY <1>1, <1>3
    <2> QED BY <2>3, <2>6, <2>7, <2>8
  <1>5. \A i \in 0..n : Bytes(D, c)[i] = i
    <2>1. D \in Seq(Item) /\ \A i \in 1..Len(D) : D[i][1] = c
      BY <1>4 DEF Puts
    <2> QED BY <2>1, BytesOwn
  <1>6. ASSUME NEW i \in 1..(m + n), Q[i][1] = c PROVE Q[i] = <<c, tk + Bytes(Q, c)[i]>>
    <2>1. CASE i <= m
      <3>1. i \in 1..m /\ i \in 0..m
        BY <1>1, <2>1
      <3>2. Q[i] = R[i]
        BY <3>1 DEF Puts, Extends
      <3>3. Q[i] = <<c, tk + Bytes(R, c)[i]>>
        BY <1>6, <3>1, <3>2 DEF Puts, WriterOK, InRing
      <3> QED BY <1>2, <3>1, <3>3
    <2>2. CASE i > m
      <3>0. PICK j \in 1..n : i = m + j
        <4>1. i - m \in 1..n /\ i = m + (i - m)
          BY <1>1, <2>2
        <4> QED BY <4>1
      <3>1. Q[i] = D[j]
        BY <3>0 DEF Puts, Extends
      <3>2. Bytes(Q, c)[i] = a + j
        <4>1. j \in 0..n
          BY <1>1, <3>0
        <4>2. Bytes(Q, c)[m + j] = a + Bytes(D, c)[j]
          BY <1>2, <4>1
        <4>3. Bytes(D, c)[j] = j
          BY <1>5, <4>1
        <4> QED BY <3>0, <4>2, <4>3
      <3>3. tk + Bytes(Q, c)[i] = tk + a + j
        BY <1>1, <1>3, <3>2
      <3> QED BY <1>4, <3>0, <3>1, <3>3
    <2> QED BY <1>1, <2>1, <2>2
  <1>7. Bytes(Q, c)[Len(Q)] = a + n
    <2>1. n \in 0..n
      BY <1>1
    <2>2. Bytes(Q, c)[m + n] = a + Bytes(D, c)[n] /\ Bytes(D, c)[n] = n
      BY <1>2, <1>5, <2>1
    <2> QED BY <1>1, <2>2
  <1>8. InRing(Q, c, tk)
    BY <1>1, <1>6 DEF InRing
  <1> QED BY <1>3, <1>7, <1>8

\* The whole first request fits into the ring ...
LEMMA PutAll ==
  ASSUME NEW R, NEW W, NEW eos, NEW c, NEW tk, NEW sn, NEW D, NEW Q,
         Puts(R, W, eos, c, tk, sn, D, Q), Len(D) = Len(W[1].data), NEW e
  PROVE  Tail(W) \in Seq(Request) /\ WriterOK(Q, Tail(W), e, c, tk, sn)
  <1>p. PICK V, n, a, b : V = Tail(W) /\ n = Len(D) /\ a = Bytes(R, c)[Len(R)] /\ b = Bytes(Q, c)[Len(Q)]
    OBVIOUS
  <1>0. W \in Seq(Request) /\ W # <<>> /\ n \in Nat /\ tk \in Nat
    BY <1>p DEF Puts
  <1>1. /\ V \in Seq(Request) /\ Len(V) + 1 = Len(W) /\ Len(V) \in Nat
        /\ \A k \in 1..Len(V) : V[k] = W[k + 1]
    BY <1>p, <1>0
  <1>3. \A k \in 0..Len(V) : Waiting(W)[k + 1] = Waiting(V)[k] + n
    BY <1>p, <1>0, <1>1, WaitingTail
  <1>5. InRing(Q, c, tk) /\ b = a + n /\ a \in Nat
    BY <1>p, PutOwn
  <1>a. tk \in Nat /\ a \in Nat /\ n \in Nat
    BY <1>0, <1>5
  <1>7. \A k \in 0..Len(V) : Waiting(V)[k] \in Nat
    BY <1>1, WaitingIs DEF IsLength
  <1>8. ASSUME NEW k \in 1..Len(V), NEW i \in 1..Len(V[k].data)
        PROVE  V[k].data[i] = <<c, tk + b + Waiting(V)[k - 1] + i>>
    <2>1. /\ k + 1 \in 1..Len(W) /\ (k + 1) - 1 = k /\ V[k] = W[k + 1]
          /\ k - 1 \in 0..Len(V) /\ (k - 1) + 1 = k
      BY <1>1
    <2>2. V[k].data[i] = <<c, tk + a + Waiting(W)[k] + i>>
      BY <1>p, <2>1 DEF Puts, WriterOK
    <2>3. PICK w \in Nat : w = Waiting(V)[k - 1] /\ Waiting(W)[k] = w + n
      BY <1>3, <1>7, <2>1
    <2>4. V[k] \in Request
      BY <1>1
    <2>5. i \in Nat
      BY <2>4 DEF Request
    <2>6. tk + a + (w + n) + i = tk + (a + n) + w + i
      BY <1>a, <2>5, Shift
    <2> QED BY <1>5, <2>2, <2>3, <2>6
  <1>9. sn = tk + b + Waiting(V)[Len(V)]
    <2>1. sn = tk + a + Waiting(W)[Len(W)]
      BY <1>p, <1>0 DEF Puts, WriterOK
    <2>2. Len(V) \in 0..Len(V)
      BY <1>1
    <2>3. PICK w \in Nat : w = Waiting(V)[Len(V)] /\ Waiting(W)[Len(W)] = w + n
      BY <1>1, <1>3, <1>7, <2>2
    <2>4. sn = tk + a + (w + n)
      BY <2>1, <2>3
    <2>5. tk + a + (w + n) = tk + (a + n) + w
      BY <1>a
    <2> QED BY <1>5, <2>3, <2>4, <2>5
  <1> QED BY <1>p, <1>1, <1>5, <1>8, <1>9 DEF WriterOK

\* ... or only a part of it.
LEMMA PutPart ==
  ASSUME NEW R, NEW W, NEW eos, NEW c, NEW tk, NEW sn, NEW D, NEW Q,
         Puts(R, W, eos, c, tk, sn, D, Q), NEW V \in Seq(Request), Len(V) = Len(W),
         \A k \in 2..Len(W) : V[k] = W[k],
         V[1].data = SubSeq(W[1].data, Len(D) + 1, Len(W[1].data)), NEW e
  PROVE  WriterOK(Q, V, e, c, tk, sn)
  <1>p. PICK m, n, x, a, b : m = Len(W) /\ n = Len(D) /\ x = W[1].data
                           /\ a = Bytes(R, c)[Len(R)] /\ b = Bytes(Q, c)[Len(Q)]
    OBVIOUS
  <1>0. W \in Seq(Request) /\ W # <<>> /\ n \in Nat /\ tk \in Nat /\ n <= Len(x)
    BY <1>p DEF Puts, Starts
  <1>1. m \in Nat /\ m > 0 /\ W[1] \in Request
    BY <1>p, <1>0
  <1>2. x \in Seq(Item)
    BY <1>p, <1>1 DEF Request
  <1>3. Len(V[1].data) + n = Len(x) /\ \A i \in 1..(Len(x) - n) : V[1].data[i] = x[n + i]
    <2>1. PICK y : y = SubSeq(x, n + 1, Len(x))
      OBVIOUS
    <2>2. Len(y) + n = Len(x) /\ \A i \in 1..(Len(x) - n) : y[i] = x[n + i]
      BY <1>0, <1>2, <2>1
    <2> QED BY <1>p, <2>1, <2>2
  <1>4. \A k \in 1..m : Waiting(V)[k] + n = Waiting(W)[k]
    BY <1>p, <1>0, <1>3, WaitingFirst
  <1>5. InRing(Q, c, tk) /\ b = a + n /\ a \in Nat
    BY <1>p, PutOwn
  <1>a. tk \in Nat /\ a \in Nat /\ n \in Nat
    BY <1>0, <1>5
  <1>6. /\ Waiting(V)[0] = 0 /\ Waiting(W)[0] = 0
        /\ \A k \in 0..m : Waiting(V)[k] \in Nat
    <2>1. IsLength(Waiting(V), V) /\ IsLength(Waiting(W), W)
      BY <1>0, WaitingIs
    <2> QED BY <1>p, <2>1 DEF IsLength
  <1>7. \A k \in 1..m : \A i \in 1..Len(W[k].data) :
            W[k].data[i] = <<c, tk + a + Waiting(W)[k - 1] + i>>
    BY <1>p DEF Puts, WriterOK
  <1>8. ASSUME NEW k \in 1..m, NEW i \in 1..Len(V[k].data)
        PROVE  V[k].data[i] = <<c, tk + b + Waiting(V)[k - 1] + i>>
    <2>0. i \in Nat
      <3>1. V[k] \in Request
        BY <1>p
      <3> QED BY <3>1 DEF Request
    <2>1. CASE k = 1
      <3>1. i \in 1..(Len(x) - n) /\ n + i \in 1..Len(x)
        <4>0. Len(x) \in Nat
          BY <1>2
        <4>1. PICK y, z : y \in Nat /\ y = Len(x) /\ z = Len(V[1].data)
          BY Zenon, <4>0
        <4>2. y = Len(x) /\ z + n = y /\ n \in Nat /\ i \in 1..z /\ i \in Nat /\ y \in Nat
          BY <1>0, <1>3, <2>0, <2>1, <4>1
        <4>3. z \in Nat
          BY <1>p, <1>1, <4>1 DEF Request
        <4> QED BY ONLY <4>2, <4>3
      <3>2. x[n + i] = <<c, tk + a + 0 + (n + i)>>
        BY <1>p, <1>1, <1>6, <1>7, <3>1
      <3>3. V[k].data[i] = x[n + i]
        BY <1>3, <2>1, <3>1
      <3>4. tk + a + 0 + (n + i) = tk + (a + n) + 0 + i
        BY <1>a, <2>0
      <3>5. Waiting(V)[k - 1] = 0
        BY <1>6, <2>1
      <3> QED BY <1>5, <3>2, <3>3, <3>4, <3>5
    <2>2. CASE k # 1
      <3>1. k \in 2..m /\ k - 1 \in 1..m /\ k - 1 \in 0..m
        BY <1>1, <2>2
      <3>2. V[k] = W[k]
        BY <1>p, <3>1
      <3>3. V[k].data[i] = <<c, tk + a + Waiting(W)[k - 1] + i>>
        BY <1>7, <3>2
      <3>4. PICK w \in Nat : w = Waiting(V)[k - 1] /\ Waiting(W)[k - 1] = w + n
        BY <1>4, <1>6, <3>1
      <3>5. tk + a + (w + n) + i = tk + (a + n) + w + i
        BY <1>a, <2>0, Shift
      <3> QED BY <1>5, <3>3, <3>4, <3>5
    <2> QED BY <2>1, <2>2
  <1>9. sn = tk + b + Waiting(V)[m]
    <2>1. sn = tk + a + Waiting(W)[m]
      BY <1>p, <1>0 DEF Puts, WriterOK
    <2>2. m \in 1..m /\ m \in 0..m
      BY <1>1
    <2>3. PICK w \in Nat : w = Waiting(V)[m] /\ Waiting(W)[m] = w + n
      BY <1>4, <1>6, <2>2
    <2>5. tk + a + (w + n) = tk + (a + n) + w
      BY <1>a
    <2> QED BY <1>5, <2>1, <2>3, <2>5
  <1> QED BY <1>p, <1>5, <1>8, <1>9 DEF WriterOK

LEMMA EmptyCounts ==
  IsLength(Waiting(<<>>), <<>>) /\ \A c : IsCount(Bytes(<<>>, c), <<>>, c)
  <1>0. <<>> \in Seq(Request) /\ <<>> \in Seq(Item)
    OBVIOUS
  <1>1. PICK x, y : x = <<>> /\ y = <<>> /\ x \in Seq(Request) /\ y \in Seq(Item)
    BY Zenon, <1>0
  <1>2. IsLength(Waiting(x), x) /\ \A c : IsCount(Bytes(y, c), y, c)
    BY <1>1, BytesIs, WaitingIs
  <1> QED BY <1>1, <1>2

\* The bytes of data are the next that c sends after n.
Following(data, c, n) == \A i \in 1..Len(data) : data[i] = <<c, n + i>>

\* The requests of a client add up to what it has sent.
Counts(W, eos) == W # <<>> \/ ~eos

\* The next bytes that c sends wait behind the others.
LEMMA WaitMore ==
  ASSUME NEW R, NEW W, NEW eos, NEW c, NEW tk \in Nat, NEW sn \in Nat, R \in Seq(Item), W \in Seq(Request),
         WriterOK(R, W, eos, c, tk, sn), Counts(W, eos),
         NEW r \in Request, Following(r.data, c, sn), NEW e
  PROVE  /\ Append(W, r) \in Seq(Request) /\ Append(W, r) # <<>>
         /\ WriterOK(R, Append(W, r), e, c, tk, sn + Len(r.data))
  <1>p. PICK V, m, a : V = Append(W, r) /\ m = Len(W) /\ a = Bytes(R, c)[Len(R)]
    OBVIOUS
  <1>1. /\ V \in Seq(Request) /\ V # <<>> /\ m \in Nat /\ Len(V) = m + 1 /\ V[m + 1] = r
        /\ \A k \in 1..m : V[k] = W[k]
    BY <1>p
  <1>2. /\ \A k \in 0..m : Waiting(V)[k] = Waiting(W)[k]
        /\ Waiting(V)[m + 1] = Waiting(W)[m] + Len(r.data)
    BY <1>p, WaitingAppend
  <1>3. a \in Nat
    <2>1. IsCount(Bytes(R, c), R, c) /\ Len(R) \in 0..Len(R)
      BY BytesIs
    <2> QED BY <1>p, <2>1 DEF IsCount
  <1>4. \A k \in 0..m : Waiting(W)[k] \in Nat
    BY <1>p, WaitingIs DEF IsLength
  <1>5. /\ \A k \in 1..m : \A i \in 1..Len(W[k].data) :
              W[k].data[i] = <<c, tk + a + Waiting(W)[k - 1] + i>>
        /\ sn = tk + a + Waiting(W)[m]
    BY <1>p DEF WriterOK, Counts
  <1>6. ASSUME NEW k \in 1..(m + 1), NEW i \in 1..Len(V[k].data)
        PROVE  V[k].data[i] = <<c, tk + a + Waiting(V)[k - 1] + i>>
    <2>1. k - 1 \in 0..m /\ Waiting(V)[k - 1] = Waiting(W)[k - 1]
      BY <1>1, <1>2
    <2>2. CASE k = m + 1
      <3>1. k - 1 = m /\ V[k] = r
        BY <1>1, <2>2
      <3>2. \A j \in 1..Len(r.data) : r.data[j] = <<c, sn + j>>
        BY DEF Following
      <3> QED BY <1>5, <2>1, <3>1, <3>2
    <2>3. CASE k # m + 1
      <3>1. k \in 1..m
        BY <1>1, <2>3
      <3> QED BY <1>1, <1>5, <2>1, <3>1
    <2> QED BY <2>2, <2>3
  <1>7. sn + Len(r.data) = tk + a + Waiting(V)[m + 1]
    <2>1. PICK w \in Nat : w = Waiting(W)[m]
      BY <1>1, <1>4
    <2>2. PICK n \in Nat : n = Len(r.data)
      BY DEF Request
    <2>3. tk + a + w + n = tk + a + (w + n)
      BY <1>3
    <2> QED BY <1>2, <1>5, <2>1, <2>2, <2>3
  <1>8. InRing(R, c, tk)
    BY DEF WriterOK
  <1> QED BY <1>p, <1>1, <1>6, <1>7, <1>8 DEF WriterOK

\* The requests of c are cancelled.
LEMMA WaitNone ==
  ASSUME NEW R, NEW W, NEW eos, NEW c, NEW tk \in Nat, NEW sn \in Nat, R \in Seq(Item), W \in Seq(Request),
         WriterOK(R, W, eos, c, tk, sn)
  PROVE  /\ sn - Waiting(W)[Len(W)] \in Nat
         /\ WriterOK(R, <<>>, eos, c, tk, sn - Waiting(W)[Len(W)])
  <1>p. PICK a : a = Bytes(R, c)[Len(R)]
    OBVIOUS
  <1>3. a \in Nat
    <2>1. IsCount(Bytes(R, c), R, c) /\ Len(R) \in 0..Len(R)
      BY BytesIs
    <2> QED BY <1>p, <2>1 DEF IsCount
  <1>1. PICK w \in Nat : w = Waiting(W)[Len(W)] /\ (W = <<>> => w = 0)
    <2>1. IsLength(Waiting(W), W) /\ Len(W) \in 0..Len(W)
      BY WaitingIs
    <2> QED BY <2>1 DEF IsLength
  <1>2. Waiting(<<>>)[0] = 0
    <2>1. IsLength(Waiting(<<>>), <<>>)
      BY EmptyCounts
    <2> QED BY <2>1 DEF IsLength
  <1>4. W # <<>> \/ ~eos => sn = tk + a + w
    BY <1>p, <1>1 DEF WriterOK
  <1>5. CASE W # <<>> \/ ~eos
    <2>1. sn - w \in Nat /\ sn - w = tk + a + 0
      BY <1>3, <1>4, <1>5
    <2>2. InRing(R, c, tk) /\ Len(<<>>) = 0
      BY DEF WriterOK
    <2> QED BY <1>p, <1>1, <1>2, <2>1, <2>2 DEF WriterOK
  <1>6. CASE W = <<>> /\ eos
    <2>1. sn - w \in Nat /\ sn - w = sn
      BY <1>1, <1>6
    <2> QED BY <1>1, <1>6, <2>1
  <1> QED BY <1>5, <1>6

\* The process takes the bytes P from the ring.
LEMMA TakeFirst ==
  ASSUME NEW R, NEW W, NEW eos, NEW c, NEW tk \in Nat, NEW sn \in Nat, R \in Seq(Item), W \in Seq(Request),
         WriterOK(R, W, eos, c, tk, sn), NEW P \in Seq(Item), NEW Q \in Seq(Item), Extends(R, P, Q)
  PROVE  /\ Bytes(P, c)[Len(P)] \in Nat
         /\ WriterOK(Q, W, eos, c, tk + Bytes(P, c)[Len(P)], sn)
  <1>p. PICK m, n, a, b : m = Len(P) /\ n = Len(Q) /\ a = Bytes(P, c)[m] /\ b = Bytes(Q, c)[n]
    OBVIOUS
  <1>1. m \in Nat /\ n \in Nat /\ Len(R) = m + n
    BY <1>p DEF Extends
  <1>2. \A i \in 0..n : Bytes(R, c)[m + i] = a + Bytes(Q, c)[i]
    BY <1>p, BytesExtends
  <1>3. a \in Nat
    <2>1. IsCount(Bytes(P, c), P, c) /\ m \in 0..m
      BY <1>1, BytesIs
    <2> QED BY <1>p, <2>1 DEF IsCount
  <1>4. \A i \in 0..n : Bytes(Q, c)[i] \in Nat
    <2>1. IsCount(Bytes(Q, c), Q, c)
      BY BytesIs
    <2> QED BY <1>p, <2>1 DEF IsCount
  <1>5. b \in Nat /\ Bytes(R, c)[Len(R)] = a + b
    <2>1. n \in 0..n
      BY <1>1
    <2> QED BY <1>p, <1>1, <1>2, <1>4, <2>1
  <1>6. InRing(Q, c, tk + a)
    <2> SUFFICES ASSUME NEW i \in 1..n, Q[i][1] = c
                 PROVE  Q[i] = <<c, (tk + a) + Bytes(Q, c)[i]>>
      BY <1>p DEF InRing
    <2>1. m + i \in 1..(m + n) /\ i \in 0..n
      BY <1>1
    <2>2. R[m + i] = Q[i]
      BY <1>p DEF Extends
    <2>3. Q[i] = <<c, tk + Bytes(R, c)[m + i]>>
      BY <1>1, <2>1, <2>2 DEF WriterOK, InRing
    <2>4. PICK k \in Nat : k = Bytes(Q, c)[i] /\ Bytes(R, c)[m + i] = a + k
      BY <1>2, <1>4, <2>1
    <2>5. tk + (a + k) = (tk + a) + k
      BY <1>3
    <2> QED BY <2>3, <2>4, <2>5
  <1>7. ASSUME NEW k \in 1..Len(W), NEW i \in 1..Len(W[k].data)
        PROVE  W[k].data[i] = <<c, (tk + a) + b + Waiting(W)[k - 1] + i>>
    <2>1. W[k].data[i] = <<c, tk + (a + b) + Waiting(W)[k - 1] + i>>
      BY <1>5 DEF WriterOK
    <2>2. tk + (a + b) = (tk + a) + b
      BY <1>3, <1>5
    <2> QED BY <2>1, <2>2
  <1>8. ASSUME W # <<>> \/ ~eos PROVE sn = (tk + a) + b + Waiting(W)[Len(W)]
    <2>1. sn = tk + (a + b) + Waiting(W)[Len(W)]
      BY <1>5, <1>8 DEF WriterOK
    <2>2. tk + (a + b) = (tk + a) + b
      BY <1>3, <1>5
    <2> QED BY <2>1, <2>2
  <1> QED BY <1>p, <1>3, <1>6, <1>7, <1>8 DEF WriterOK

LEMMA WriterInit ==
  ASSUME NEW c, NEW eos PROVE WriterOK(<<>>, <<>>, eos, c, 0, 0)
  <1>1. IsCount(Bytes(<<>>, c), <<>>, c) /\ IsLength(Waiting(<<>>), <<>>)
    BY EmptyCounts
  <1>2. Bytes(<<>>, c)[0] = 0 /\ Waiting(<<>>)[0] = 0 /\ Len(<<>>) = 0
    BY <1>1 DEF IsCount, IsLength
  <1> QED BY <1>2 DEF WriterOK, InRing

-----------------------------------------------------------------------------
(* The ring. *)

LEMMA ModIs ==
  ASSUME NEW x \in Nat, NEW b \in Nat, b > 0, x < 2 * b
  PROVE  (x < b => x % b = x) /\ (x >= b => x % b = x - b)
  OBVIOUS

\* The slot j places behind slot i, and how far slot i is behind slot j.
Slot(i, j) == IF i + j < BufLen THEN i + j ELSE i + j - BufLen
Behind(i, j) == IF i < j THEN i + BufLen - j ELSE i - j

LEMMA BufLenIs == BufLen \in Nat /\ BufLen > 1 /\ SBufSize \in Nat /\ BufLen = SBufSize + 1
  BY StreamsAssumption DEF BufLen

LEMMA SlotIs ==
  ASSUME NEW i \in 0..SBufSize, NEW j \in 0..SBufSize
  PROVE  /\ (i + j) % BufLen = Slot(i, j) /\ Slot(i, j) \in 0..SBufSize
         /\ (i + BufLen - j) % BufLen = Behind(i, j) /\ Behind(i, j) \in 0..SBufSize
  <1>1. PICK b \in Nat : b = BufLen /\ b = SBufSize + 1 /\ b > 0 /\ SBufSize \in Nat
    BY BufLenIs
  <1>a. i \in Nat /\ j \in Nat /\ i < b /\ j < b
    BY <1>1
  <1>2. i + j \in Nat /\ i + j < 2 * b /\ i + b - j \in Nat /\ i + b - j < 2 * b
    BY <1>a
  <1>b. PICK x \in Nat, y \in Nat : x = i + j /\ y = i + b - j
    BY <1>2
  <1>c. /\ (x < b => x % b = x) /\ (x >= b => x % b = x - b)
        /\ (y < b => y % b = y) /\ (y >= b => y % b = y - b)
    <2>1. x < 2 * b /\ y < 2 * b /\ b > 0
      BY <1>1, <1>2, <1>b
    <2> QED BY <2>1, ModIs
  <1>3. /\ (i + j) % b = IF i + j < b THEN i + j ELSE i + j - b
        /\ (i + b - j) % b = IF i + b - j < b THEN i + b - j ELSE i + b - j - b
    <2>1. (i + j) % b = IF x < b THEN x ELSE x - b
      BY <1>b, <1>c
    <2>2. (i + b - j) % b = IF y < b THEN y ELSE y - b
      BY <1>b, <1>c
    <2> QED BY <1>b, <2>1, <2>2
  <1>4. Slot(i, j) \in 0..SBufSize /\ Behind(i, j) \in 0..SBufSize
    BY <1>1, <1>a DEF Slot, Behind
  <1>5. (i + j) % BufLen = Slot(i, j)
    BY <1>1, <1>3 DEF Slot
  <1>6. (i + BufLen - j) % BufLen = Behind(i, j)
    <2>1. (IF i + b - j < b THEN i + b - j ELSE i + b - j - b) = IF i < j THEN i + b - j ELSE i - j
      BY <1>a
    <2> QED BY <1>1, <1>3, <2>1 DEF Behind
  <1> QED BY <1>4, <1>5, <1>6

LEMMA SlotBehind ==
  ASSUME NEW i \in 0..SBufSize, NEW j \in 0..SBufSize
  PROVE  Behind(Slot(i, j), i) = j /\ Slot(i, Behind(j, i)) = j
  BY BufLenIs DEF Slot, Behind

LEMMA SlotSlot ==
  ASSUME NEW i \in 0..SBufSize, NEW j \in 0..SBufSize, NEW k \in 0..SBufSize
  PROVE  /\ j + k <= SBufSize => Slot(Slot(i, j), k) = Slot(i, j + k)
         /\ k < j => Behind(Slot(i, k), Slot(i, j)) = BufLen - (j - k)
  BY BufLenIs DEF Slot, Behind

Mark == Nat \cup Item
Client == [pos : Nat, reads : Seq(Nat), writes : Seq(Request), got : Seq(Mark)]
Event == {"data", "space", "delete"}
Stream ==
    [pos : Nat, inp : 0..SBufSize, out : 0..SBufSize, buf : [0..SBufSize -> Mark],
     eos_inp : BOOLEAN, eos_out : BOOLEAN, ref_cnt : Nat, deleted : BOOLEAN, freed : BOOLEAN,
     posted : SUBSET Event, queue : Seq(Event), clients : Seq(Channels), cl : [Channels -> Client]]

\* What is in the ring, the oldest first.
Unread(s) == [i \in 1..Used(s) |-> s.buf[(s.out + i - 1) % BufLen]]

LEMMA UnreadIs ==
  ASSUME NEW s, s.inp \in 0..SBufSize, s.out \in 0..SBufSize
  PROVE  /\ Used(s) = Behind(s.inp, s.out) /\ Used(s) \in 0..SBufSize
         /\ Room(s) = SBufSize - Used(s)
         /\ Slot(s.out, Used(s)) = s.inp
         /\ Len(Unread(s)) = Used(s)
         /\ \A i \in 1..Used(s) : /\ Unread(s)[i] = s.buf[Slot(s.out, i - 1)]
                                  /\ (s.out + i - 1) % BufLen = Slot(s.out, i - 1)
                                  /\ Slot(s.out, i - 1) \in 0..SBufSize
  <1>p. PICK i \in 0..SBufSize, o \in 0..SBufSize : i = s.inp /\ o = s.out
    OBVIOUS
  <1>1. Used(s) = Behind(i, o) /\ Used(s) \in 0..SBufSize
    BY <1>p, SlotIs DEF Used
  <1>2. Room(s) = SBufSize - Used(s)
    <2>1. PICK b \in Nat : b = BufLen /\ b = SBufSize + 1 /\ b > 0 /\ SBufSize \in Nat
      BY BufLenIs
    <2>a. i \in Nat /\ o \in Nat /\ i < b /\ o < b
      BY <2>1
    <2>2. Room(s) = (o + b - i - 1) % b
      BY <1>p, <2>1 DEF Room
    <2>3. o + b - i - 1 \in Nat /\ o + b - i - 1 < 2 * b
      BY <2>a
    <2>4. (o + b - i - 1) % b = IF o + b - i - 1 < b THEN o + b - i - 1 ELSE o + b - i - 1 - b
      <3>1. PICK x \in Nat : x = o + b - i - 1
        BY <2>3
      <3>2. x < 2 * b /\ b > 0
        BY <2>1, <2>3, <3>1
      <3>3. (x < b => x % b = x) /\ (x >= b => x % b = x - b)
        BY <3>2, ModIs
      <3>4. x % b = IF x < b THEN x ELSE x - b
        BY <3>3
      <3> QED BY <3>1, <3>4
    <2>5. (IF o + b - i - 1 < b THEN o + b - i - 1 ELSE o + b - i - 1 - b)
             = b - 1 - (IF i < o THEN i + b - o ELSE i - o)
      BY <2>a
    <2>6. SBufSize = b - 1
      BY <2>1
    <2> QED BY <1>1, <2>1, <2>2, <2>4, <2>5, <2>6 DEF Behind
  <1>3. Slot(o, Used(s)) = i
    BY <1>1, SlotBehind
  <1>4. Len(Unread(s)) = Used(s)
    BY <1>1 DEF Unread
  <1>5. ASSUME NEW k \in 1..Used(s)
        PROVE  /\ Unread(s)[k] = s.buf[Slot(o, k - 1)]
               /\ (o + k - 1) % BufLen = Slot(o, k - 1)
               /\ Slot(o, k - 1) \in 0..SBufSize
    <2>1. PICK j \in 0..SBufSize : j = k - 1 /\ o + k - 1 = o + j
      <3>1. k - 1 \in 0..SBufSize /\ o + k - 1 = o + (k - 1)
        BY <1>1, BufLenIs
      <3> QED BY <3>1
    <2>2. Unread(s)[k] = s.buf[(o + k - 1) % BufLen]
      BY <1>p DEF Unread
    <2>3. (o + j) % BufLen = Slot(o, j) /\ Slot(o, j) \in 0..SBufSize
      BY SlotIs
    <2> QED BY <2>1, <2>2, <2>3
  <1> QED BY <1>p, <1>1, <1>2, <1>3, <1>4, <1>5

\* The first n bytes of data are added to the ring.
Added(s, t, data, n) ==
    /\ s.inp \in 0..SBufSize /\ s.out \in 0..SBufSize /\ n \in Nat /\ n <= Room(s)
    /\ t.out = s.out /\ t.inp = (s.inp + n) % BufLen
    /\ t.buf = [i \in 0..SBufSize |-> LET k == (i + BufLen - s.inp) % BufLen
                                     IN  IF k < n THEN data[k + 1] ELSE s.buf[i]]

LEMMA RingAdd ==
  ASSUME NEW s, NEW t, NEW data, NEW n, Added(s, t, data, n)
  PROVE  /\ t.inp \in 0..SBufSize /\ t.out \in 0..SBufSize /\ Used(t) = Used(s) + n
         /\ \A i \in 1..Used(s) : Unread(t)[i] = Unread(s)[i]
         /\ \A i \in 1..n : Unread(t)[Used(s) + i] = data[i]
  <1>p. PICK i \in 0..SBufSize, o \in 0..SBufSize, u \in 0..SBufSize :
               i = s.inp /\ o = s.out /\ u = Used(s)
    BY UnreadIs DEF Added
  <1>0. /\ u = Behind(i, o) /\ Slot(o, u) = i /\ n \in 0..SBufSize /\ u + n <= SBufSize
        /\ SBufSize \in Nat /\ u + n \in 0..SBufSize
        /\ \A k \in 1..u : Unread(s)[k] = s.buf[Slot(o, k - 1)]
    <2>1. /\ u = Behind(i, o) /\ Slot(o, u) = i /\ Room(s) = SBufSize - u
          /\ \A k \in 1..u : Unread(s)[k] = s.buf[Slot(o, k - 1)]
      BY <1>p, UnreadIs DEF Added
    <2>2. n \in Nat /\ n <= SBufSize - u /\ SBufSize \in Nat
      BY <2>1, BufLenIs DEF Added
    <2>3. n \in 0..SBufSize /\ u + n <= SBufSize /\ u + n \in 0..SBufSize
      BY <2>2
    <2> QED BY <2>1, <2>2, <2>3
  <1>1. t.inp = Slot(i, n) /\ t.inp \in 0..SBufSize /\ t.out = o
    <2>1. (i + n) % BufLen = Slot(i, n) /\ Slot(i, n) \in 0..SBufSize
      BY <1>0, SlotIs
    <2> QED BY <1>p, <2>1 DEF Added
  <1>2. t.inp = Slot(o, u + n)
    BY <1>0, <1>1, SlotSlot
  <1>3. Used(t) = u + n
    <2>1. Used(t) = Behind(t.inp, o)
      BY <1>1, UnreadIs
    <2>2. Behind(Slot(o, u + n), o) = u + n
      BY <1>0, SlotBehind
    <2> QED BY <1>2, <2>1, <2>2
  <1>4. \A k \in 1..(u + n) : Unread(t)[k] = t.buf[Slot(o, k - 1)]
    BY <1>1, <1>3, UnreadIs
  <1>5. \A j \in 0..SBufSize :
            t.buf[j] = IF Behind(j, i) < n THEN data[Behind(j, i) + 1] ELSE s.buf[j]
    <2> SUFFICES ASSUME NEW j \in 0..SBufSize
                 PROVE  t.buf[j] = IF Behind(j, i) < n THEN data[Behind(j, i) + 1] ELSE s.buf[j]
      OBVIOUS
    <2>1. (j + BufLen - i) % BufLen = Behind(j, i)
      BY SlotIs
    <2>2. t.buf[j] = IF (j + BufLen - i) % BufLen < n THEN data[((j + BufLen - i) % BufLen) + 1]
                     ELSE s.buf[j]
      BY <1>p DEF Added
    <2> QED BY <2>1, <2>2
  <1>6. ASSUME NEW k \in 1..u PROVE Unread(t)[k] = Unread(s)[k]
    <2>1. PICK j \in 0..SBufSize : j = k - 1 /\ j < u /\ k \in 1..(u + n)
      <3>1. k - 1 \in 0..SBufSize /\ k - 1 < u /\ k \in 1..(u + n)
        BY <1>0
      <3> QED BY <3>1
    <2>2. Slot(o, j) \in 0..SBufSize
      BY SlotIs
    <2>3. Behind(Slot(o, j), i) = BufLen - (u - j)
      BY <1>0, <2>1, SlotSlot
    <2>4. ~(Behind(Slot(o, j), i) < n)
      BY <1>0, <2>1, <2>3, BufLenIs
    <2>5. Unread(t)[k] = s.buf[Slot(o, j)]
      BY <1>4, <1>5, <2>1, <2>2, <2>4
    <2> QED BY <1>0, <2>1, <2>5
  <1>7. ASSUME NEW k \in 1..n PROVE Unread(t)[u + k] = data[k]
    <2>1. PICK j \in 0..SBufSize : /\ j = k - 1 /\ u + j = (u + k) - 1 /\ u + j <= SBufSize /\ j < n
                                   /\ j + 1 = k /\ u + k \in 1..(u + n)
      <3>1. /\ k - 1 \in 0..SBufSize /\ u + (k - 1) = (u + k) - 1 /\ u + (k - 1) <= SBufSize /\ k - 1 < n
            /\ (k - 1) + 1 = k /\ u + k \in 1..(u + n)
        BY <1>0
      <3> QED BY <3>1
    <2>2. Slot(i, j) = Slot(o, u + j)
      BY <1>0, <2>1, SlotSlot
    <2>3. Behind(Slot(i, j), i) = j /\ Slot(i, j) \in 0..SBufSize
      BY SlotBehind, SlotIs
    <2>4. Unread(t)[u + k] = t.buf[Slot(i, j)]
      BY <1>4, <2>1, <2>2
    <2> QED BY <1>5, <2>1, <2>3, <2>4
  <1> QED BY <1>p, <1>1, <1>3, <1>6, <1>7

\* The first k bytes leave the ring.
LEMMA RingDrop ==
  ASSUME NEW s, NEW t, NEW k \in Nat, s.inp \in 0..SBufSize, s.out \in 0..SBufSize, k <= Used(s),
         t.inp = s.inp, t.buf = s.buf, t.out = (s.out + k) % BufLen
  PROVE  /\ t.inp \in 0..SBufSize /\ t.out \in 0..SBufSize /\ Used(t) = Used(s) - k
         /\ \A i \in 1..Used(t) : Unread(t)[i] = Unread(s)[k + i]
  <1>p. PICK i \in 0..SBufSize, o \in 0..SBufSize, u \in 0..SBufSize :
               i = s.inp /\ o = s.out /\ u = Used(s)
    BY UnreadIs
  <1>0. /\ u = Behind(i, o) /\ Slot(o, u) = i /\ k \in 0..SBufSize /\ k <= u /\ SBufSize \in Nat
        /\ \A j \in 1..u : Unread(s)[j] = s.buf[Slot(o, j - 1)]
    BY <1>p, UnreadIs, BufLenIs
  <1>1. t.out = Slot(o, k) /\ t.out \in 0..SBufSize
    <2>1. (o + k) % BufLen = Slot(o, k) /\ Slot(o, k) \in 0..SBufSize
      BY <1>0, SlotIs
    <2> QED BY <1>p, <2>1
  <1>2. Used(t) = u - k
    <2>1. Used(t) = Behind(i, Slot(o, k))
      BY <1>p, <1>1, UnreadIs
    <2> QED BY <1>0, <2>1, BufLenIs DEF Slot, Behind
  <1>3. ASSUME NEW j \in 1..(u - k) PROVE Unread(t)[j] = Unread(s)[k + j]
    <2>1. PICK l \in 0..SBufSize : l = j - 1 /\ (k + j) - 1 = k + l /\ k + l <= SBufSize /\ k + j \in 1..u
      <3>1. /\ j - 1 \in 0..SBufSize /\ (k + j) - 1 = k + (j - 1) /\ k + (j - 1) <= SBufSize
            /\ k + j \in 1..u
        BY <1>0
      <3> QED BY <3>1
    <2>2. Unread(t)[j] = s.buf[Slot(Slot(o, k), l)]
      <3>1. Unread(t)[j] = t.buf[Slot(t.out, j - 1)]
        BY <1>1, <1>2, UnreadIs
      <3> QED BY <1>1, <2>1, <3>1
    <2>3. Slot(Slot(o, k), l) = Slot(o, k + l)
      BY <1>0, <2>1, SlotSlot
    <2>4. Unread(s)[k + j] = s.buf[Slot(o, k + l)]
      BY <1>0, <2>1
    <2> QED BY <2>2, <2>3, <2>4
  <1> QED BY <1>p, <1>1, <1>2, <1>3

\* Slots outside of it are cleared.
LEMMA RingKept ==
  ASSUME NEW s, NEW t, s.inp \in 0..SBufSize, s.out \in 0..SBufSize, t.inp = s.inp, t.out = s.out,
         t.buf = [i \in 0..SBufSize |-> IF (i + BufLen - s.out) % BufLen < Used(s) THEN s.buf[i] ELSE 0]
  PROVE  Used(t) = Used(s) /\ Unread(t) = Unread(s)
  <1>p. PICK o \in 0..SBufSize, u \in 0..SBufSize : o = s.out /\ u = Used(s)
    BY UnreadIs
  <1>1. Used(t) = u
    BY <1>p DEF Used
  <1>2. ASSUME NEW i \in 1..u PROVE t.buf[(o + i - 1) % BufLen] = s.buf[(o + i - 1) % BufLen]
    <2>1. PICK j \in 0..SBufSize : j = i - 1 /\ j < u
      <3>1. i - 1 \in 0..SBufSize /\ i - 1 < u
        BY BufLenIs
      <3> QED BY <3>1
    <2>2. (o + i - 1) % BufLen = Slot(o, j) /\ Slot(o, j) \in 0..SBufSize
      BY <1>p, <2>1, UnreadIs
    <2>3. (Slot(o, j) + BufLen - o) % BufLen = j
      BY <2>2, SlotIs, SlotBehind
    <2> QED BY <1>p, <2>1, <2>2, <2>3
  <1>3. /\ Unread(t) = [i \in 1..u |-> t.buf[(o + i - 1) % BufLen]]
        /\ Unread(s) = [i \in 1..u |-> s.buf[(o + i - 1) % BufLen]]
    BY <1>p, <1>1 DEF Unread
  <1> QED BY ONLY <1>p, <1>1, <1>2, <1>3

-----------------------------------------------------------------------------
(* The invariant of a stream. *)

\* The clients and the references.
RefsOK(s) ==
    /\ \A i, j \in 1..Len(s.clients) : s.clients[i] = s.clients[j] => i = j
    /\ s.ref_cnt = Len(s.clients) + (IF s.deleted THEN 0 ELSE 1)
    /\ \A c \in Channels : c \notin ToSet(s.clients) => s.cl[c] = NoClient

\* A request to read waits only where there is nothing to read.
ReadsWait(s) ==
    \A c \in Channels : s.cl[c].reads # <<>> =>
        access = "read" /\ s.cl[c].pos = s.pos /\ ~s.eos_inp

\* The bytes that a reader has got, up to pos.
GotUpTo(got, pos) ==
    /\ got # <<>> /\ got[1] \in Nat /\ got[Len(got)] = pos
    /\ \A i \in 1..Len(got) : got[i] = got[1] + i - 1

ReaderOK(low, high, cl) == low <= cl.pos /\ cl.pos <= high /\ GotUpTo(cl.got, cl.pos)

\* The ring holds the last bytes of the process, and every client has read up to it at least.
RingRead(s) ==
    /\ Used(s) <= s.pos
    /\ \A i \in 1..Used(s) : Unread(s)[i] = s.pos - Used(s) + i

ReadOK(s) ==
    /\ RingRead(s)
    /\ \A c \in ToSet(s.clients) : ReaderOK(s.pos - Used(s), s.pos, s.cl[c])

\* The bytes of every channel are in their places.
WriteOK(s, tk, sn) ==
    /\ Unread(s) \in Seq(Item) /\ Used(s) <= s.pos
    /\ \A c \in Channels : WriterOK(Unread(s), s.cl[c].writes, s.eos_inp, c, tk[c], sn[c])

\* No deletion is in the queue.
NoDelete(q) == \A i \in 1..Len(q) : q[i] # "delete"
Live(s) == s \in Stream /\ s.ref_cnt > 0 /\ NoDelete(s.queue)

SameRing(s, t) == t.inp = s.inp /\ t.out = s.out /\ t.buf = s.buf
SameRefs(s, t) == /\ t.ref_cnt = s.ref_cnt /\ t.deleted = s.deleted /\ t.freed = s.freed
                  /\ t.clients = s.clients

\* Only notifications are posted.
Notified(s, t) ==
    /\ SameRing(s, t) /\ SameRefs(s, t)
    /\ t.pos = s.pos /\ t.eos_inp = s.eos_inp /\ t.eos_out = s.eos_out /\ t.cl = s.cl

LEMMA RingSame ==
  ASSUME NEW s, NEW t, SameRing(s, t)
  PROVE  Used(t) = Used(s) /\ Room(t) = Room(s) /\ Unread(t) = Unread(s)
  BY DEF SameRing, Used, Room, Unread

LEMMA NotifyIs ==
  ASSUME NEW s, Live(s), NEW e \in {"data", "space"}
  PROVE  Live(Notify(s, e)) /\ Notified(s, Notify(s, e))
  <1>p. PICK t : t = [s EXCEPT !.posted = @ \cup {e}, !.queue = Append(@, e)]
    OBVIOUS
  <1>1. s \in Stream /\ e \in Event /\ s.queue \in Seq(Event) /\ NoDelete(s.queue) /\ s.ref_cnt > 0
    BY DEF Live, Stream, Event
  <1>2. /\ t \in Stream /\ t.queue = Append(s.queue, e) /\ t.ref_cnt = s.ref_cnt
    <2>1. PICK x, q : x = s.posted \cup {e} /\ q = Append(s.queue, e)
      OBVIOUS
    <2>2. x \in SUBSET Event /\ q \in Seq(Event)
      BY <1>1, <2>1 DEF Stream
    <2>3. t = [s EXCEPT !.posted = x, !.queue = q]
      BY <1>p, <2>1
    <2>4. t \in Stream /\ t.queue = q /\ t.ref_cnt = s.ref_cnt
      BY <1>1, <2>2, <2>3 DEF Stream
    <2> QED BY <2>1, <2>4
  <1>3. Notified(s, t)
    BY <1>p, <1>1 DEF Stream, Notified, SameRing, SameRefs
  <1>4. NoDelete(t.queue)
    BY <1>1, <1>2 DEF NoDelete
  <1>5. Live(t)
    BY <1>1, <1>2, <1>4 DEF Live
  <1>6. Notified(s, s)
    BY DEF Notified, SameRing, SameRefs
  <1> QED BY <1>p, <1>3, <1>5, <1>6 DEF Notify

LEMMA MinIs ==
  ASSUME NEW T, T \subseteq Nat, T # {}
  PROVE  Min(T) \in T /\ \A y \in T : Min(T) <= y
  BY Least DEF Min

\* What a step of a reader or of the ring leaves alone.
SameRead(s, t) ==
    /\ SameRefs(s, t) /\ t.pos = s.pos /\ t.eos_inp = s.eos_inp /\ t.eos_out = s.eos_out

LEMMA AdvanceIs ==
  ASSUME NEW s, Live(s), ReadOK(s)
  PROVE  /\ Live(Advance(s)) /\ ReadOK(Advance(s)) /\ SameRead(s, Advance(s))
         /\ Advance(s).cl = s.cl
  <1>p. PICK u, P : u = Used(s) /\ P = {s.cl[c].pos : c \in ToSet(s.clients)}
    OBVIOUS
  <1>0. /\ s \in Stream /\ s.inp \in 0..SBufSize /\ s.out \in 0..SBufSize /\ s.pos \in Nat
        /\ s.clients \in Seq(Channels) /\ s.cl \in [Channels -> Client]
        /\ s.ref_cnt > 0 /\ NoDelete(s.queue)
    BY DEF Live, Stream
  <1>1. u \in Nat /\ u <= s.pos /\ \A i \in 1..u : Unread(s)[i] = s.pos - u + i
    BY <1>p, <1>0, UnreadIs DEF ReadOK, RingRead
  <1>2. \A c \in ToSet(s.clients) :
            c \in Channels /\ s.cl[c].pos \in Nat /\ s.pos - u <= s.cl[c].pos /\ s.cl[c].pos <= s.pos
    <2>1. ASSUME NEW c \in ToSet(s.clients) PROVE c \in Channels
      BY <1>0 DEF ToSet
    <2>2. \A c \in Channels : s.cl[c] \in Client
      BY <1>0
    <2> QED BY <1>p, <2>1, <2>2 DEF ReadOK, ReaderOK, Client
  <1>3. PICK k : k = IF P = {} THEN u ELSE IF Min(P) > s.pos - u THEN Min(P) - (s.pos - u) ELSE 0
    OBVIOUS
  <1>4. k \in Nat /\ k <= u /\ \A c \in ToSet(s.clients) : (s.pos - u) + k <= s.cl[c].pos
    <2>1. CASE P = {}
      <3>1. k = u /\ ToSet(s.clients) = {}
        BY <1>p, <1>3, <2>1
      <3> QED BY <1>1, <3>1
    <2>2. CASE P # {}
      <3>1. P \subseteq Nat /\ \A y \in P : s.pos - u <= y /\ y <= s.pos
        BY <1>p, <1>2
      <3>2. PICK m \in Nat : m = Min(P) /\ m \in P /\ \A y \in P : m <= y
        BY <2>2, <3>1, MinIs
      <3>3. s.pos - u <= m /\ m <= s.pos
        BY <3>1, <3>2
      <3>4. k = m - (s.pos - u)
        BY <1>0, <1>1, <1>3, <2>2, <3>2, <3>3
      <3>5. \A c \in ToSet(s.clients) : m <= s.cl[c].pos
        BY <1>p, <3>2
      <3> QED BY <1>0, <1>1, <3>2, <3>3, <3>4, <3>5
    <2> QED BY <2>1, <2>2
  <1>5. PICK t : t = [s EXCEPT !.out = (@ + k) % BufLen]
    OBVIOUS
  <1>6. Advance(s) = IF k = 0 THEN s ELSE Notify(t, "space")
    BY <1>p, <1>3, <1>5 DEF Advance
  <1>7. CASE k = 0
    BY <1>6, <1>7 DEF SameRead, SameRefs
  <1>8. CASE k # 0
    <2>1. PICK o : o = (s.out + k) % BufLen
      OBVIOUS
    <2>2. /\ t.out = o /\ t.inp = s.inp /\ t.buf = s.buf /\ SameRead(s, t) /\ t.cl = s.cl
          /\ t.ref_cnt > 0 /\ NoDelete(t.queue)
      BY <1>0, <1>5, <2>1 DEF Stream, SameRead, SameRefs
    <2>3. /\ t.inp \in 0..SBufSize /\ t.out \in 0..SBufSize /\ Used(t) = u - k
          /\ \A i \in 1..Used(t) : Unread(t)[i] = Unread(s)[k + i]
      <3>1. /\ s.inp \in 0..SBufSize /\ s.out \in 0..SBufSize /\ k <= Used(s) /\ k \in Nat
            /\ t.inp = s.inp /\ t.buf = s.buf /\ t.out = (s.out + k) % BufLen
        BY <1>p, <1>0, <1>4, <2>1, <2>2
      <3>2. /\ t.inp \in 0..SBufSize /\ t.out \in 0..SBufSize /\ Used(t) = Used(s) - k
            /\ \A i \in 1..Used(t) : Unread(t)[i] = Unread(s)[k + i]
        BY <3>1, RingDrop
      <3> QED BY <1>p, <3>2
    <2>4. t \in Stream
      <3>1. o \in 0..SBufSize /\ t = [s EXCEPT !.out = o]
        BY <1>5, <2>1, <2>2, <2>3
      <3> QED BY <1>0, <3>1 DEF Stream
    <2>5. RingRead(t)
      <3>1. Used(t) <= t.pos
        BY <1>0, <1>1, <1>4, <2>2, <2>3 DEF SameRead
      <3>2. ASSUME NEW i \in 1..Used(t) PROVE Unread(t)[i] = t.pos - Used(t) + i
        <4>1. k + i \in 1..u /\ s.pos - u + (k + i) = s.pos - (u - k) + i
          BY <1>0, <1>1, <1>4, <2>3
        <4>2. t.pos = s.pos /\ Unread(t)[i] = s.pos - u + (k + i)
          BY <1>1, <2>2, <2>3, <4>1 DEF SameRead
        <4> QED BY <2>3, <4>1, <4>2
      <3> QED BY <3>1, <3>2 DEF RingRead
    <2>6. ReadOK(t)
      <3>1. ASSUME NEW c \in ToSet(t.clients) PROVE ReaderOK(t.pos - Used(t), t.pos, t.cl[c])
        <4>1. c \in ToSet(s.clients) /\ t.cl[c] = s.cl[c] /\ t.pos = s.pos
          BY <2>2 DEF SameRead, SameRefs
        <4>2. ReaderOK(s.pos - u, s.pos, s.cl[c])
          BY <1>p, <4>1 DEF ReadOK
        <4>3. s.pos - (u - k) <= s.cl[c].pos
          <5>1. (s.pos - u) + k <= s.cl[c].pos
            BY <1>4, <4>1
          <5>2. s.pos - (u - k) = (s.pos - u) + k
            BY <1>0, <1>1, <1>4
          <5> QED BY <5>1, <5>2
        <4> QED BY <2>3, <4>1, <4>2, <4>3 DEF ReaderOK
      <3> QED BY <2>5, <3>1 DEF ReadOK
    <2>7. PICK r : r = Notify(t, "space")
      OBVIOUS
    <2>8. Live(t)
      BY <2>2, <2>4 DEF Live
    <2>9. Live(r) /\ Notified(t, r)
      BY <2>7, <2>8, NotifyIs
    <2>10. ReadOK(r)
      <3>1. Used(r) = Used(t) /\ Unread(r) = Unread(t)
        BY <2>9, RingSame DEF Notified
      <3> QED BY <2>6, <2>9, <3>1 DEF Notified, SameRefs, ReadOK, RingRead
    <2> QED BY <1>6, <1>8, <2>2, <2>7, <2>9, <2>10 DEF Notified, SameRead, SameRefs
  <1> QED BY <1>7, <1>8

LEMMA GotMore ==
  ASSUME NEW got \in Seq(Mark), NEW pos \in Nat, GotUpTo(got, pos), NEW more \in Seq(Mark),
         \A i \in 1..Len(more) : more[i] = pos + i
  PROVE  GotUpTo(got \o more, pos + Len(more))
  <1>p. PICK x, m, n : x = got \o more /\ m = Len(got) /\ n = Len(more)
    OBVIOUS
  <1>1. m \in Nat /\ n \in Nat /\ m > 0 /\ got[1] \in Nat /\ got[m] = pos
    BY <1>p DEF GotUpTo
  <1>2. x \in Seq(Mark) /\ Len(x) = m + n /\ \A i \in 1..(m + n) : x[i] = IF i <= m THEN got[i] ELSE more[i - m]
    BY <1>p, ConcatProperties
  <1>3. PICK g \in Nat : g = got[1] /\ pos = g + m - 1
    <2>1. m \in 1..m /\ \A i \in 1..m : got[i] = got[1] + i - 1
      BY <1>p, <1>1 DEF GotUpTo
    <2> QED BY <1>1, <2>1
  <1>4. ASSUME NEW i \in 1..(m + n) PROVE x[i] = g + i - 1
    <2>1. CASE i <= m
      <3>1. i \in 1..m
        BY <1>1, <2>1
      <3> QED BY <1>p, <1>2, <1>3, <2>1, <3>1 DEF GotUpTo
    <2>2. CASE ~(i <= m)
      <3>1. i - m \in 1..n /\ pos + (i - m) = g + i - 1
        <4>1. i - m \in 1..n
          BY <1>1, <2>2
        <4>2. PICK j \in Nat : j = i - m /\ i = m + j
          BY <1>1, <4>1
        <4>3. (g + m - 1) + j = g + (m + j) - 1
          BY <1>1, <4>2
        <4> QED BY <1>3, <4>1, <4>2, <4>3
      <3>2. x[i] = pos + (i - m)
        BY <1>p, <1>2, <2>2, <3>1
      <3> QED BY <3>1, <3>2
    <2> QED BY <2>1, <2>2
  <1>5. x[1] = g /\ x[m + n] = pos + n
    <2>1. 1 \in 1..(m + n) /\ m + n \in 1..(m + n) /\ g + 1 - 1 = g /\ g + (m + n) - 1 = pos + n
      BY <1>1, <1>3
    <2> QED BY <1>4, <2>1
  <1>6. x # <<>>
    BY <1>1, <1>2
  <1>7. GotUpTo(x, pos + n)
    BY <1>2, <1>3, <1>4, <1>5, <1>6 DEF GotUpTo
  <1> QED BY <1>p, <1>7

\* The ring of s can be read.
RingOK(s) ==
    /\ s.inp \in 0..SBufSize /\ s.out \in 0..SBufSize /\ s.pos \in Nat
    /\ s.buf \in [0..SBufSize -> Mark] /\ RingRead(s)

LEMMA ReadReplyIs ==
  ASSUME NEW s, RingOK(s), NEW cl \in Client, ReaderOK(s.pos - Used(s), s.pos, cl), NEW size \in Nat
  PROVE  LET r == ReadReply(s, cl, size) IN
         /\ r \in Client /\ ReaderOK(s.pos - Used(s), s.pos, r)
         /\ r.reads = cl.reads /\ r.writes = cl.writes
  <1>a. PICK i \in 0..SBufSize, o \in 0..SBufSize : i = s.inp /\ o = s.out
    BY DEF RingOK
  <1>b. PICK b, u, q : b = s.pos - cl.pos /\ u = Used(s) /\ q = s.pos
    OBVIOUS
  <1>c. PICK n, x : n = Min2(b, size) /\ x = (s.inp + BufLen - b) % BufLen
    OBVIOUS
  <1>d. PICK a : a = [k \in 1..n |-> s.buf[(x + k - 1) % BufLen]]
    OBVIOUS
  <1>p. /\ u = Used(s) /\ b = s.pos - cl.pos /\ n = Min2(b, size) /\ q = s.pos
        /\ x = (s.inp + BufLen - b) % BufLen /\ i = s.inp /\ o = s.out
        /\ a = [k \in 1..n |-> s.buf[(x + k - 1) % BufLen]]
    BY <1>a, <1>b, <1>c, <1>d
  <1>1. /\ u \in 0..SBufSize /\ u \in Nat /\ SBufSize \in Nat /\ q \in Nat /\ u <= q /\ Slot(o, u) = i
        /\ \A k \in 1..u : s.buf[Slot(o, k - 1)] = q - u + k
    <2>1. u \in 0..SBufSize /\ Slot(o, u) = i /\ \A k \in 1..u : Unread(s)[k] = s.buf[Slot(o, k - 1)]
      BY <1>p, UnreadIs
    <2>2. q \in Nat /\ u <= q /\ \A k \in 1..u : Unread(s)[k] = q - u + k
      BY <1>p DEF RingOK, RingRead
    <2>3. u \in Nat /\ SBufSize \in Nat
      BY <2>1, BufLenIs
    <2> QED BY <2>1, <2>2, <2>3
  <1>2. PICK p \in Nat : p = cl.pos /\ q - u <= p /\ p <= q
    BY <1>p DEF ReaderOK, Client
  <1>3. b = q - p /\ b \in 0..SBufSize /\ b \in Nat /\ b <= u /\ u - b \in 0..SBufSize
    <2>1. b = q - p
      BY <1>p, <1>2
    <2> QED BY <1>1, <1>2, <2>1
  <1>4. n \in Nat /\ n <= b
    BY <1>p, <1>3 DEF Min2
  <1>5. x = Slot(o, u - b) /\ x \in 0..SBufSize
    <2>1. x = Behind(i, b) /\ x \in 0..SBufSize
      <3>1. (i + BufLen - b) % BufLen = Behind(i, b) /\ Behind(i, b) \in 0..SBufSize
        BY <1>3, SlotIs
      <3> QED BY <1>p, <3>1
    <2>2. Behind(Slot(o, u), b) = Slot(o, u - b)
      BY <1>1, <1>3, BufLenIs DEF Slot, Behind
    <2> QED BY <1>1, <2>1, <2>2
  <1>6. ASSUME NEW k \in 1..n PROVE a[k] = p + k /\ a[k] \in Mark
    <2>1. PICK j \in 0..SBufSize : /\ j = k - 1 /\ x + k - 1 = x + j /\ (u - b) + j <= SBufSize
                                   /\ (u - b) + k \in 1..u /\ ((u - b) + k) - 1 = (u - b) + j
      <3>1. /\ k - 1 \in 0..SBufSize /\ x + k - 1 = x + (k - 1) /\ (u - b) + (k - 1) <= SBufSize
            /\ (u - b) + k \in 1..u /\ ((u - b) + k) - 1 = (u - b) + (k - 1)
        BY <1>1, <1>3, <1>4, <1>5
      <3> QED BY <3>1
    <2>2. a[k] = s.buf[(x + j) % BufLen]
      BY <1>p, <2>1
    <2>3. (x + j) % BufLen = Slot(x, j) /\ Slot(x, j) \in 0..SBufSize
      BY <1>5, SlotIs
    <2>4. Slot(x, j) = Slot(o, (u - b) + j)
      BY <1>3, <1>5, <2>1, SlotSlot
    <2>5. s.buf[Slot(o, (u - b) + j)] = q - u + ((u - b) + k)
      BY <1>1, <2>1
    <2>6. q - u + ((u - b) + k) = p + k
      BY <1>1, <1>2, <1>3
    <2>7. p + k \in Mark
      BY <1>2, <1>4 DEF Mark
    <2> QED BY <2>2, <2>3, <2>4, <2>5, <2>6, <2>7
  <1>7. a \in Seq(Mark) /\ Len(a) = n /\ \A k \in 1..n : a[k] = p + k
    <2>1. a = [k \in 1..n |-> a[k]]
      BY <1>p
    <2> QED BY <1>4, <1>6, <2>1
  <1>8. cl.got \in Seq(Mark) /\ GotUpTo(cl.got, p)
    BY <1>2 DEF Client, ReaderOK
  <1>9. PICK g, w : g = cl.got \o a /\ w = p + n
    OBVIOUS
  <1>10. g \in Seq(Mark) /\ w \in Nat /\ GotUpTo(g, w) /\ q - u <= w /\ w <= q
    <2>1. GotUpTo(g, w)
      <3>1. \A k \in 1..Len(a) : a[k] = p + k
        BY <1>7
      <3>2. GotUpTo(cl.got \o a, p + Len(a))
        BY <1>7, <1>8, <3>1, GotMore
      <3> QED BY <1>7, <1>9, <3>2
    <2>2. g \in Seq(Mark)
      BY <1>7, <1>8, <1>9, ConcatProperties
    <2>3. w \in Nat /\ q - u <= w /\ w <= q
      <3>1. p \in Nat /\ n \in Nat /\ q \in Nat /\ u \in Nat /\ q - u <= p /\ n <= q - p /\ w = p + n
        <4>1. p \in Nat /\ n \in Nat /\ q \in Nat /\ u \in Nat
          BY <1>1, <1>2, <1>4
        <4>2. q - u <= p /\ n <= q - p /\ w = p + n
          BY <1>2, <1>3, <1>4, <1>9
        <4> QED BY <4>1, <4>2
      <3> QED BY <3>1
    <2> QED BY <2>1, <2>2, <2>3
  <1>11. ReadReply(s, cl, size) = [cl EXCEPT !.pos = w, !.got = g]
    <2>1. /\ (IF u < b THEN b - u ELSE 0) = 0 /\ Min2(u, b) = b
      BY <1>1, <1>3 DEF Min2
    <2>2. cl.pos + 0 + n = w
      BY <1>2, <1>4, <1>9
    <2>3. ReadReply(s, cl, size) = [cl EXCEPT !.pos = cl.pos + 0 + n, !.got = cl.got \o a]
      BY <1>p, <2>1 DEF ReadReply
    <2> QED BY <1>9, <2>2, <2>3
  <1>12. PICK r : r = [cl EXCEPT !.pos = w, !.got = g]
    OBVIOUS
  <1>13. r \in Client /\ r.pos = w /\ r.got = g /\ r.reads = cl.reads /\ r.writes = cl.writes
    BY <1>10, <1>12 DEF Client
  <1>14. ReaderOK(s.pos - Used(s), s.pos, r)
    BY <1>p, <1>10, <1>13 DEF ReaderOK
  <1> QED BY <1>11, <1>12, <1>13, <1>14

LEMMA TheIs == \A v : The({v}) = v
  BY DEF The

\* One request is answered, unless the reader is at the end of the ring.
LEMMA AnswerReadIs ==
  ASSUME NEW s, RingOK(s), NEW cl \in Client, ReaderOK(s.pos - Used(s), s.pos, cl), cl.reads # <<>>
  PROVE  LET r == AnswerRead(s, cl) IN
         /\ r \in Client /\ ReaderOK(s.pos - Used(s), s.pos, r) /\ r.writes = cl.writes
         /\ \/ Len(r.reads) + 1 = Len(cl.reads)
            \/ r = cl /\ cl.pos = s.pos /\ ~s.eos_inp
  <1>1. CASE cl.pos < s.pos \/ s.eos_inp
    <2>1. PICK q, n : q = Tail(cl.reads) /\ n = Head(cl.reads)
      OBVIOUS
    <2>2. q \in Seq(Nat) /\ Len(q) + 1 = Len(cl.reads) /\ n \in Nat
      <3>1. cl.reads \in Seq(Nat)
        BY DEF Client
      <3> QED BY <2>1, <3>1
    <2>3. PICK r : r = ReadReply(s, cl, n)
      OBVIOUS
    <2>4. r \in Client /\ ReaderOK(s.pos - Used(s), s.pos, r) /\ r.reads = cl.reads /\ r.writes = cl.writes
      BY <2>2, <2>3, ReadReplyIs
    <2>5. PICK x : x = [r EXCEPT !.reads = q]
      OBVIOUS
    <2>6. AnswerRead(s, cl) = x
      <3>1. AnswerRead(s, cl) = [ReadReply(s, cl, n) EXCEPT !.reads = Tail(@)]
        BY <1>1, <2>1 DEF AnswerRead
      <3>2. AnswerRead(s, cl) = [r EXCEPT !.reads = Tail(r.reads)]
        BY <2>3, <3>1
      <3> QED BY <2>1, <2>4, <2>5, <3>2
    <2>7. x \in Client /\ x.pos = r.pos /\ x.got = r.got /\ x.reads = q /\ x.writes = r.writes
      BY <2>2, <2>4, <2>5 DEF Client
    <2>8. ReaderOK(s.pos - Used(s), s.pos, x)
      BY <2>4, <2>7 DEF ReaderOK
    <2> QED BY <2>2, <2>4, <2>6, <2>7, <2>8
  <1>2. CASE ~(cl.pos < s.pos \/ s.eos_inp)
    <2>1. AnswerRead(s, cl) = cl
      BY <1>2 DEF AnswerRead
    <2>2. cl.pos \in Nat /\ s.pos \in Nat /\ cl.pos <= s.pos
      BY DEF Client, RingOK, ReaderOK
    <2> QED BY <1>2, <2>1, <2>2
  <1> QED BY <1>1, <1>2

\* i requests of n are answered, or those that there was something to read for.
Answered(s, n, x, i) ==
    \/ Len(x.reads) + i = n
    \/ Len(x.reads) + i > n /\ x.pos = s.pos /\ ~s.eos_inp

\* Requests are answered until none is left or there is nothing to read.
LEMMA AnswerReadsIs ==
  ASSUME NEW s, RingOK(s), NEW cl \in Client, ReaderOK(s.pos - Used(s), s.pos, cl)
  PROVE  LET r == AnswerReads(s, cl) IN
         /\ r \in Client /\ ReaderOK(s.pos - Used(s), s.pos, r) /\ r.writes = cl.writes
         /\ r.reads # <<>> => cl.reads # <<>> /\ r.pos = s.pos /\ ~s.eos_inp
  <1>p. PICK n \in Nat : n = Len(cl.reads) /\ (cl.reads = <<>> => n = 0)
    BY DEF Client
  <1>1. PICK S : S = {x \in Client : ReaderOK(s.pos - Used(s), s.pos, x) /\ x.writes = cl.writes}
    OBVIOUS
  <1>2. PICK g : g = [i \in 1..n |-> [x \in S |-> IF x.reads = <<>> THEN x ELSE AnswerRead(s, x)]]
    OBVIOUS
  <1>3. ASSUME NEW x \in S, x.reads # <<>>
        PROVE  /\ AnswerRead(s, x) \in S
               /\ \/ Len(AnswerRead(s, x).reads) + 1 = Len(x.reads)
                  \/ AnswerRead(s, x) = x /\ x.pos = s.pos /\ ~s.eos_inp
    BY <1>1, <1>3, AnswerReadIs
  <1>4. g \in [1..n -> [S -> S]] /\ cl \in S
    <2>1. \A x \in S : (IF x.reads = <<>> THEN x ELSE AnswerRead(s, x)) \in S
      BY <1>3
    <2> QED BY <1>1, <1>2, <2>1
  <1>5. PICK h \in [0..n -> S] : IsRun(h, n, cl, g)
    BY <1>4, Iterates
  <1>6. \A i \in 1..n : h[i - 1] \in S /\ h[i - 1].reads # <<>> => h[i] = AnswerRead(s, h[i - 1])
    BY <1>2, <1>5 DEF IsRun
  <1>7. \A i \in 0..n : h[i].reads \in Seq(Nat)
    BY <1>1 DEF Client
  <1>8. PICK T : T = {i \in Nat : i <= n => Answered(s, n, h[i], i)}
    OBVIOUS
  <1>9. 0 \in T
    BY <1>p, <1>5, <1>8 DEF IsRun, Answered
  <1>10. ASSUME NEW i \in Nat, i \in T PROVE i + 1 \in T
    <2> SUFFICES ASSUME i + 1 <= n PROVE Answered(s, n, h[i + 1], i + 1)
      BY <1>8
    <2>1. i + 1 \in 1..n /\ (i + 1) - 1 = i /\ i \in 0..n /\ i + 1 \in 0..n
      OBVIOUS
    <2>2. PICK x \in S, y \in S : x = h[i] /\ y = h[i + 1]
      BY <2>1
    <2>3. x.reads \in Seq(Nat) /\ y.reads \in Seq(Nat)
      BY <1>7, <2>1, <2>2
    <2>4. Len(x.reads) \in Nat /\ Len(y.reads) \in Nat
      BY <2>3
    <2>a. PICK a \in Nat, b \in Nat : a = Len(x.reads) /\ b = Len(y.reads)
      BY <2>4
    <2>5. a + i = n \/ (a + i > n /\ x.pos = s.pos /\ ~s.eos_inp)
      BY <1>8, <1>10, <2>a, <2>1, <2>2 DEF Answered
    <2>6. x.reads # <<>>
      BY <2>a, <2>3, <2>5
    <2>7. y = AnswerRead(s, x)
      BY <1>6, <2>1, <2>2, <2>6
    <2>8. \/ Len(y.reads) + 1 = Len(x.reads)
          \/ y = x /\ x.pos = s.pos /\ ~s.eos_inp
      BY <1>3, <2>6, <2>7
    <2>9. ASSUME x.pos = s.pos /\ ~s.eos_inp PROVE y = x
      <3>1. x \in Client /\ s.pos \in Nat
        BY <1>1 DEF RingOK
      <3>2. ~(x.pos < s.pos \/ s.eos_inp)
        BY <2>9, <3>1
      <3> QED BY <2>7, <3>2 DEF AnswerRead
    <2>10. CASE y = x /\ x.pos = s.pos /\ ~s.eos_inp
      <3>1. a = b
        BY <2>a, <2>10
      <3>2. b + (i + 1) > n
        BY <2>5, <3>1
      <3> QED BY <2>a, <2>2, <2>10, <3>2 DEF Answered
    <2>11. CASE Len(y.reads) + 1 = Len(x.reads) /\ y # x
      <3>1. ~(x.pos = s.pos /\ ~s.eos_inp)
        BY <2>9, <2>11
      <3>2. a + i = n
        BY <2>5, <3>1
      <3>3. b + 1 = a
        BY <2>a, <2>11
      <3>4. b + (i + 1) = n
        BY <3>2, <3>3
      <3> QED BY <2>a, <2>2, <3>4 DEF Answered
    <2> QED BY <2>8, <2>10, <2>11
  <1>11. Nat \subseteq T
    BY <1>9, <1>10, SetInduction
  <1>12. \A i \in 0..n : /\ h[i] \in S /\ Len(h[i].reads) \in Nat
                         /\ Answered(s, n, h[i], i)
    BY <1>7, <1>8, <1>11
  <1>13. \A i \in 1..n : h[i] = AnswerRead(s, h[i - 1])
    <2> SUFFICES ASSUME NEW i \in 1..n PROVE h[i] = AnswerRead(s, h[i - 1])
      OBVIOUS
    <2>1. PICK k \in 0..n : k = i - 1 /\ k < n
      OBVIOUS
    <2>2. h[k].reads # <<>>
      BY <1>12, <2>1 DEF Answered
    <2> QED BY <1>6, <2>1, <2>2
  <1>14. \A i \in 0..n : h[i] = IF i = 0 THEN cl ELSE The({AnswerRead(s, x) : x \in {h[i - 1]}})
    <2> SUFFICES ASSUME NEW i \in 0..n
                 PROVE  h[i] = IF i = 0 THEN cl ELSE The({AnswerRead(s, x) : x \in {h[i - 1]}})
      OBVIOUS
    <2>1. The({AnswerRead(s, x) : x \in {h[i - 1]}}) = AnswerRead(s, h[i - 1])
      <3>1. {AnswerRead(s, x) : x \in {h[i - 1]}} = {AnswerRead(s, h[i - 1])}
        OBVIOUS
      <3> QED BY <3>1, TheIs
    <2>2. h[0] = cl
      BY <1>5 DEF IsRun
    <2>3. i = 0 \/ i \in 1..n
      OBVIOUS
    <2> QED BY <1>13, <2>1, <2>2, <2>3
  <1>15. h = [i \in 0..n |-> IF i = 0 THEN cl ELSE The({AnswerRead(s, x) : x \in {h[i - 1]}})]
    BY <1>14
  <1>16. PICK f : /\ f = [i \in 0..n |-> IF i = 0 THEN cl ELSE The({AnswerRead(s, x) : x \in {f[i - 1]}})]
                  /\ AnswerReads(s, cl) = f[n]
    BY <1>p, <1>15 DEF AnswerReads
  <1>17. f[0] = cl /\ \A i \in 1..n : f[i] = The({AnswerRead(s, x) : x \in {f[i - 1]}})
    <2>1. \A i \in 0..n : f[i] = IF i = 0 THEN cl ELSE The({AnswerRead(s, x) : x \in {f[i - 1]}})
      BY <1>16, Zenon
    <2>2. 0 \in 0..n /\ \A i \in 1..n : i \in 0..n /\ i # 0
      OBVIOUS
    <2> QED BY <2>1, <2>2
  <1>18. PICK U : U = {i \in Nat : i <= n => f[i] = h[i]}
    OBVIOUS
  <1>19. 0 \in U
    BY <1>5, <1>17, <1>18 DEF IsRun
  <1>20. ASSUME NEW i \in Nat, i \in U PROVE i + 1 \in U
    <2> SUFFICES ASSUME i + 1 <= n PROVE f[i + 1] = h[i + 1]
      BY <1>18
    <2>1. i + 1 \in 1..n /\ (i + 1) - 1 = i /\ f[i] = h[i] /\ i + 1 \in 0..n /\ i + 1 # 0
      BY <1>18, <1>20
    <2>2. f[i + 1] = The({AnswerRead(s, x) : x \in {f[i]}})
      BY <1>17, <2>1
    <2>3. h[i + 1] = The({AnswerRead(s, x) : x \in {h[i]}})
      BY <1>14, <2>1
    <2> QED BY <2>1, <2>2, <2>3
  <1>21. Nat \subseteq U
    BY <1>19, <1>20, SetInduction
  <1>22. PICK r \in S : r = AnswerReads(s, cl) /\ r = h[n]
    <2>1. n \in U /\ n \in 0..n
      BY <1>21
    <2>2. f[n] = h[n] /\ h[n] \in S
      BY <1>18, <2>1
    <2> QED BY <1>16, <2>2
  <1>23. r.reads # <<>> => n # 0 /\ r.pos = s.pos /\ ~s.eos_inp
    <2>1. r.reads \in Seq(Nat) /\ Len(r.reads) \in Nat
      BY <1>7, <1>22
    <2>2. Len(r.reads) + n = n \/ (r.pos = s.pos /\ ~s.eos_inp)
      BY <1>12, <1>22 DEF Answered
    <2>3. n = 0 => r = cl /\ Len(cl.reads) = 0
      BY <1>p, <1>5, <1>22 DEF IsRun
    <2> QED BY <2>1, <2>2, <2>3
  <1> QED BY <1>p, <1>1, <1>22, <1>23

-----------------------------------------------------------------------------
(* Data is added. *)

\* The first n bytes of data are put into the ring of s; with all of them the end, if eos.
Filled(s, t, data, eos, n) ==
    /\ n \in Nat /\ n <= Len(data)
    /\ Unread(t) \in Seq(Mark) /\ Used(t) = Used(s) + n
    /\ \A i \in 1..Used(s) : Unread(t)[i] = Unread(s)[i]
    /\ \A i \in 1..n : Unread(t)[Used(s) + i] = data[i]
    /\ t.pos = s.pos + n /\ t.out = s.out
    /\ t.eos_inp = (s.eos_inp \/ (eos /\ n = Len(data)))
    /\ t.cl = s.cl /\ SameRefs(s, t) /\ t.eos_out = s.eos_out

LEMMA FunctionIsSeq == \A S : \A m \in Nat : \A x \in [1..m -> S] : x \in Seq(S)
  OBVIOUS

LEMMA UnreadType ==
  ASSUME NEW s \in Stream
  PROVE  Unread(s) \in Seq(Mark) /\ Used(s) \in 0..SBufSize /\ Used(s) \in Nat /\ Len(Unread(s)) = Used(s)
  <1>1. /\ s.inp \in 0..SBufSize /\ s.out \in 0..SBufSize /\ s.buf \in [0..SBufSize -> Mark]
    BY DEF Stream
  <1>2. /\ Used(s) \in 0..SBufSize /\ Len(Unread(s)) = Used(s)
        /\ \A i \in 1..Used(s) : /\ Unread(s)[i] = s.buf[Slot(s.out, i - 1)]
                                 /\ Slot(s.out, i - 1) \in 0..SBufSize
    BY <1>1, UnreadIs
  <1>3. \A i \in 1..Used(s) : Unread(s)[i] \in Mark
    BY <1>1, <1>2
  <1>4. PICK u \in Nat : u = Used(s)
    BY <1>2, BufLenIs
  <1>5. Unread(s) = [i \in 1..u |-> Unread(s)[i]]
    BY <1>4 DEF Unread
  <1>6. Unread(s) \in Seq(Mark)
    BY <1>3, <1>4, <1>5
  <1> QED BY <1>2, <1>4, <1>6

Fill(s, data, eos, n) ==
    [s EXCEPT !.buf = [i \in DOMAIN @ |-> LET k == (i + BufLen - s.inp) % BufLen
                                         IN  IF k < n THEN data[k + 1] ELSE @[i]],
              !.inp = (@ + n) % BufLen, !.pos = @ + n, !.eos_inp = eos /\ n = Len(data)]

LEMMA FillIs ==
  ASSUME NEW s, Live(s), ~s.eos_inp, NEW data \in Seq(Mark), NEW eos \in BOOLEAN, NEW n,
         n = Min2(Len(data), Room(s)), NEW t, t = Fill(s, data, eos, n)
  PROVE  Live(t) /\ Filled(s, t, data, eos, n)
  <1>0. /\ s \in Stream /\ s.inp \in 0..SBufSize /\ s.out \in 0..SBufSize /\ s.pos \in Nat
        /\ s.buf \in [0..SBufSize -> Mark] /\ s.ref_cnt > 0 /\ NoDelete(s.queue)
    BY DEF Live, Stream
  <1>1. PICK u \in 0..SBufSize : u = Used(s) /\ Room(s) = SBufSize - u
    BY <1>0, UnreadIs
  <1>2. n \in Nat /\ n <= Len(data) /\ n <= Room(s) /\ n \in 0..SBufSize
    <2>1. Room(s) \in 0..SBufSize /\ SBufSize \in Nat /\ Len(data) \in Nat
      BY <1>1, BufLenIs
    <2> QED BY <2>1 DEF Min2
  <1>3. PICK b : b = [i \in 0..SBufSize |-> LET k == (i + BufLen - s.inp) % BufLen
                                            IN  IF k < n THEN data[k + 1] ELSE s.buf[i]]
    OBVIOUS
  <1>4. PICK p, q, e : p = (s.inp + n) % BufLen /\ q = s.pos + n /\ e = (eos /\ n = Len(data))
    OBVIOUS
  <1>5. t = [s EXCEPT !.buf = b, !.inp = p, !.pos = q, !.eos_inp = e]
    <2>1. DOMAIN s.buf = 0..SBufSize
      BY <1>0
    <2> QED BY <1>3, <1>4, <2>1 DEF Fill
  <1>6. b \in [0..SBufSize -> Mark]
    <2> SUFFICES ASSUME NEW i \in 0..SBufSize PROVE b[i] \in Mark
      BY <1>3
    <2>1. PICK k \in 0..SBufSize : k = (i + BufLen - s.inp) % BufLen
      BY <1>0, SlotIs
    <2>2. b[i] = IF k < n THEN data[k + 1] ELSE s.buf[i]
      BY <1>3, <2>1
    <2>3. ASSUME k < n PROVE data[k + 1] \in Mark
      <3>1. k + 1 \in 1..Len(data)
        BY <1>2, <2>3, BufLenIs
      <3> QED BY <3>1
    <2> QED BY <1>0, <2>2, <2>3
  <1>7. p \in 0..SBufSize /\ q \in Nat /\ e \in BOOLEAN
    <2>1. (s.inp + n) % BufLen = Slot(s.inp, n) /\ Slot(s.inp, n) \in 0..SBufSize
      BY <1>0, <1>2, SlotIs
    <2> QED BY <1>0, <1>2, <1>4, <2>1
  <1>8. /\ t.buf = b /\ t.inp = p /\ t.pos = q /\ t.eos_inp = e /\ t.out = s.out /\ t.cl = s.cl
        /\ t.ref_cnt = s.ref_cnt /\ t.queue = s.queue /\ t.eos_out = s.eos_out /\ SameRefs(s, t)
    BY <1>0, <1>5 DEF Stream, SameRefs
  <1>9. t \in Stream
    BY <1>0, <1>5, <1>6, <1>7 DEF Stream
  <1>10. Added(s, t, data, n)
    BY <1>0, <1>2, <1>3, <1>4, <1>8 DEF Added
  <1>11. /\ Used(t) = Used(s) + n
         /\ \A i \in 1..Used(s) : Unread(t)[i] = Unread(s)[i]
         /\ \A i \in 1..n : Unread(t)[Used(s) + i] = data[i]
    BY <1>10, RingAdd
  <1>12. Unread(t) \in Seq(Mark)
    BY <1>9, UnreadType
  <1> QED BY <1>0, <1>2, <1>4, <1>8, <1>9, <1>11, <1>12 DEF Live, Filled

\* The clients of t whose requests were answered.
Answer(t) == [t EXCEPT !.cl = [c \in Channels |-> AnswerReads(t, @[c])]]

LEMMA AddDataIs ==
  ASSUME NEW s, Live(s), NEW data \in Seq(Mark), NEW eos \in BOOLEAN
  PROVE  \E t : \E n \in Nat :
           /\ Live(t) /\ Filled(s, t, data, eos, n)
           /\ s.eos_inp => t = s /\ n = 0
           /\ access = "write" => AddData(s, data, eos) = Notify(t, "data")
           /\ access # "write" =>
                AddData(s, data, eos) = IF n = 0 /\ t.eos_inp = s.eos_inp THEN s ELSE Advance(Answer(t))
  <1>1. PICK n : n = IF s.eos_inp THEN 0 ELSE Min2(Len(data), Room(s))
    OBVIOUS
  <1>2. PICK t : t = IF s.eos_inp THEN s ELSE Fill(s, data, eos, n)
    OBVIOUS
  <1>3. n \in Nat /\ Live(t) /\ Filled(s, t, data, eos, n)
    <2>1. CASE s.eos_inp
      <3>1. t = s /\ n = 0
        BY <1>1, <1>2, <2>1
      <3>2. s \in Stream /\ s.pos \in Nat /\ s.eos_inp = TRUE
        BY <2>1 DEF Live, Stream
      <3>3. Unread(s) \in Seq(Mark) /\ Used(s) \in Nat /\ Len(data) \in Nat
        BY <3>2, UnreadType
      <3>4. Filled(s, s, data, eos, 0)
        <4>1. /\ 0 \in Nat /\ 0 <= Len(data) /\ Used(s) = Used(s) + 0 /\ s.pos = s.pos + 0
              /\ \A i \in 1..0 : Unread(s)[Used(s) + i] = data[i]
          BY <3>2, <3>3
        <4>2. s.eos_inp = (s.eos_inp \/ (eos /\ 0 = Len(data)))
          BY <3>2
        <4> QED BY <3>3, <4>1, <4>2 DEF Filled, SameRefs
      <3> QED BY <3>1, <3>4
    <2>2. CASE ~s.eos_inp
      <3>1. n = Min2(Len(data), Room(s))
        BY <1>1, <2>2
      <3>2. t = Fill(s, data, eos, n)
        BY <1>2, <2>2
      <3>3. Live(t) /\ Filled(s, t, data, eos, n)
        BY <2>2, <3>1, <3>2, FillIs
      <3> QED BY <3>3 DEF Filled
    <2> QED BY <2>1, <2>2
  <1>4. s.eos_inp => t = s /\ n = 0
    BY <1>1, <1>2
  <1>5. AddData(s, data, eos) =
            IF access = "write" THEN The({Notify(x, "data") : x \in {t}})
            ELSE IF n = 0 /\ t.eos_inp = s.eos_inp THEN s
            ELSE The({Advance(y) : y \in {Answer(x) : x \in {t}}})
    BY <1>1, <1>2 DEF AddData, Answer, Fill
  <1>6. The({Notify(x, "data") : x \in {t}}) = Notify(t, "data")
    <2>1. {Notify(x, "data") : x \in {t}} = {Notify(t, "data")}
      OBVIOUS
    <2> QED BY <2>1, TheIs
  <1>7. The({Advance(y) : y \in {Answer(x) : x \in {t}}}) = Advance(Answer(t))
    <2>1. {Advance(y) : y \in {Answer(x) : x \in {t}}} = {Advance(Answer(t))}
      OBVIOUS
    <2> QED BY <2>1, TheIs
  <1> QED BY <1>3, <1>4, <1>5, <1>6, <1>7

LEMMA AnswerNone ==
  ASSUME NEW s, NEW cl, cl.reads = <<>>
  PROVE  AnswerReads(s, cl) = cl
  <1>1. PICK n : n = Len(cl.reads) /\ n = 0
    OBVIOUS
  <1>2. PICK h : h = [i \in 0..n |-> cl]
    OBVIOUS
  <1>3. h = [i \in 0..n |-> IF i = 0 THEN cl ELSE The({AnswerRead(s, x) : x \in {h[i - 1]}})]
    <2>1. \A i \in 0..n : i = 0
      BY <1>1
    <2> QED BY <1>2, <2>1
  <1>4. PICK f : /\ f = [i \in 0..n |-> IF i = 0 THEN cl ELSE The({AnswerRead(s, x) : x \in {f[i - 1]}})]
                 /\ AnswerReads(s, cl) = f[n]
    BY <1>1, <1>3 DEF AnswerReads
  <1>5. n \in 0..n /\ n = 0
    BY <1>1
  <1> QED BY <1>4, <1>5

LEMMA AnswerIs ==
  ASSUME NEW s, access = "read", Live(s), ReadOK(s), RefsOK(s)
  PROVE  /\ Live(Answer(s)) /\ ReadOK(Answer(s)) /\ RefsOK(Answer(s)) /\ ReadsWait(Answer(s))
         /\ SameRead(s, Answer(s))
  <1>0. /\ s \in Stream /\ s.cl \in [Channels -> Client] /\ s.clients \in Seq(Channels)
        /\ s.inp \in 0..SBufSize /\ s.out \in 0..SBufSize /\ s.pos \in Nat
        /\ s.buf \in [0..SBufSize -> Mark] /\ s.ref_cnt > 0 /\ NoDelete(s.queue)
    BY DEF Live, Stream
  <1>1. RingOK(s)
    BY <1>0 DEF RingOK, ReadOK
  <1>2. PICK f, x : f = [c \in Channels |-> AnswerReads(s, s.cl[c])] /\ x = [s EXCEPT !.cl = f]
    OBVIOUS
  <1>3. Answer(s) = x
    BY <1>2 DEF Answer
  <1>4. ASSUME NEW c \in ToSet(s.clients)
        PROVE  /\ c \in Channels /\ f[c] \in Client /\ ReaderOK(s.pos - Used(s), s.pos, f[c])
               /\ f[c].reads # <<>> => f[c].pos = s.pos /\ ~s.eos_inp
    <2>1. c \in Channels
      BY <1>0 DEF ToSet
    <2>2. s.cl[c] \in Client /\ ReaderOK(s.pos - Used(s), s.pos, s.cl[c])
      BY <1>0, <2>1 DEF ReadOK
    <2>3. PICK y : y = s.cl[c]
      OBVIOUS
    <2>4. y \in Client /\ ReaderOK(s.pos - Used(s), s.pos, y)
      BY <2>2, <2>3
    <2>5. PICK r : r = AnswerReads(s, y)
      OBVIOUS
    <2>6. /\ r \in Client /\ ReaderOK(s.pos - Used(s), s.pos, r)
          /\ r.reads # <<>> => r.pos = s.pos /\ ~s.eos_inp
      BY <1>1, <2>4, <2>5, AnswerReadsIs
    <2> QED BY <1>2, <2>1, <2>3, <2>5, <2>6
  <1>5. ASSUME NEW c \in Channels, c \notin ToSet(s.clients)
        PROVE  f[c] = NoClient /\ f[c] \in Client /\ f[c].reads = <<>>
    <2>1. s.cl[c] = NoClient
      BY <1>5 DEF RefsOK
    <2>2. NoClient.reads = <<>>
      BY DEF NoClient
    <2>3. f[c] = NoClient
      BY <1>2, <2>1, <2>2, AnswerNone
    <2>4. s.cl[c] \in Client
      BY <1>0
    <2> QED BY <2>1, <2>2, <2>3, <2>4
  <1>6. f \in [Channels -> Client]
    BY <1>2, <1>4, <1>5
  <1>7. /\ x \in Stream /\ x.cl = f /\ x.pos = s.pos /\ x.eos_inp = s.eos_inp /\ x.ref_cnt = s.ref_cnt
        /\ x.queue = s.queue /\ x.clients = s.clients /\ SameRing(s, x) /\ SameRead(s, x)
    BY <1>0, <1>2, <1>6 DEF Stream, SameRing, SameRead, SameRefs
  <1>8. Used(x) = Used(s) /\ Unread(x) = Unread(s)
    BY <1>7, RingSame
  <1>9. ReadOK(x)
    <2>1. RingRead(x)
      BY <1>7, <1>8 DEF ReadOK, RingRead
    <2> QED BY <1>4, <1>7, <1>8, <2>1 DEF ReadOK
  <1>10. RefsOK(x)
    BY <1>5, <1>7 DEF RefsOK, SameRead, SameRefs
  <1>11. ReadsWait(x)
    BY <1>4, <1>5, <1>7 DEF ReadsWait
  <1> QED BY <1>0, <1>3, <1>7, <1>9, <1>10, <1>11 DEF Live

\* Notifications and dropping data leave the clients alone.
LEMMA KeptRefs ==
  ASSUME NEW s, NEW t, RefsOK(s), ReadsWait(s), SameRefs(s, t), t.cl = s.cl, t.pos = s.pos,
         t.eos_inp = s.eos_inp
  PROVE  RefsOK(t) /\ ReadsWait(t)
  BY DEF RefsOK, ReadsWait, SameRefs

LEMMA AddRead ==
  ASSUME NEW s, access = "read", Live(s), ReadOK(s), RefsOK(s), ReadsWait(s),
         NEW data \in Seq(Mark), NEW eos \in BOOLEAN, \A i \in 1..Len(data) : data[i] = s.pos + i
  PROVE  LET a == AddData(s, data, eos) IN
         /\ Live(a) /\ ReadOK(a) /\ RefsOK(a) /\ ReadsWait(a) /\ SameRefs(s, a)
         /\ \E n \in Nat : n <= Len(data) /\ a.pos = s.pos + n
  <1>1. PICK t : \E n \in Nat :
           /\ Live(t) /\ Filled(s, t, data, eos, n)
           /\ AddData(s, data, eos) = IF n = 0 /\ t.eos_inp = s.eos_inp THEN s ELSE Advance(Answer(t))
    BY AddDataIs
  <1>2. PICK n \in Nat :
           /\ Live(t) /\ Filled(s, t, data, eos, n)
           /\ AddData(s, data, eos) = IF n = 0 /\ t.eos_inp = s.eos_inp THEN s ELSE Advance(Answer(t))
    BY <1>1
  <1>3. PICK u \in Nat, q \in Nat : u = Used(s) /\ q = s.pos
    <2>1. s \in Stream /\ s.pos \in Nat
      BY DEF Live, Stream
    <2> QED BY <2>1, UnreadType
  <1>4. /\ n <= Len(data) /\ Used(t) = u + n /\ t.pos = q + n /\ t.cl = s.cl /\ SameRefs(s, t)
        /\ \A i \in 1..u : Unread(t)[i] = Unread(s)[i]
        /\ \A i \in 1..n : Unread(t)[u + i] = data[i]
    BY <1>2, <1>3 DEF Filled
  <1>5. u <= q /\ \A i \in 1..u : Unread(s)[i] = q - u + i
    BY <1>3 DEF ReadOK, RingRead
  <1>6. RingRead(t)
    <2>1. ASSUME NEW i \in 1..(u + n) PROVE Unread(t)[i] = (q + n) - (u + n) + i
      <3>1. CASE i <= u
        <4>1. i \in 1..u /\ (q + n) - (u + n) + i = q - u + i
          BY <1>3, <1>5, <3>1
        <4> QED BY <1>4, <1>5, <4>1
      <3>2. CASE ~(i <= u)
        <4>1. PICK j \in 1..n : i = u + j
          <5>1. i - u \in 1..n /\ i = u + (i - u)
            BY <3>2
          <5> QED BY <5>1
        <4>2. Unread(t)[i] = data[j]
          BY <1>4, <4>1
        <4>3. data[j] = q + j
          <5>1. j \in 1..Len(data)
            BY <1>4
          <5> QED BY <1>3, <5>1
        <4>4. (q + n) - (u + n) + i = q + j
          BY <4>1
        <4> QED BY <4>2, <4>3, <4>4
      <3> QED BY <3>1, <3>2
    <2>2. u + n <= q + n
      BY <1>5
    <2> QED BY <1>4, <2>1, <2>2 DEF RingRead
  <1>7. ReadOK(t)
    <2>1. ASSUME NEW c \in ToSet(t.clients) PROVE ReaderOK(t.pos - Used(t), t.pos, t.cl[c])
      <3>1. c \in ToSet(s.clients) /\ t.cl[c] = s.cl[c]
        BY <1>4 DEF SameRefs
      <3>2. ReaderOK(q - u, q, s.cl[c])
        BY <1>3, <3>1 DEF ReadOK
      <3>3. PICK p \in Nat : p = s.cl[c].pos
        <4>1. s.clients \in Seq(Channels) /\ s.cl \in [Channels -> Client]
          BY DEF Live, Stream
        <4>2. c \in Channels
          BY <3>1, <4>1 DEF ToSet
        <4>3. s.cl[c] \in Client
          BY <4>1, <4>2
        <4> QED BY <4>3 DEF Client
      <3>4. q - u <= p /\ p <= q /\ GotUpTo(s.cl[c].got, p)
        BY <3>2, <3>3 DEF ReaderOK
      <3>5. (q + n) - (u + n) <= p /\ p <= q + n
        BY <3>4
      <3> QED BY <1>4, <3>1, <3>3, <3>4, <3>5 DEF ReaderOK
    <2> QED BY <1>6, <2>1 DEF ReadOK
  <1>8. RefsOK(t)
    BY <1>4 DEF RefsOK, SameRefs
  <1>9. CASE n = 0 /\ t.eos_inp = s.eos_inp
    <2>1. AddData(s, data, eos) = s
      BY <1>2, <1>9
    <2>2. 0 <= Len(data) /\ s.pos = s.pos + 0
      BY <1>3
    <2> QED BY <2>1, <2>2 DEF SameRefs
  <1>10. CASE ~(n = 0 /\ t.eos_inp = s.eos_inp)
    <2>1. PICK x, y : x = Answer(t) /\ y = Advance(x)
      OBVIOUS
    <2>2. AddData(s, data, eos) = y
      BY <1>2, <1>10, <2>1
    <2>3. Live(x) /\ ReadOK(x) /\ RefsOK(x) /\ ReadsWait(x) /\ SameRead(t, x)
      BY <1>2, <1>7, <1>8, <2>1, AnswerIs
    <2>4. Live(y) /\ ReadOK(y) /\ SameRead(x, y) /\ y.cl = x.cl
      BY <2>1, <2>3, AdvanceIs
    <2>5. RefsOK(y) /\ ReadsWait(y)
      BY <2>3, <2>4, KeptRefs DEF SameRead
    <2>6. SameRefs(s, y) /\ y.pos = s.pos + n
      BY <1>3, <1>4, <2>3, <2>4 DEF SameRead, SameRefs
    <2> QED BY <1>4, <2>2, <2>4, <2>5, <2>6
  <1> QED BY <1>9, <1>10

\* The same for an input stream: D are the bytes of data that there was room for.
PutIn(s, a, data, eos, D) ==
    /\ D \in Seq(Item) /\ Starts(D, data)
    /\ Unread(a) \in Seq(Item) /\ Extends(Unread(a), Unread(s), D)
    /\ a.pos = s.pos + Len(D) /\ a.out = s.out /\ a.eos_out = s.eos_out /\ a.cl = s.cl
    /\ a.eos_inp = (s.eos_inp \/ (eos /\ Len(D) = Len(data)))
    /\ s.eos_inp => D = <<>>
    /\ SameRefs(s, a)

LEMMA AddWrite ==
  ASSUME NEW s, access = "write", Live(s), Unread(s) \in Seq(Item), RefsOK(s), ReadsWait(s),
         NEW data \in Seq(Item), NEW eos \in BOOLEAN
  PROVE  LET a == AddData(s, data, eos) IN
         Live(a) /\ RefsOK(a) /\ ReadsWait(a) /\ \E D : PutIn(s, a, data, eos, D)
  <1>0. data \in Seq(Mark)
    BY DEF Mark
  <1>1. PICK t : \E n \in Nat :
           /\ Live(t) /\ Filled(s, t, data, eos, n) /\ (s.eos_inp => t = s /\ n = 0)
           /\ AddData(s, data, eos) = Notify(t, "data")
    BY <1>0, AddDataIs
  <1>2. PICK n \in Nat :
           /\ Live(t) /\ Filled(s, t, data, eos, n) /\ (s.eos_inp => t = s /\ n = 0)
           /\ AddData(s, data, eos) = Notify(t, "data")
    BY <1>1
  <1>3. PICK a : a = Notify(t, "data")
    OBVIOUS
  <1>4. Live(a) /\ Notified(t, a)
    BY <1>2, <1>3, NotifyIs
  <1>5. Used(a) = Used(t) /\ Unread(a) = Unread(t)
    BY <1>4, RingSame DEF Notified
  <1>6. PICK u \in Nat : u = Used(s) /\ Len(Unread(s)) = u
    BY UnreadType DEF Live
  <1>7. /\ n <= Len(data) /\ Used(t) = u + n /\ t.pos = s.pos + n /\ t.out = s.out /\ t.cl = s.cl
        /\ \A i \in 1..u : Unread(t)[i] = Unread(s)[i]
        /\ \A i \in 1..n : Unread(t)[u + i] = data[i]
        /\ t.eos_inp = (s.eos_inp \/ (eos /\ n = Len(data)))
        /\ SameRefs(s, t) /\ t.eos_out = s.eos_out
    BY <1>2, <1>6 DEF Filled
  <1>8. PICK D : D = [i \in 1..n |-> data[i]]
    OBVIOUS
  <1>9. D \in Seq(Item) /\ Len(D) = n /\ \A i \in 1..n : D[i] = data[i]
    <2>1. \A i \in 1..n : data[i] \in Item
      BY <1>7
    <2> QED BY <1>8, <2>1
  <1>10. Unread(t) \in Seq(Item) /\ Len(Unread(t)) = u + n
    <2>1. PICK x : x = Unread(t) /\ x \in Seq(Mark)
      BY <1>2 DEF Filled
    <2>2. Len(x) = u + n
      BY <1>2, <1>7, <2>1, UnreadType DEF Live
    <2>3. \A i \in 1..u : Unread(s)[i] \in Item
      BY <1>6
    <2>4. \A i \in 1..n : data[i] \in Item
      BY <1>7
    <2>5. \A i \in 1..(u + n) : i \in 1..u \/ (i - u \in 1..n /\ u + (i - u) = i)
      OBVIOUS
    <2>6. \A i \in 1..(u + n) : x[i] \in Item
      BY <1>7, <2>1, <2>3, <2>4, <2>5
    <2>7. x = [i \in 1..(u + n) |-> x[i]]
      BY <2>1, <2>2
    <2>8. x \in Seq(Item)
      <3>1. PICK m \in Nat : m = u + n
        OBVIOUS
      <3>2. x \in [1..m -> Item]
        BY <2>6, <2>7, <3>1
      <3> QED BY <3>2, FunctionIsSeq
    <2> QED BY <2>1, <2>2, <2>8
  <1>11. Extends(Unread(a), Unread(s), D)
    BY <1>5, <1>6, <1>7, <1>9, <1>10 DEF Extends
  <1>12. s.eos_inp => D = <<>>
    BY <1>2, <1>9
  <1>13. PutIn(s, a, data, eos, D)
    <2>1. a.pos = s.pos + Len(D) /\ a.out = s.out /\ a.eos_out = s.eos_out /\ a.cl = s.cl /\ SameRefs(s, a)
      BY <1>4, <1>7, <1>9 DEF Notified, SameRing, SameRefs
    <2>2. a.eos_inp = (s.eos_inp \/ (eos /\ Len(D) = Len(data)))
      BY <1>4, <1>7, <1>9 DEF Notified
    <2>3. Starts(D, data)
      BY <1>7, <1>9 DEF Starts
    <2> QED BY <1>5, <1>9, <1>10, <1>11, <1>12, <2>1, <2>2, <2>3 DEF PutIn
  <1>14. RefsOK(a)
    BY <1>13 DEF RefsOK, SameRefs, PutIn
  <1>15. ReadsWait(a)
    BY <1>13 DEF ReadsWait, PutIn
  <1> QED BY <1>2, <1>3, <1>4, <1>13, <1>14, <1>15

\* The bytes D of channel c are put into the ring: the other channels are not concerned.
LEMMA PutTheOthers ==
  ASSUME NEW s, NEW a, NEW data \in Seq(Item), NEW eos, NEW D, PutIn(s, a, data, eos, D),
         NEW tk, NEW sn, WriteOK(s, tk, sn), NEW c, \A i \in 1..Len(data) : data[i][1] = c,
         NEW d \in Channels, d # c
  PROVE  WriterOK(Unread(a), a.cl[d].writes, a.eos_inp, d, tk[d], sn[d])
  <1>1. PICK R, Q, W, e, f : /\ R = Unread(s) /\ Q = Unread(a) /\ W = s.cl[d].writes
                             /\ e = s.eos_inp /\ f = a.eos_inp
    OBVIOUS
  <1>2. R \in Seq(Item) /\ WriterOK(R, W, e, d, tk[d], sn[d])
    BY <1>1 DEF WriteOK
  <1>3. D \in Seq(Item) /\ Q \in Seq(Item) /\ Extends(Q, R, D) /\ (e => f) /\ a.cl[d].writes = W
    BY <1>1 DEF PutIn
  <1>4. \A i \in 1..Len(D) : D[i][1] # d
    <2>1. Len(D) <= Len(data) /\ \A i \in 1..Len(D) : D[i] = data[i]
      BY DEF PutIn, Starts
    <2>2. \A i \in 1..Len(D) : i \in 1..Len(data)
      BY <1>3, <2>1
    <2> QED BY <2>1, <2>2
  <1>5. WriterOK(Q, W, f, d, tk[d], sn[d])
    BY ONLY <1>2, <1>3, <1>4, PutOther
  <1> QED BY <1>1, <1>3, <1>5

\* The first of the waiting requests W of c goes on: all of it is put into the ring, or D.
Shorter(V, W, n) ==
    /\ Len(V) = Len(W) /\ \A k \in 2..Len(W) : V[k] = W[k]
    /\ V[1].data = SubSeq(W[1].data, n + 1, Len(W[1].data))

First(V, W, D) == (Len(D) = Len(W[1].data) /\ V = Tail(W)) \/ Shorter(V, W, Len(D))

LEMMA PutFirst ==
  ASSUME NEW s, NEW a, NEW eos, NEW D, NEW c, NEW tk \in Nat, NEW sn, NEW W \in Seq(Request), W # <<>>,
         PutIn(s, a, W[1].data, eos, D), Unread(s) \in Seq(Item),
         WriterOK(Unread(s), W, s.eos_inp, c, tk, sn),
         NEW V \in Seq(Request), First(V, W, D)
  PROVE  WriterOK(Unread(a), V, a.eos_inp, c, tk, sn)
  <1>1. Puts(Unread(s), W, s.eos_inp, c, tk, sn, D, Unread(a))
    BY DEF PutIn, Puts
  <1>2. PICK R, Q, e, f : R = Unread(s) /\ Q = Unread(a) /\ e = s.eos_inp /\ f = a.eos_inp
    OBVIOUS
  <1>3. Puts(R, W, e, c, tk, sn, D, Q)
    BY <1>1, <1>2
  <1>4. CASE Len(D) = Len(W[1].data) /\ V = Tail(W)
    <2>1. WriterOK(Q, Tail(W), f, c, tk, sn)
      BY <1>3, <1>4, PutAll
    <2> QED BY <1>2, <1>4, <2>1
  <1>5. CASE Shorter(V, W, Len(D))
    <2>1. WriterOK(Q, V, f, c, tk, sn)
      BY <1>3, <1>5, PutPart DEF Shorter
    <2> QED BY <1>2, <2>1
  <1> QED BY <1>4, <1>5 DEF First

\* What is in the ring of s is the first that is in the ring of t.
Keeps(s, t) ==
    /\ Used(s) <= Used(t) /\ \A i \in 1..Used(s) : Unread(t)[i] = Unread(s)[i]
    /\ t.out = s.out /\ t.eos_out = s.eos_out /\ SameRefs(s, t)

LEMMA KeepsPut ==
  ASSUME NEW s, s \in Stream, NEW a, a \in Stream, NEW data, NEW eos, NEW D, PutIn(s, a, data, eos, D)
  PROVE  Keeps(s, a)
  <1>1. PICK u \in Nat, v \in Nat : u = Used(s) /\ Len(Unread(s)) = u /\ v = Used(a) /\ Len(Unread(a)) = v
    BY UnreadType
  <1>2. v = u + Len(D) /\ \A i \in 1..u : Unread(a)[i] = Unread(s)[i]
    BY <1>1 DEF PutIn, Extends
  <1>3. Len(D) \in Nat
    BY DEF PutIn
  <1>4. u <= v
    BY <1>2, <1>3
  <1> QED BY <1>1, <1>2, <1>4 DEF Keeps, PutIn

\* The write requests of a client change.
WithWrites(s, c, V) == [s EXCEPT !.cl[c].writes = V]

Rewritten(s, t, c, V) ==
    /\ Live(t) /\ RefsOK(t) /\ ReadsWait(t) /\ SameRefs(s, t) /\ SameRing(s, t)
    /\ t.pos = s.pos /\ t.eos_inp = s.eos_inp /\ t.eos_out = s.eos_out
    /\ t.cl[c].writes = V /\ \A d \in Channels : d # c => t.cl[d] = s.cl[d]

LEMMA SetWrites ==
  ASSUME NEW s, access = "write", Live(s), RefsOK(s), ReadsWait(s), NEW c \in ToSet(s.clients),
         NEW V \in Seq(Request), NEW t, t = WithWrites(s, c, V)
  PROVE  Rewritten(s, t, c, V)
  <1>0. /\ s \in Stream /\ s.clients \in Seq(Channels) /\ s.cl \in [Channels -> Client]
        /\ s.ref_cnt > 0 /\ NoDelete(s.queue)
    BY DEF Live, Stream
  <1>1. c \in Channels
    BY <1>0 DEF ToSet
  <1>2. PICK x \in Client : x = [s.cl[c] EXCEPT !.writes = V] /\ x.writes = V /\ x.reads = s.cl[c].reads
    <2>1. s.cl[c] \in Client
      BY <1>0, <1>1
    <2>2. [s.cl[c] EXCEPT !.writes = V] \in Client
      BY <2>1 DEF Client
    <2> QED BY <2>1, <2>2 DEF Client
  <1>3. PICK f \in [Channels -> Client] : f = [s.cl EXCEPT ![c] = x]
    BY <1>0, <1>1
  <1>4. t = [s EXCEPT !.cl = f]
    BY <1>2, <1>3 DEF WithWrites
  <1>5. /\ t \in Stream /\ t.cl = f /\ t.ref_cnt = s.ref_cnt /\ t.queue = s.queue
        /\ SameRefs(s, t) /\ SameRing(s, t)
        /\ t.pos = s.pos /\ t.eos_inp = s.eos_inp /\ t.eos_out = s.eos_out
    BY <1>0, <1>4 DEF Stream, SameRefs, SameRing
  <1>6. f[c] = x /\ \A d \in Channels : d # c => f[d] = s.cl[d]
    BY <1>0, <1>1, <1>3
  <1>7. ReadsWait(t)
    <2>1. \A d \in Channels : s.cl[d].reads = <<>>
      BY DEF ReadsWait
    <2>2. \A d \in Channels : f[d].reads = <<>>
      BY <1>1, <1>2, <1>6, <2>1
    <2> QED BY <1>5, <2>2 DEF ReadsWait
  <1>8. RefsOK(t)
    <2>1. ASSUME NEW d \in Channels, d \notin ToSet(t.clients) PROVE f[d] = NoClient
      <3>1. d \notin ToSet(s.clients) /\ d # c
        BY <1>5, <2>1 DEF SameRefs
      <3> QED BY <1>6, <3>1 DEF RefsOK
    <2> QED BY <1>5, <2>1 DEF RefsOK, SameRefs
  <1> QED BY <1>0, <1>2, <1>5, <1>6, <1>7, <1>8 DEF Live, Rewritten

\* Client c of s waits with W, of which a has taken the first or a part of it.
Going(s, a, c, W, V) ==
    LET k == a.pos - s.pos IN
    \/ s.eos_inp /\ V = <<>>
    \/ ~s.eos_inp /\ k = Len(W[1].data) /\ V = Tail(W)
    \/ ~s.eos_inp /\ k # Len(W[1].data) /\ Shorter(V, W, k)

LEMMA GoOn ==
  ASSUME NEW s, access = "write", Live(s), RefsOK(s), ReadsWait(s), NEW tk \in [Channels -> Nat],
         NEW sn, WriteOK(s, tk, sn), NEW c \in ToSet(s.clients), NEW W \in Seq(Request), W # <<>>,
         NEW sm, \A d \in Channels : d # c => sm[d] = sn[d],
         WriterOK(Unread(s), W, s.eos_inp, c, tk[c], sm[c]),
         NEW a, a = AddData(s, W[1].data, W[1].eos),
         NEW V \in Seq(Request), Going(s, a, c, W, V)
  PROVE  LET t == WithWrites(a, c, V) IN
         /\ Live(t) /\ RefsOK(t) /\ ReadsWait(t) /\ WriteOK(t, tk, sm) /\ Keeps(s, t)
  <1>0. c \in Channels /\ Unread(s) \in Seq(Item) /\ s \in Stream
    BY DEF Live, Stream, ToSet, WriteOK
  <1>1. PICK r \in Request : r = W[1]
    <2>1. 1 \in 1..Len(W)
      OBVIOUS
    <2> QED BY <2>1
  <1>2. r.data \in Seq(Item) /\ r.eos \in BOOLEAN
    BY DEF Request
  <1>3. PICK D : PutIn(s, a, r.data, r.eos, D) /\ Live(a) /\ RefsOK(a) /\ ReadsWait(a)
    BY <1>0, <1>1, <1>2, AddWrite
  <1>4. c \in ToSet(a.clients)
    BY <1>3 DEF PutIn, SameRefs
  <1>5. PICK t : t = WithWrites(a, c, V)
    OBVIOUS
  <1>6. /\ Live(t) /\ RefsOK(t) /\ ReadsWait(t) /\ SameRefs(a, t) /\ SameRing(a, t)
        /\ t.pos = a.pos /\ t.eos_inp = a.eos_inp /\ t.eos_out = a.eos_out
        /\ t.cl[c].writes = V /\ \A d \in Channels : d # c => t.cl[d] = a.cl[d]
    <2>1. access = "write" /\ Live(a) /\ RefsOK(a) /\ ReadsWait(a)
      BY <1>3
    <2>2. Rewritten(a, t, c, V)
      BY <2>1, <1>4, <1>5, SetWrites
    <2> QED BY <2>2 DEF Rewritten
  <1>7. Used(t) = Used(a) /\ Unread(t) = Unread(a)
    BY <1>6, RingSame
  <1>8. Keeps(s, t)
    <2>1. Keeps(s, a)
      BY <1>0, <1>3, KeepsPut DEF Live
    <2> QED BY <1>6, <1>7, <2>1 DEF Keeps, SameRefs, SameRing
  <1>9. \A i \in 1..Len(r.data) : r.data[i][1] = c
    <2>1. 1 \in 1..Len(W)
      OBVIOUS
    <2>2. \A i \in 1..Len(W[1].data) :
            W[1].data[i] = <<c, tk[c] + Bytes(Unread(s), c)[Len(Unread(s))] + Waiting(W)[1 - 1] + i>>
      BY <2>1 DEF WriterOK
    <2> QED BY <1>1, <2>2
  <1>10. ASSUME NEW d \in Channels, d # c
         PROVE  WriterOK(Unread(t), t.cl[d].writes, t.eos_inp, d, tk[d], sm[d])
    <2>1. WriterOK(Unread(a), a.cl[d].writes, a.eos_inp, d, tk[d], sn[d])
      BY <1>2, <1>3, <1>9, <1>10, PutTheOthers
    <2>2. t.cl[d] = a.cl[d] /\ sm[d] = sn[d]
      BY <1>6, <1>10
    <2> QED BY <1>6, <1>7, <2>1, <2>2
  <1>11. WriterOK(Unread(a), V, a.eos_inp, c, tk[c], sm[c])
    <2>a. tk[c] \in Nat
      BY <1>0
    <2>1. First(V, W, D) => WriterOK(Unread(a), V, a.eos_inp, c, tk[c], sm[c])
      BY <1>0, <1>1, <1>3, <2>a, PutFirst
    <2>2. a.pos - s.pos = Len(D)
      <3>1. a.pos = s.pos + Len(D) /\ D \in Seq(Item)
        BY <1>3 DEF PutIn
      <3>2. s.pos \in Nat /\ Len(D) \in Nat
        BY <1>0, <3>1 DEF Stream
      <3> QED BY <3>1, <3>2
    <2>3. CASE s.eos_inp
      <3>1. V = <<>>
        BY <2>3 DEF Going
      <3>2. D = <<>> /\ a.eos_inp = TRUE /\ Unread(a) \in Seq(Item) /\ Extends(Unread(a), Unread(s), D)
        BY <1>3, <2>3 DEF PutIn
      <3>3. WriterOK(Unread(a), W, a.eos_inp, c, tk[c], sm[c])
        <4>1. D \in Seq(Item) /\ \A i \in 1..Len(D) : D[i][1] # c
          BY <3>2
        <4> QED BY <1>0, <3>2, <4>1, PutOther
      <3>4. InRing(Unread(a), c, tk[c])
        BY <3>3 DEF WriterOK
      <3> QED BY <3>1, <3>2, <3>4 DEF WriterOK
    <2>4. CASE ~s.eos_inp /\ Len(D) = Len(W[1].data)
      <3>1. V = Tail(W)
        BY <2>2, <2>4 DEF Going
      <3> QED BY <2>1, <2>4, <3>1 DEF First
    <2>5. CASE ~s.eos_inp /\ Len(D) # Len(W[1].data)
      <3>1. Shorter(V, W, Len(D))
        BY <2>2, <2>5 DEF Going
      <3> QED BY <2>1, <3>1 DEF First
    <2> QED BY <2>3, <2>4, <2>5
  <1>12. WriteOK(t, tk, sm)
    <2>1. Unread(t) \in Seq(Item)
      BY <1>3, <1>7 DEF PutIn
    <2>2. ASSUME NEW d \in Channels
          PROVE  WriterOK(Unread(t), t.cl[d].writes, t.eos_inp, d, tk[d], sm[d])
      <3>1. CASE d = c
        BY <1>6, <1>7, <1>11, <3>1
      <3> QED BY <1>10, <3>1
    <2>3. Used(t) <= t.pos
      <3>1. Used(s) \in Nat /\ Used(s) <= s.pos /\ s.pos \in Nat /\ Len(Unread(s)) = Used(s)
        BY <1>0, UnreadType DEF WriteOK, Stream
      <3>2. Len(Unread(a)) = Used(a)
        BY <1>3, UnreadType DEF Live
      <3>3. Len(Unread(a)) = Len(Unread(s)) + Len(D) /\ a.pos = s.pos + Len(D) /\ D \in Seq(Item)
        BY <1>3 DEF PutIn, Extends
      <3>4. Len(D) \in Nat
        BY <3>3
      <3>5. Used(a) <= a.pos
        BY <3>1, <3>2, <3>3, <3>4
      <3> QED BY <1>6, <1>7, <3>5
    <2> QED BY <2>1, <2>2, <2>3 DEF WriteOK
  <1> QED BY <1>5, <1>6, <1>8, <1>12

\* What holds of an input stream between the steps of an event.
Input(s, tk, sn) == Live(s) /\ RefsOK(s) /\ ReadsWait(s) /\ WriteOK(s, tk, sn)

LEMMA KeepsSelf ==
  ASSUME NEW s, Live(s)
  PROVE  Keeps(s, s)
  <1>1. Used(s) \in Nat
    BY UnreadType DEF Live
  <1> QED BY <1>1 DEF Keeps, SameRefs

LEMMA KeepsKeeps ==
  ASSUME NEW r, NEW s, NEW t, Live(r), Live(s), Live(t), Keeps(r, s), Keeps(s, t)
  PROVE  Keeps(r, t)
  <1>1. PICK i \in Nat, j \in Nat, k \in Nat : i = Used(r) /\ j = Used(s) /\ k = Used(t)
    BY UnreadType DEF Live
  <1>2. i <= j /\ j <= k
    BY <1>1 DEF Keeps
  <1>3. \A n \in 1..i : Unread(t)[n] = Unread(r)[n]
    <2>1. \A n \in 1..i : n \in 1..j
      BY <1>2
    <2> QED BY <1>1, <2>1 DEF Keeps
  <1>4. i <= k
    BY <1>2
  <1> QED BY <1>1, <1>3, <1>4 DEF Keeps, SameRefs

LEMMA ConsIs ==
  ASSUME NEW S, NEW x \in S, NEW T \in Seq(S), NEW V, V = <<x>> \o T
  PROVE  V \in Seq(S) /\ Len(V) = Len(T) + 1 /\ V[1] = x /\ \A i \in 2..(Len(T) + 1) : V[i] = T[i - 1]
  <1>1. PICK z : z = <<x>>
    OBVIOUS
  <1>2. z \in Seq(S) /\ Len(z) = 1 /\ z[1] = x
    BY <1>1
  <1>3. V = z \o T /\ Len(T) \in Nat
    BY <1>1
  <1>4. V \in Seq(S) /\ Len(V) = 1 + Len(T)
    BY <1>2, <1>3, ConcatProperties
  <1>5. \A i \in 1..(1 + Len(T)) : V[i] = IF i <= 1 THEN z[i] ELSE T[i - 1]
    BY <1>2, <1>3, ConcatProperties
  <1>6. V[1] = x
    BY <1>2, <1>3, <1>5
  <1>7. \A i \in 2..(Len(T) + 1) : V[i] = T[i - 1]
    BY <1>3, <1>5
  <1> QED BY <1>3, <1>4, <1>6, <1>7

Rest(W, k, e) == <<[data |-> SubSeq(W[1].data, k + 1, Len(W[1].data)), eos |-> e]>> \o Tail(W)

LEMMA RestIs ==
  ASSUME NEW W \in Seq(Request), W # <<>>, NEW k \in Nat, k <= Len(W[1].data), NEW e \in BOOLEAN, NEW V,
         V = Rest(W, k, e)
  PROVE  V \in Seq(Request) /\ Shorter(V, W, k)
  <1>1. PICK x \in Seq(Item) : x = W[1].data
    <2>1. 1 \in 1..Len(W)
      OBVIOUS
    <2>2. W[1] \in Request
      BY <2>1
    <2> QED BY <2>2 DEF Request
  <1>2. PICK d \in Seq(Item) : d = SubSeq(x, k + 1, Len(x))
    <2>1. SubSeq(x, k + 1, Len(x)) \in Seq(Item)
      <3>1. Len(x) \in Nat
        OBVIOUS
      <3>2. \A i \in (k + 1)..Len(x) : i \in 1..Len(x)
        BY <3>1
      <3> QED BY <3>2, SubSeqProperties
    <2> QED BY <2>1
  <1>3. PICK r \in Request : r = [data |-> d, eos |-> e]
    BY DEF Request
  <1>4. r.data = d
    BY <1>3
  <1>a. PICK T : T = Tail(W)
    OBVIOUS
  <1>5. T \in Seq(Request) /\ Len(T) + 1 = Len(W) /\ \A i \in 1..Len(T) : T[i] = W[i + 1]
    BY <1>a
  <1>6. V = <<r>> \o T
    BY <1>1, <1>2, <1>3, <1>a DEF Rest
  <1>7. V \in Seq(Request) /\ Len(V) = Len(T) + 1 /\ V[1] = r /\ \A i \in 2..(Len(T) + 1) : V[i] = T[i - 1]
    BY <1>5, <1>6, ConsIs
  <1>8. \A i \in 2..Len(W) : V[i] = W[i]
    <2> SUFFICES ASSUME NEW i \in 2..Len(W) PROVE V[i] = W[i]
      OBVIOUS
    <2>1. Len(T) \in Nat /\ Len(W) = Len(T) + 1
      BY <1>5
    <2>2. i \in 2..(Len(T) + 1) /\ i - 1 \in 1..Len(T) /\ (i - 1) + 1 = i
      BY <2>1
    <2> QED BY <1>5, <1>7, <2>2
  <1> QED BY <1>1, <1>2, <1>4, <1>5, <1>7, <1>8 DEF Shorter

LEMMA ResumeIs ==
  ASSUME NEW s, access = "write", NEW tk \in [Channels -> Nat], NEW sn, Input(s, tk, sn), NEW c \in Channels
  PROVE  Input(ResumeWrite(s, c), tk, sn) /\ Keeps(s, ResumeWrite(s, c))
  <1>1. CASE s.cl[c].writes = <<>>
    <2>1. ResumeWrite(s, c) = s
      BY <1>1 DEF ResumeWrite
    <2> QED BY <2>1, KeepsSelf DEF Input
  <1>2. CASE s.cl[c].writes # <<>>
    <2>0. Live(s) /\ RefsOK(s) /\ ReadsWait(s) /\ WriteOK(s, tk, sn) /\ s \in Stream
      BY DEF Input, Live
    <2>1. PICK W \in Seq(Request) : W = s.cl[c].writes /\ W # <<>>
      <3>1. s.cl[c] \in Client
        BY <2>0 DEF Stream
      <3>2. s.cl[c].writes \in Seq(Request)
        BY <3>1 DEF Client
      <3> QED BY <1>2, <3>2
    <2>2. c \in ToSet(s.clients)
      <3>1. NoClient.writes = <<>>
        BY DEF NoClient
      <3> QED BY <1>2, <2>0, <3>1 DEF RefsOK
    <2>3. PICK r \in Request : r = W[1] /\ r = Head(W)
      <3>1. 1 \in 1..Len(W)
        BY <2>1
      <3> QED BY <2>1, <3>1
    <2>4. r.data \in Seq(Item) /\ r.eos \in BOOLEAN
      BY DEF Request
    <2>5. PICK a : a = AddData(s, r.data, r.eos)
      OBVIOUS
    <2>6. PICK D : PutIn(s, a, r.data, r.eos, D)
      <3>1. Unread(s) \in Seq(Item)
        BY <2>0 DEF WriteOK
      <3> QED BY <2>0, <2>4, <2>5, <3>1, AddWrite
    <2>7. PICK k \in Nat : k = a.pos - s.pos /\ k <= Len(r.data)
      <3>1. a.pos = s.pos + Len(D) /\ D \in Seq(Item) /\ Len(D) <= Len(r.data)
        BY <2>6 DEF PutIn, Starts
      <3>2. Len(D) \in Nat /\ s.pos \in Nat
        BY <2>0, <3>1 DEF Stream
      <3> QED BY <3>1, <3>2
    <2>8. PICK V : V = IF s.eos_inp THEN <<>>
                       ELSE IF k = Len(r.data) THEN Tail(W)
                       ELSE <<[r EXCEPT !.data = SubSeq(@, k + 1, Len(@))]>> \o Tail(W)
      OBVIOUS
    <2>9. ResumeWrite(s, c) = WithWrites(a, c, V)
      <3>1. PICK F : F = [x \in {a} |-> WithWrites(x, c, V)]
        OBVIOUS
      <3>2. ResumeWrite(s, c) =
              The({[x EXCEPT !.cl[c].writes =
                       IF s.eos_inp THEN <<>>
                       ELSE IF x.pos - s.pos = Len(r.data) THEN Tail(W)
                       ELSE <<[r EXCEPT !.data = SubSeq(@, x.pos - s.pos + 1, Len(@))]>> \o Tail(W)] :
                     x \in {a}})
        BY <1>2, <2>1, <2>3, <2>5 DEF ResumeWrite
      <3>3. {[x EXCEPT !.cl[c].writes =
                       IF s.eos_inp THEN <<>>
                       ELSE IF x.pos - s.pos = Len(r.data) THEN Tail(W)
                       ELSE <<[r EXCEPT !.data = SubSeq(@, x.pos - s.pos + 1, Len(@))]>> \o Tail(W)] :
                     x \in {a}} = {WithWrites(a, c, V)}
        BY <2>7, <2>8 DEF WithWrites
      <3> QED BY <3>2, <3>3, TheIs
    <2>10. V \in Seq(Request) /\ Going(s, a, c, W, V)
      <3>1. CASE s.eos_inp
        BY <2>8, <3>1 DEF Going
      <3>2. CASE ~s.eos_inp /\ k = Len(r.data)
        <4>1. V = Tail(W) /\ Tail(W) \in Seq(Request)
          BY <2>1, <2>8, <3>2
        <4> QED BY <2>3, <2>7, <3>2, <4>1 DEF Going
      <3>3. CASE ~s.eos_inp /\ k # Len(r.data)
        <4>1. V = <<[data |-> SubSeq(r.data, k + 1, Len(r.data)), eos |-> r.eos]>> \o Tail(W)
          <5>1. V = <<[r EXCEPT !.data = SubSeq(@, k + 1, Len(@))]>> \o Tail(W)
            BY <2>8, <3>3
          <5>2. [r EXCEPT !.data = SubSeq(@, k + 1, Len(@))]
                   = [data |-> SubSeq(r.data, k + 1, Len(r.data)), eos |-> r.eos]
            <6>1. PICK x : x = SubSeq(r.data, k + 1, Len(r.data))
              OBVIOUS
            <6>2. [r EXCEPT !.data = x] = [data |-> x, eos |-> r.eos]
              BY DEF Request
            <6> QED BY <6>1, <6>2
          <5> QED BY <5>1, <5>2
        <4>2. V \in Seq(Request) /\ Shorter(V, W, k)
          BY <2>1, <2>3, <2>4, <2>7, <4>1, RestIs DEF Rest
        <4> QED BY <2>3, <2>7, <3>3, <4>2 DEF Going
      <3> QED BY <3>1, <3>2, <3>3
    <2>11. WriterOK(Unread(s), W, s.eos_inp, c, tk[c], sn[c])
      BY <2>0, <2>1 DEF WriteOK
    <2>12. PICK t : t = WithWrites(a, c, V)
      OBVIOUS
    <2>13. Live(t) /\ RefsOK(t) /\ ReadsWait(t) /\ WriteOK(t, tk, sn) /\ Keeps(s, t)
      BY <2>0, <2>1, <2>2, <2>3, <2>5, <2>10, <2>11, <2>12, GoOn
    <2> QED BY <2>9, <2>12, <2>13 DEF Input
  <1> QED BY <1>1, <1>2

\* The owner takes the first n bytes P from the ring.
Dropped(s, n) == [s EXCEPT !.out = (@ + n) % BufLen]
IsDropped(s, t, n) == t = Dropped(s, n)

LEMMA DropIs ==
  ASSUME NEW s, access = "write", NEW tk \in [Channels -> Nat], NEW sn, \A c \in Channels : sn[c] \in Nat,
         Input(s, tk, sn), NEW n \in Nat, n <= Used(s), NEW P \in Seq(Item), Len(P) = n,
         Starts(P, Unread(s)), NEW t, IsDropped(s, t, n)
  PROVE  /\ Input(t, [c \in Channels |-> tk[c] + Bytes(P, c)[Len(P)]], sn) /\ SameRefs(s, t)
         /\ \A c \in Channels : Bytes(P, c)[Len(P)] \in Nat
  <1>0. /\ Live(s) /\ RefsOK(s) /\ ReadsWait(s) /\ WriteOK(s, tk, sn) /\ s \in Stream
        /\ s.inp \in 0..SBufSize /\ s.out \in 0..SBufSize /\ s.ref_cnt > 0 /\ NoDelete(s.queue)
        /\ Unread(s) \in Seq(Item) /\ s.cl \in [Channels -> Client]
    BY DEF Input, Live, Stream, WriteOK
  <1>1. PICK o : o = (s.out + n) % BufLen
    OBVIOUS
  <1>2. /\ t.inp = s.inp /\ t.buf = s.buf /\ t.out = o /\ SameRefs(s, t) /\ t.pos = s.pos
        /\ t.eos_inp = s.eos_inp /\ t.cl = s.cl /\ t.ref_cnt = s.ref_cnt /\ t.queue = s.queue
    BY <1>0, <1>1 DEF Stream, SameRefs, Dropped, IsDropped
  <1>3. /\ t.inp \in 0..SBufSize /\ t.out \in 0..SBufSize /\ Used(t) = Used(s) - n
        /\ \A i \in 1..Used(t) : Unread(t)[i] = Unread(s)[n + i]
    <2>1. /\ s.inp \in 0..SBufSize /\ s.out \in 0..SBufSize /\ n <= Used(s) /\ n \in Nat
          /\ t.inp = s.inp /\ t.buf = s.buf /\ t.out = (s.out + n) % BufLen
      BY <1>0, <1>1, <1>2
    <2> QED BY <2>1, RingDrop
  <1>4. t \in Stream
    <2>1. t = [s EXCEPT !.out = o] /\ o \in 0..SBufSize
      BY <1>1, <1>2, <1>3 DEF Dropped, IsDropped
    <2> QED BY <1>0, <2>1 DEF Stream
  <1>5. PICK u \in Nat, v \in Nat : /\ u = Used(s) /\ Len(Unread(s)) = u /\ v = Used(t) /\ Len(Unread(t)) = v
                                    /\ u = n + v
    <2>1. PICK u \in Nat, v \in Nat : /\ u = Used(s) /\ Len(Unread(s)) = u
                                      /\ v = Used(t) /\ Len(Unread(t)) = v
      BY <1>0, <1>4, UnreadType
    <2>2. v = u - n
      BY <1>3, <2>1
    <2>3. u = n + v
      BY <2>2
    <2> QED BY <2>1, <2>3
  <1>6. Unread(t) \in Seq(Item)
    <2>1. PICK x : x = Unread(t)
      OBVIOUS
    <2>2. \A i \in 1..v : n + i \in 1..u
      BY <1>5
    <2>a. \A i \in 1..u : Unread(s)[i] \in Item
      BY <1>0, <1>5
    <2>b. \A i \in 1..v : x[i] = Unread(s)[n + i]
      BY <1>3, <1>5, <2>1
    <2>3. \A i \in 1..v : x[i] \in Item
      BY <2>a, <2>b, <2>2
    <2>4. x \in Seq(Mark) /\ Len(x) = v
      BY <1>4, <1>5, <2>1, UnreadType
    <2>5. x \in [1..v -> Item]
      BY <2>3, <2>4
    <2> QED BY <2>1, <2>5, FunctionIsSeq
  <1>7. Extends(Unread(s), P, Unread(t))
    BY <1>3, <1>5 DEF Extends, Starts
  <1>8. ASSUME NEW c \in Channels
        PROVE  /\ Bytes(P, c)[Len(P)] \in Nat
               /\ WriterOK(Unread(t), t.cl[c].writes, t.eos_inp, c, tk[c] + Bytes(P, c)[Len(P)], sn[c])
    <2>1. PICK R, Q, W, e, a, b : /\ R = Unread(s) /\ Q = Unread(t) /\ W = s.cl[c].writes
                                  /\ e = s.eos_inp /\ a = tk[c] /\ b = sn[c]
      OBVIOUS
    <2>2. s.cl[c] \in Client
      BY <1>0
    <2>3. R \in Seq(Item) /\ Q \in Seq(Item) /\ W \in Seq(Request) /\ a \in Nat /\ b \in Nat /\ Extends(R, P, Q)
      BY <1>0, <1>6, <1>7, <2>1, <2>2 DEF Client
    <2>4. WriterOK(R, W, e, c, a, b)
      BY <1>0, <2>1 DEF WriteOK
    <2>5. Bytes(P, c)[Len(P)] \in Nat /\ WriterOK(Q, W, e, c, a + Bytes(P, c)[Len(P)], b)
      BY <2>3, <2>4, TakeFirst
    <2> QED BY <1>2, <2>1, <2>5
  <1>9. PICK tm : tm = [c \in Channels |-> tk[c] + Bytes(P, c)[Len(P)]]
    OBVIOUS
  <1>10. \A c \in Channels : tm[c] = tk[c] + Bytes(P, c)[Len(P)]
    BY <1>9
  <1>11. WriteOK(t, tm, sn)
    <2>1. Used(t) <= t.pos
      <3>1. Used(s) <= s.pos /\ s.pos \in Nat
        BY <1>0 DEF WriteOK, Stream
      <3> QED BY <1>2, <1>3, <1>5, <3>1
    <2> QED BY <1>6, <1>8, <1>10, <2>1 DEF WriteOK
  <1>12. RefsOK(t) /\ ReadsWait(t)
    BY <1>0, <1>2, KeptRefs
  <1>13. Input(t, tm, sn)
    BY <1>0, <1>2, <1>4, <1>11, <1>12 DEF Input, Live
  <1> QED BY <1>2, <1>8, <1>9, <1>13

LEMMA InputNotified ==
  ASSUME NEW s, NEW tk, NEW sn, Input(s, tk, sn), NEW t, Live(t), Notified(s, t)
  PROVE  Input(t, tk, sn) /\ SameRefs(s, t)
  <1>1. Used(t) = Used(s) /\ Unread(t) = Unread(s)
    BY RingSame DEF Notified
  <1>2. SameRefs(s, t) /\ t.cl = s.cl /\ t.pos = s.pos /\ t.eos_inp = s.eos_inp
    BY DEF Notified
  <1>3. RefsOK(t) /\ ReadsWait(t)
    BY <1>2, KeptRefs DEF Input
  <1>4. WriteOK(t, tk, sn)
    BY <1>1, <1>2 DEF Input, WriteOK
  <1> QED BY <1>2, <1>3, <1>4 DEF Input

\* The requests of the clients go on, one client after the other.
Resumes(s, cs, n, f) ==
    f = [i \in 0..n |-> IF i = 0 THEN s ELSE The({ResumeWrite(x, cs[i]) : x \in {f[i - 1]}})]

LEMMA ResumeAll ==
  ASSUME NEW s, access = "write", NEW tk \in [Channels -> Nat], NEW sn, Input(s, tk, sn),
         NEW cs \in Seq(Channels), NEW n \in Nat, n = Len(cs), NEW f,
         Resumes(s, cs, n, f)
  PROVE  Input(f[n], tk, sn) /\ Keeps(s, f[n])
  <1>0. f[0] = s /\ \A i \in 1..n : f[i] = The({ResumeWrite(x, cs[i]) : x \in {f[i - 1]}})
    <2>1. \A i \in 0..n : f[i] = IF i = 0 THEN s ELSE The({ResumeWrite(x, cs[i]) : x \in {f[i - 1]}})
      BY Zenon DEF Resumes
    <2>2. 0 \in 0..n /\ \A i \in 1..n : i \in 0..n /\ i # 0
      OBVIOUS
    <2> QED BY <2>1, <2>2
  <1>1. \A i \in 1..n : f[i] = ResumeWrite(f[i - 1], cs[i])
    <2> SUFFICES ASSUME NEW i \in 1..n PROVE f[i] = ResumeWrite(f[i - 1], cs[i])
      OBVIOUS
    <2>1. {ResumeWrite(x, cs[i]) : x \in {f[i - 1]}} = {ResumeWrite(f[i - 1], cs[i])}
      OBVIOUS
    <2> QED BY <1>0, <2>1, TheIs
  <1>2. PICK T : T = {i \in Nat : i <= n => Input(f[i], tk, sn) /\ Keeps(s, f[i])}
    OBVIOUS
  <1>3. 0 \in T
    <2>1. Keeps(s, s)
      BY KeepsSelf DEF Input
    <2> QED BY <1>0, <1>2, <2>1
  <1>4. ASSUME NEW i \in Nat, i \in T PROVE i + 1 \in T
    <2> SUFFICES ASSUME i + 1 <= n PROVE Input(f[i + 1], tk, sn) /\ Keeps(s, f[i + 1])
      BY <1>2
    <2>1. i + 1 \in 1..n /\ (i + 1) - 1 = i /\ cs[i + 1] \in Channels /\ i <= n
      OBVIOUS
    <2>a. PICK c \in Channels : c = cs[i + 1]
      BY <2>1
    <2>2. PICK x, y : x = f[i] /\ y = f[i + 1] /\ c = cs[i + 1]
      BY <2>a
    <2>3. y = ResumeWrite(x, c)
      BY <1>1, <2>1, <2>2
    <2>4. Input(x, tk, sn) /\ Keeps(s, x)
      BY <1>2, <1>4, <2>1, <2>2
    <2>5. Input(y, tk, sn) /\ Keeps(x, y)
      BY <2>3, <2>4, ResumeIs
    <2>6. Keeps(s, y)
      BY <2>4, <2>5, KeepsKeeps DEF Input
    <2> QED BY <2>2, <2>5, <2>6
  <1>5. Nat \subseteq T
    BY <1>3, <1>4, SetInduction
  <1>6. n \in T
    BY <1>5
  <1> QED BY <1>2, <1>6

LEMMA ResumeExists ==
  ASSUME NEW s, access = "write", NEW tk \in [Channels -> Nat], NEW sn, Input(s, tk, sn),
         NEW cs \in Seq(Channels), NEW n \in Nat, n = Len(cs)
  PROVE  \E h : Resumes(s, cs, n, h)
  <1>1. PICK S : S = {x \in Stream : Input(x, tk, sn)}
    OBVIOUS
  <1>2. s \in S
    BY <1>1 DEF Input, Live
  <1>3. PICK g : g = [i \in 1..n |-> [x \in S |-> ResumeWrite(x, cs[i])]]
    OBVIOUS
  <1>4. g \in [1..n -> [S -> S]]
    <2>1. ASSUME NEW i \in 1..n, NEW x \in S PROVE ResumeWrite(x, cs[i]) \in S
      <3>1. PICK c \in Channels : c = cs[i]
        OBVIOUS
      <3>2. Input(ResumeWrite(x, c), tk, sn)
        BY <1>1, ResumeIs
      <3> QED BY <1>1, <3>1, <3>2 DEF Input, Live
    <2> QED BY <1>3, <2>1
  <1>5. PICK h \in [0..n -> S] : IsRun(h, n, s, g)
    BY <1>2, <1>4, Iterates
  <1>6. \A i \in 0..n : h[i] = IF i = 0 THEN s ELSE The({ResumeWrite(x, cs[i]) : x \in {h[i - 1]}})
    <2> SUFFICES ASSUME NEW i \in 0..n
                 PROVE  h[i] = IF i = 0 THEN s ELSE The({ResumeWrite(x, cs[i]) : x \in {h[i - 1]}})
      OBVIOUS
    <2>1. CASE i = 0
      BY <1>5, <2>1 DEF IsRun
    <2>2. CASE i # 0
      <3>1. i \in 1..n /\ i - 1 \in 0..n
        BY <2>2
      <3>2. h[i] = g[i][h[i - 1]] /\ h[i - 1] \in S
        BY <1>5, <3>1 DEF IsRun
      <3>3. h[i] = ResumeWrite(h[i - 1], cs[i])
        BY <1>3, <3>1, <3>2
      <3>4. {ResumeWrite(x, cs[i]) : x \in {h[i - 1]}} = {ResumeWrite(h[i - 1], cs[i])}
        OBVIOUS
      <3> QED BY <2>2, <3>3, <3>4, TheIs
    <2> QED BY <2>1, <2>2
  <1>7. Resumes(s, cs, n, h)
    BY <1>6 DEF Resumes
  <1> QED BY <1>7

LEMMA GetDataIs ==
  ASSUME NEW s, access = "write", NEW tk \in [Channels -> Nat], NEW sn, \A c \in Channels : sn[c] \in Nat,
         Input(s, tk, sn), NEW size \in Nat
  PROVE  LET g == GetData(s, size) IN
         /\ g[1] \in Seq(Item) /\ g[2] \in BOOLEAN /\ SameRefs(s, g[3])
         /\ \A c \in Channels : Bytes(g[1], c)[Len(g[1])] \in Nat
         /\ Input(g[3], [c \in Channels |-> tk[c] + Bytes(g[1], c)[Len(g[1])]], sn)
  <1>0. /\ s \in Stream /\ Live(s) /\ s.clients \in Seq(Channels) /\ s.inp \in 0..SBufSize /\ s.out \in 0..SBufSize
        /\ s.eos_inp \in BOOLEAN /\ s.eos_out \in BOOLEAN /\ s.ref_cnt > 0 /\ NoDelete(s.queue)
        /\ Unread(s) \in Seq(Item)
    BY DEF Input, Live, Stream, WriteOK
  <1>1. PICK u \in Nat : u = Used(s) /\ Len(Unread(s)) = u
    BY <1>0, UnreadType
  <1>2. PICK n \in Nat : n = Min2(Used(s), size) /\ n <= u
    BY <1>1 DEF Min2
  <1>3. PICK eos \in BOOLEAN : eos = (Used(s) <= size /\ s.eos_inp)
    OBVIOUS
  <1>5. PICK P : P = [i \in 1..n |-> s.buf[(s.out + i - 1) % BufLen]]
    OBVIOUS
  <1>6. P \in Seq(Item) /\ Len(P) = n /\ \A i \in 1..n : Unread(s)[i] = P[i]
    <2>1. \A i \in 1..n : i \in 1..u
      BY <1>2
    <2>2. \A i \in 1..u : Unread(s)[i] \in Item
      BY <1>0, <1>1
    <2>3. \A i \in 1..u : Unread(s)[i] = s.buf[(s.out + i - 1) % BufLen]
      BY <1>1 DEF Unread
    <2>4. P \in [1..n -> Item]
      BY <1>5, <2>1, <2>2, <2>3
    <2>5. \A i \in 1..n : Unread(s)[i] = P[i]
      BY <1>5, <2>1, <2>3
    <2> QED BY <1>2, <2>4, <2>5, FunctionIsSeq
  <1>7. PICK s0 : s0 = [s EXCEPT !.eos_out = @ \/ (Used(s) <= size /\ s.eos_inp)]
    OBVIOUS
  <1>8. Live(s0) /\ SameRefs(s, s0) /\ SameRing(s, s0) /\ s0.cl = s.cl /\ s0.pos = s.pos /\ s0.eos_inp = s.eos_inp
    <2>1. /\ s0 \in Stream /\ s0.ref_cnt = s.ref_cnt /\ s0.queue = s.queue /\ SameRefs(s, s0) /\ SameRing(s, s0)
          /\ s0.cl = s.cl /\ s0.pos = s.pos /\ s0.eos_inp = s.eos_inp
      <3>1. PICK e \in BOOLEAN : e = (s.eos_out \/ (Used(s) <= size /\ s.eos_inp))
        OBVIOUS
      <3>2. s0 = [s EXCEPT !.eos_out = e]
        BY <1>7, <3>1
      <3> QED BY <1>0, <3>2 DEF Stream, SameRefs, SameRing
    <2> QED BY <1>0, <2>1 DEF Live
  <1>9. Used(s0) = Used(s) /\ Unread(s0) = Unread(s)
    BY <1>8, RingSame
  <1>10. Input(s0, tk, sn)
    <2>1. RefsOK(s0) /\ ReadsWait(s0)
      BY <1>8, KeptRefs DEF Input
    <2> QED BY <1>8, <1>9, <2>1 DEF Input, WriteOK
  <1>11. PICK m \in Nat : m = Len(s.clients)
    BY <1>0
  <1>12. PICK f : /\ Resumes(s0, s.clients, m, f)
                  /\ GetData(s, size) =
                       <<P, eos, The({IF n > 0 THEN Notify(Dropped(x, n), "space") ELSE x : x \in {f[m]}})>>
    <2>1. PICK h : Resumes(s0, s.clients, m, h)
      BY <1>0, <1>10, <1>11, ResumeExists
    <2>2. h = [i \in 0..Len(s.clients) |->
                 IF i = 0 THEN [s EXCEPT !.eos_out = @ \/ (Used(s) <= size /\ s.eos_inp)]
                 ELSE The({ResumeWrite(x, s.clients[i]) : x \in {h[i - 1]}})]
      BY Zenon, <1>7, <1>11, <2>1 DEF Resumes
    <2>3. PICK f : f = CHOOSE k : k = [i \in 0..Len(s.clients) |->
                 IF i = 0 THEN [s EXCEPT !.eos_out = @ \/ (Used(s) <= size /\ s.eos_inp)]
                 ELSE The({ResumeWrite(x, s.clients[i]) : x \in {k[i - 1]}})]
      OBVIOUS
    <2>4. f = [i \in 0..Len(s.clients) |->
                 IF i = 0 THEN [s EXCEPT !.eos_out = @ \/ (Used(s) <= size /\ s.eos_inp)]
                 ELSE The({ResumeWrite(x, s.clients[i]) : x \in {f[i - 1]}})]
      BY Zenon, <2>2, <2>3
    <2>5. Resumes(s0, s.clients, m, f)
      BY Zenon, <1>7, <1>11, <2>4 DEF Resumes
    <2>6. GetData(s, size) =
            <<[i \in 1..Min2(Used(s), size) |-> s.buf[(s.out + i - 1) % BufLen]],
              Used(s) <= size /\ s.eos_inp,
              The({IF Min2(Used(s), size) > 0
                     THEN Notify([x EXCEPT !.out = (@ + Min2(Used(s), size)) % BufLen], "space") ELSE x :
                     x \in {f[Len(s.clients)]}})>>
      BY <2>3 DEF GetData
    <2>7. GetData(s, size) =
            <<P, eos, The({IF n > 0 THEN Notify(Dropped(x, n), "space") ELSE x : x \in {f[m]}})>>
      BY <1>2, <1>3, <1>5, <1>11, <2>6 DEF Dropped
    <2> QED BY <2>5, <2>7
  <1>13. PICK x : x = f[m]
    OBVIOUS
  <1>14. Input(x, tk, sn) /\ Keeps(s0, x)
    BY <1>0, <1>10, <1>11, <1>12, <1>13, ResumeAll
  <1>15. PICK t : t = IF n > 0 THEN Notify(Dropped(x, n), "space") ELSE x
    OBVIOUS
  <1>16. GetData(s, size) = <<P, eos, t>>
    <2>1. {IF n > 0 THEN Notify(Dropped(y, n), "space") ELSE y : y \in {x}} = {t}
      BY <1>15
    <2> QED BY <1>12, <1>13, <2>1, TheIs
  <1>17. Starts(P, Unread(x)) /\ n <= Used(x)
    <2>1. PICK v \in Nat : v = Used(x) /\ Len(Unread(x)) = v
      BY <1>14, UnreadType DEF Input, Live
    <2>2. u <= v /\ \A i \in 1..u : Unread(x)[i] = Unread(s)[i]
      BY <1>1, <1>9, <1>14, <2>1 DEF Keeps
    <2>3. n <= v /\ \A i \in 1..n : i \in 1..u
      BY <1>2, <2>2
    <2>4. \A i \in 1..n : P[i] = Unread(x)[i]
      BY <1>6, <2>2, <2>3
    <2> QED BY <1>6, <2>1, <2>3, <2>4 DEF Starts
  <1>18. PICK y, tm : y = Dropped(x, n) /\ tm = [c \in Channels |-> tk[c] + Bytes(P, c)[Len(P)]]
    OBVIOUS
  <1>19. /\ Input(y, tm, sn) /\ SameRefs(x, y)
         /\ \A c \in Channels : Bytes(P, c)[Len(P)] \in Nat
    <2>1. IsDropped(x, y, n)
      BY <1>18 DEF IsDropped
    <2> QED BY ZenonT(30), <1>6, <1>14, <1>17, <1>18, <2>1, DropIs
  <1>20. Input(t, tm, sn) /\ SameRefs(s, t)
    <2>1. SameRefs(s, y) /\ SameRefs(s, x)
      BY <1>8, <1>14, <1>19 DEF SameRefs, Keeps
    <2>2. CASE n > 0
      <3>1. t = Notify(y, "space")
        BY <1>15, <1>18, <2>2
      <3>2. Live(t) /\ Notified(y, t)
        BY <1>19, <3>1, NotifyIs DEF Input
      <3>3. Input(t, tm, sn) /\ SameRefs(y, t)
        BY <1>19, <3>2, InputNotified
      <3> QED BY <2>1, <3>3 DEF SameRefs
    <2>3. CASE ~(n > 0)
      <3>1. t = x /\ n = 0 /\ P = <<>>
        BY <1>6, <1>15, <2>3
      <3>2. \A c \in Channels : tm[c] = tk[c]
        <4> SUFFICES ASSUME NEW c \in Channels PROVE tm[c] = tk[c]
          OBVIOUS
        <4>1. IsCount(Bytes(P, c), P, c)
          BY <1>6, BytesIs
        <4>2. Bytes(P, c)[Len(P)] = 0
          BY <1>6, <3>1, <4>1 DEF IsCount
        <4> QED BY <1>18, <4>2
      <3>3. Input(x, tm, sn)
        BY <1>14, <3>2 DEF Input, WriteOK
      <3> QED BY <2>1, <3>1, <3>3
    <2> QED BY <2>2, <2>3
  <1>21. PICK g : g = GetData(s, size)
    OBVIOUS
  <1>22. g[1] = P /\ g[2] = eos /\ g[3] = t
    BY <1>16, <1>21
  <1> QED BY <1>6, <1>18, <1>19, <1>20, <1>21, <1>22

-----------------------------------------------------------------------------
(* The inductive invariant. *)

Owner ==
    [buf : Seq(Mark), eos : BOOLEAN, eof : BOOLEAN, req_posted : BOOLEAN, delayed : BOOLEAN,
     exited : BOOLEAN, freed : BOOLEAN]

\* The stream and the bytes in it.
Sound(s, tk, sn) ==
    /\ s \in Stream /\ RefsOK(s) /\ ReadsWait(s)
    /\ access = "read" => ReadOK(s)
    /\ access = "write" => WriteOK(s, tk, sn)

\* The stream is deleted by the last event, which is posted with the last reference dropped.
EndsDelete(q) == q # <<>> /\ q[Len(q)] = "delete" /\ \A i \in 1..Len(q) : q[i] = "delete" => i = Len(q)

EventsOK(s, q) ==
    /\ s.ref_cnt > 0 => ~s.freed /\ NoDelete(q)
    /\ s.ref_cnt = 0 => (s.freed /\ q = <<>>) \/ (~s.freed /\ EndsDelete(q))

\* The output of the process that is not in the ring is in the buffer of its owner.
HoldsRest(s, o, total) ==
    /\ o.req_posted => o.buf = <<>>
    /\ \A i \in 1..Len(o.buf) : o.buf[i] = s.pos + i
    /\ total = s.pos + Len(o.buf)

OwnerOK(s, o, total) ==
    /\ o \in Owner /\ (o.freed <=> s.deleted) /\ ~(o.freed /\ o.req_posted)
    /\ access = "write" => (o.freed => o.exited)
    /\ access = "read" => HoldsRest(s, o, total)

StInv ==
    /\ access \in {"read", "write"}
    /\ events \in Seq(Event) /\ taken \in [Channels -> Nat]
    /\ sent \in [Channels \cup {"process"} -> Nat]
    /\ vs.queue = <<>> /\ Sound(vs, taken, sent)
    /\ EventsOK(vs, events) /\ OwnerOK(vs, owner, sent["process"])

\* After a step the stream is in use, or the event that deletes it is posted.
Left(s) == ~s.freed /\ \/ Live(s)
                       \/ s \in Stream /\ s.ref_cnt = 0 /\ EndsDelete(s.queue)

LEMMA Joined ==
  ASSUME NEW s, Left(s), NEW others \in Seq(Event), NoDelete(others)
  PROVE  others \o s.queue \in Seq(Event) /\ EventsOK(s, others \o s.queue)
  <1>1. PICK q \in Seq(Event), m \in Nat, n \in Nat : q = s.queue /\ m = Len(others) /\ n = Len(q)
    <2>1. s.queue \in Seq(Event)
      BY DEF Left, Live, Stream
    <2> QED BY <2>1
  <1>p. PICK x : x = others \o q
    OBVIOUS
  <1>2. x \in Seq(Event) /\ Len(x) = m + n /\ \A i \in 1..(m + n) : x[i] = IF i <= m THEN others[i] ELSE q[i - m]
    BY <1>1, <1>p, ConcatProperties
  <1>3. \A i \in 1..m : others[i] # "delete"
    BY <1>1 DEF NoDelete
  <1>4. CASE Live(s)
    <2>1. \A i \in 1..n : q[i] # "delete"
      BY <1>1, <1>4 DEF Live, NoDelete
    <2>2. NoDelete(x)
      <3> SUFFICES ASSUME NEW i \in 1..(m + n) PROVE x[i] # "delete"
        BY <1>2 DEF NoDelete
      <3>1. CASE i <= m
        <4>1. i \in 1..m
          BY <3>1
        <4> QED BY <1>2, <1>3, <3>1, <4>1
      <3>2. CASE ~(i <= m)
        <4>1. i - m \in 1..n
          BY <3>2
        <4> QED BY <1>2, <2>1, <3>2, <4>1
      <3> QED BY <3>1, <3>2
    <2>3. s.ref_cnt > 0 /\ s.ref_cnt # 0 /\ ~s.freed
      BY <1>4 DEF Left, Live, Stream
    <2> QED BY <1>1, <1>2, <1>p, <2>2, <2>3 DEF EventsOK
  <1>5. CASE s \in Stream /\ s.ref_cnt = 0 /\ EndsDelete(s.queue)
    <2>1. n > 0 /\ q[n] = "delete" /\ \A i \in 1..n : q[i] = "delete" => i = n
      BY <1>1, <1>5 DEF EndsDelete
    <2>2. x[m + n] = "delete" /\ x # <<>>
      <3>1. m + n \in 1..(m + n) /\ ~(m + n <= m) /\ (m + n) - m = n
        BY <2>1
      <3> QED BY <1>2, <2>1, <3>1
    <2>3. ASSUME NEW i \in 1..(m + n), x[i] = "delete" PROVE i = m + n
      <3>1. CASE i <= m
        <4>1. i \in 1..m
          BY <3>1
        <4> QED BY <1>2, <1>3, <2>3, <3>1, <4>1
      <3>2. CASE ~(i <= m)
        <4>1. i - m \in 1..n
          BY <3>2
        <4>2. i - m = n
          BY <1>2, <2>1, <2>3, <3>2, <4>1
        <4> QED BY <4>2
      <3> QED BY <3>1, <3>2
    <2>4. EndsDelete(x)
      BY <1>2, <2>2, <2>3 DEF EndsDelete
    <2>5. ~(s.ref_cnt > 0) /\ ~s.freed
      BY <1>5 DEF Left
    <2> QED BY <1>1, <1>2, <1>p, <2>4, <2>5 DEF EventsOK
  <1> QED BY <1>4, <1>5 DEF Left

LEMMA SetIs ==
  ASSUME NEW s, NEW others \in Seq(Event), SetStream(s, others), access \in {"read", "write"},
         access' = access, taken' \in [Channels -> Nat], sent' \in [Channels \cup {"process"} -> Nat],
         Sound(s, taken', sent'), others \o s.queue \in Seq(Event), EventsOK(s, others \o s.queue),
         OwnerOK(s, owner', sent'["process"])
  PROVE  StInv'
  <1>0. /\ s \in Stream /\ s.inp \in 0..SBufSize /\ s.out \in 0..SBufSize
        /\ s.buf \in [0..SBufSize -> Mark]
    BY DEF Sound, Stream
  <1>1. PICK b : b = [i \in 0..SBufSize |-> IF (i + BufLen - s.out) % BufLen < Used(s) THEN s.buf[i] ELSE 0]
    OBVIOUS
  <1>2. b \in [0..SBufSize -> Mark]
    <2>1. 0 \in Mark
      BY DEF Mark
    <2> QED BY <1>0, <1>1, <2>1
  <1>3. vs' = [s EXCEPT !.queue = <<>>, !.buf = b] /\ events' = others \o s.queue
    <2>1. DOMAIN s.buf = 0..SBufSize
      BY <1>0
    <2> QED BY <1>1, <2>1 DEF SetStream
  <1>p. PICK t : t = vs'
    OBVIOUS
  <1>4. /\ t \in Stream /\ t.queue = <<>> /\ t.buf = b /\ SameRefs(s, t)
        /\ t.inp = s.inp /\ t.out = s.out /\ t.pos = s.pos /\ t.eos_inp = s.eos_inp /\ t.cl = s.cl
    <2>0. <<>> \in Seq(Event)
      OBVIOUS
    <2>1. PICK q \in Seq(Event) : q = <<>>
      BY Zenon, <2>0
    <2>2. t = [s EXCEPT !.queue = q, !.buf = b]
      BY <1>3, <1>p, <2>1
    <2> QED BY <1>0, <1>2, <2>1, <2>2 DEF Stream, SameRefs
  <1>5. Used(t) = Used(s) /\ Unread(t) = Unread(s)
    BY <1>0, <1>1, <1>4, RingKept
  <1>6. RefsOK(t) /\ ReadsWait(t)
    BY <1>4, KeptRefs DEF Sound
  <1>7. Sound(t, taken', sent')
    <2>1. access = "read" => ReadOK(t)
      BY <1>4, <1>5 DEF Sound, ReadOK, RingRead, SameRefs
    <2>2. access = "write" => WriteOK(t, taken', sent')
      BY <1>4, <1>5 DEF Sound, WriteOK
    <2> QED BY <1>4, <1>6, <2>1, <2>2 DEF Sound
  <1>8. EventsOK(t, events')
    BY <1>3, <1>4 DEF EventsOK, SameRefs
  <1>9. OwnerOK(t, owner', sent'["process"])
    BY <1>4 DEF OwnerOK, HoldsRest, SameRefs
  <1>10. Sound(vs, taken, sent)'
    BY <1>7, <1>p DEF Sound, ReadsWait, RefsOK, ReadOK, RingRead, WriteOK
  <1>11. OwnerOK(vs, owner, sent["process"])'
    BY <1>9, <1>p DEF OwnerOK, HoldsRest
  <1> QED BY <1>3, <1>4, <1>8, <1>10, <1>11, <1>p DEF StInv, EventsOK

-----------------------------------------------------------------------------
(* References and the owner. *)

\* What dropping a reference leaves alone.
Released(s, t) ==
    /\ SameRing(s, t) /\ t.pos = s.pos /\ t.eos_inp = s.eos_inp /\ t.eos_out = s.eos_out
    /\ t.clients = s.clients /\ t.cl = s.cl /\ t.deleted = s.deleted
    /\ s.ref_cnt = t.ref_cnt + 1

LEMMA ReleaseIs ==
  ASSUME NEW s, Live(s), ~s.freed
  PROVE  Left(Release(s)) /\ Released(s, Release(s)) /\ (Release(s).ref_cnt > 0 => Live(Release(s)))
  <1>0. s \in Stream /\ s.queue \in Seq(Event) /\ NoDelete(s.queue) /\ s.ref_cnt \in Nat /\ s.ref_cnt > 0
    BY DEF Live, Stream
  <1>p. PICK r : r = Release(s)
    OBVIOUS
  <1>1. CASE s.ref_cnt > 1
    <2>1. PICK n \in Nat : n = s.ref_cnt - 1 /\ n > 0 /\ s.ref_cnt = n + 1
      BY <1>0, <1>1
    <2>2. r = [s EXCEPT !.ref_cnt = n]
      BY <1>p, <1>1, <2>1 DEF Release
    <2>3. r \in Stream /\ r.ref_cnt = n /\ r.queue = s.queue /\ r.freed = s.freed /\ Released(s, r)
      BY <1>0, <2>1, <2>2 DEF Stream, Released, SameRing
    <2> QED BY <1>0, <1>p, <2>1, <2>3 DEF Left, Live
  <1>2. CASE ~(s.ref_cnt > 1)
    <2>0. s.ref_cnt = 0 + 1
      BY <1>0, <1>2
    <2>1. PICK q, m : q = Append(s.queue, "delete") /\ m = Len(s.queue)
      OBVIOUS
    <2>2. "delete" \in Event
      BY DEF Event
    <2>3. /\ q \in Seq(Event) /\ Len(q) = m + 1 /\ m \in Nat /\ q[m + 1] = "delete"
          /\ \A i \in 1..m : q[i] = s.queue[i]
      BY <1>0, <2>1, <2>2
    <2>4. EndsDelete(q)
      <3>1. \A i \in 1..m : q[i] # "delete"
        BY <1>0, <2>1, <2>3 DEF NoDelete
      <3>2. \A i \in 1..(m + 1) : i = m + 1 \/ i \in 1..m
        BY <2>3
      <3>3. q # <<>>
        BY <2>3
      <3> QED BY <2>3, <3>1, <3>2, <3>3 DEF EndsDelete
    <2>5. r = [s EXCEPT !.ref_cnt = 0, !.queue = q]
      BY <1>p, <1>2, <2>1 DEF Release
    <2>6. r \in Stream /\ r.ref_cnt = 0 /\ r.queue = q /\ r.freed = s.freed /\ Released(s, r)
      BY <1>0, <2>0, <2>3, <2>5 DEF Stream, Released, SameRing
    <2> QED BY <1>p, <2>4, <2>6 DEF Left
  <1> QED BY <1>1, <1>2

\* virtual_stream_delete() by the owner.
LEMMA DeleteIs ==
  ASSUME NEW s, Live(s), ~s.freed, ~s.deleted, NEW tk, NEW sn, Sound(s, tk, sn)
  PROVE  LET r == Delete(s) IN Left(r) /\ Sound(r, tk, sn) /\ r.deleted = TRUE /\ r.pos = s.pos
  <1>0. s \in Stream /\ NoDelete(s.queue) /\ s.ref_cnt \in Nat /\ s.ref_cnt > 0 /\ s.clients \in Seq(Channels)
    BY DEF Live, Stream
  <1>1. PICK x : x = [s EXCEPT !.deleted = TRUE]
    OBVIOUS
  <1>2. /\ x \in Stream /\ x.deleted = TRUE /\ SameRing(s, x) /\ x.pos = s.pos /\ x.eos_inp = s.eos_inp
        /\ x.clients = s.clients /\ x.cl = s.cl /\ x.ref_cnt = s.ref_cnt /\ x.queue = s.queue
        /\ x.freed = s.freed
    BY <1>0, <1>1 DEF Stream, SameRing
  <1>3. Live(x) /\ ~x.freed
    BY <1>0, <1>2 DEF Live
  <1>p. PICK r : r = Release(x)
    OBVIOUS
  <1>4. Left(r) /\ Released(x, r)
    BY <1>3, <1>p, ReleaseIs
  <1>5. /\ SameRing(s, r) /\ r.pos = s.pos /\ r.eos_inp = s.eos_inp /\ r.clients = s.clients
        /\ r.cl = s.cl /\ r.deleted = TRUE /\ s.ref_cnt = r.ref_cnt + 1
    BY <1>2, <1>4 DEF Released, SameRing
  <1>6. r \in Stream
    BY <1>4 DEF Left, Live
  <1>7. RefsOK(r)
    <2>1. s.ref_cnt = Len(s.clients) + 1
      BY DEF Sound, RefsOK
    <2>2. r.ref_cnt \in Nat /\ Len(s.clients) \in Nat
      BY <1>0, <1>6 DEF Stream
    <2>3. r.ref_cnt = Len(r.clients) + 0
      BY <1>5, <2>1, <2>2
    <2> QED BY <1>5, <2>3 DEF Sound, RefsOK
  <1>8. ReadsWait(r)
    BY <1>5 DEF Sound, ReadsWait
  <1>9. Used(r) = Used(s) /\ Unread(r) = Unread(s)
    BY <1>5, RingSame
  <1>10. access = "read" => ReadOK(r)
    BY <1>5, <1>9 DEF Sound, ReadOK, RingRead
  <1>11. access = "write" => WriteOK(r, tk, sn)
    BY <1>5, <1>9 DEF Sound, WriteOK
  <1>12. Delete(s) = r
    BY <1>1, <1>p DEF Delete
  <1> QED BY <1>4, <1>5, <1>6, <1>7, <1>8, <1>10, <1>11, <1>12 DEF Sound

\* A stream with its owner is in use.
LEMMA InUse ==
  ASSUME NEW s, NEW q, EventsOK(s, q), NEW tk, NEW sn, Sound(s, tk, sn), NoDelete(s.queue),
         s.ref_cnt > 0 \/ ~s.deleted
  PROVE  Live(s) /\ ~s.freed /\ NoDelete(q) /\ s.ref_cnt > 0
  <1>1. s \in Stream /\ s.ref_cnt \in Nat /\ Len(s.clients) \in Nat
    BY DEF Sound, Stream
  <1>2. ~s.deleted => s.ref_cnt = Len(s.clients) + 1
    BY DEF Sound, RefsOK
  <1>3. s.ref_cnt > 0
    BY <1>1, <1>2
  <1> QED BY <1>1, <1>3 DEF EventsOK, Live

\* process_output_streams_callback()
LEMMA OutputIs ==
  ASSUME access = "read", NEW s, NEW tk, NEW sn, Sound(s, tk, sn), Live(s), ~s.freed, ~s.deleted,
         NEW o, NEW total, OwnerOK(s, o, total)
  PROVE  LET r == OutputCallback(s, o) IN
         Left(r[1]) /\ Sound(r[1], tk, sn) /\ OwnerOK(r[1], r[2], total)
  <1>0. /\ s \in Stream /\ RefsOK(s) /\ ReadsWait(s) /\ ReadOK(s) /\ o \in Owner /\ HoldsRest(s, o, total)
        /\ o.freed = FALSE
    BY DEF Sound, OwnerOK, Owner
  <1>p. PICK r : r = OutputCallback(s, o)
    OBVIOUS
  <1>1. CASE o.req_posted
    <2>1. r = <<s, o>>
      BY <1>p, <1>1 DEF OutputCallback
    <2> QED BY <1>p, <2>1 DEF Left
  <1>2. CASE ~o.req_posted
    <2>1. PICK d \in Seq(Mark), e \in BOOLEAN : d = o.buf /\ e = o.eof
      <3>1. o.buf \in Seq(Mark) /\ o.eof \in BOOLEAN
        BY <1>0 DEF Owner
      <3> QED BY <3>1
    <2>2. PICK q \in Nat, m \in Nat : q = s.pos /\ m = Len(d)
      BY <1>0 DEF Stream
    <2>3. (\A i \in 1..m : d[i] = q + i) /\ total = q + m
      BY <1>0, <2>1, <2>2 DEF HoldsRest
    <2>4. PICK a : a = IF d # <<>> \/ o.eos # e THEN AddData(s, d, e) ELSE s
      OBVIOUS
    <2>5. /\ Live(a) /\ ReadOK(a) /\ RefsOK(a) /\ ReadsWait(a) /\ SameRefs(s, a)
          /\ \E n \in Nat : n <= m /\ a.pos = q + n
      <3>1. CASE d # <<>> \/ o.eos # e
        <4>1. a = AddData(s, d, e)
          BY <2>4, <3>1
        <4>2. access = "read" /\ Live(s) /\ ReadOK(s) /\ RefsOK(s) /\ ReadsWait(s)
              /\ \A i \in 1..Len(d) : d[i] = s.pos + i
          BY <1>0, <2>2, <2>3
        <4>3. /\ Live(a) /\ ReadOK(a) /\ RefsOK(a) /\ ReadsWait(a) /\ SameRefs(s, a)
              /\ \E n \in Nat : n <= Len(d) /\ a.pos = s.pos + n
          BY <4>1, <4>2, AddRead
        <4> QED BY <2>2, <4>3
      <3>2. CASE ~(d # <<>> \/ o.eos # e)
        <4>1. a = s
          BY <2>4, <3>2
        <4>2. 0 <= m /\ q = q + 0
          BY <2>2
        <4> QED BY <1>0, <2>2, <4>1, <4>2 DEF SameRefs
      <3> QED BY <3>1, <3>2
    <2>6. PICK n \in Nat : n <= m /\ a.pos = q + n
      BY <2>5
    <2>7. PICK b : b = SubSeq(d, n + 1, m)
      OBVIOUS
    <2>8. b \in Seq(Mark) /\ Len(b) = m - n /\ \A i \in 1..Len(b) : b[i] = a.pos + i
      <3>1. \A i \in (n + 1)..m : d[i] \in Mark
        <4>1. \A i \in (n + 1)..m : i \in 1..m
          OBVIOUS
        <4> QED BY <2>2, <4>1
      <3>2. b \in Seq(Mark) /\ Len(b) = m - n
        BY <2>2, <2>6, <2>7, <3>1, SubSeqProperties
      <3>3. ASSUME NEW i \in 1..(m - n) PROVE b[i] = (q + n) + i
        <4>1. b[i] = d[n + 1 + i - 1]
          BY SMTT(20), <2>2, <2>6, <2>7, <3>1, <3>3, SubSeqProperties
        <4>2. n + 1 + i - 1 = n + i /\ n + i \in 1..m /\ q + (n + i) = (q + n) + i
          BY <2>6
        <4> QED BY <2>3, <4>1, <4>2
      <3> QED BY <2>6, <3>2, <3>3
    <2>9. total = a.pos + Len(b)
      BY <2>3, <2>6, <2>8
    <2>10. PICK x \in BOOLEAN : x = (o.eos \/ (b = <<>> /\ e))
      OBVIOUS
    <2>11. PICK p : p = [o EXCEPT !.buf = b, !.eos = x]
      OBVIOUS
    <2>12. /\ p \in Owner /\ p.buf = b /\ p.eof = e /\ p.freed = FALSE /\ p.req_posted = FALSE
      BY <1>0, <1>2, <2>1, <2>8, <2>10, <2>11 DEF Owner
    <2>13. r = IF b # <<>> THEN <<a, p>>
               ELSE IF ~e THEN <<a, [p EXCEPT !.req_posted = TRUE, !.delayed = TRUE]>>
               ELSE IF Used(a) = 0 THEN <<Delete(a), [p EXCEPT !.freed = TRUE]>>
               ELSE <<a, p>>
      <3>1. a.pos - s.pos + 1 = n + 1 /\ Len(o.buf) = m
        BY <2>1, <2>2, <2>6
      <3>2. a = The({IF o.buf # <<>> \/ o.eos # o.eof THEN AddData(s, o.buf, o.eof) ELSE s})
        <4>1. The({a}) = a
          BY TheIs
        <4>2. a = IF o.buf # <<>> \/ o.eos # o.eof THEN AddData(s, o.buf, o.eof) ELSE s
          BY <2>1, <2>4
        <4> QED BY Zenon, <4>1, <4>2
      <3>3. b = SubSeq(o.buf, a.pos - s.pos + 1, Len(o.buf))
        BY <2>1, <2>7, <3>1
      <3>4. p = [o EXCEPT !.buf = b, !.eos = @ \/ (b = <<>> /\ o.eof)]
        BY <2>1, <2>10, <2>11
      <3> QED BY <1>p, <1>2, <2>1, <3>2, <3>3, <3>4 DEF OutputCallback
    <2>14. Sound(a, tk, sn) /\ Left(a) /\ ~a.deleted /\ ~a.freed
      BY <2>5 DEF Sound, Left, Live, SameRefs
    <2>15. CASE r = <<a, p>>
      <3>1. OwnerOK(a, p, total)
        BY <2>8, <2>9, <2>12, <2>14 DEF OwnerOK, HoldsRest
      <3> QED BY <1>p, <2>14, <2>15, <3>1
    <2>16. CASE b = <<>> /\ ~e
      <3>1. PICK z : z = [p EXCEPT !.req_posted = TRUE, !.delayed = TRUE]
        OBVIOUS
      <3>2. r = <<a, z>>
        BY <2>13, <2>16, <3>1
      <3>3. z \in Owner /\ z.buf = b /\ z.freed = FALSE
        BY <2>12, <3>1 DEF Owner
      <3>4. OwnerOK(a, z, total)
        BY <2>8, <2>9, <2>14, <2>16, <3>3 DEF OwnerOK, HoldsRest
      <3> QED BY <1>p, <2>14, <3>2, <3>4
    <2>17. CASE b = <<>> /\ e /\ Used(a) = 0
      <3>1. PICK z, y : z = [p EXCEPT !.freed = TRUE] /\ y = Delete(a)
        OBVIOUS
      <3>2. r = <<y, z>>
        BY <2>13, <2>17, <3>1
      <3>3. z \in Owner /\ z.buf = b /\ z.freed = TRUE /\ z.req_posted = FALSE
        BY <2>12, <3>1 DEF Owner
      <3>4. Left(y) /\ Sound(y, tk, sn) /\ y.deleted = TRUE /\ y.pos = a.pos
        BY <2>5, <2>14, <3>1, DeleteIs
      <3>5. OwnerOK(y, z, total)
        BY <2>8, <2>9, <3>3, <3>4 DEF OwnerOK, HoldsRest
      <3> QED BY <1>p, <3>2, <3>4, <3>5
    <2> QED BY <2>13, <2>15, <2>16, <2>17
  <1> QED BY <1>1, <1>2

\* process_input_streams_callback()
Took(s, o, r) == IF o.buf = <<>> /\ ~o.req_posted THEN r[2].buf ELSE <<>>

LEMMA InputIs ==
  ASSUME access = "write", NEW s, NEW tk \in [Channels -> Nat], NEW sn, \A c \in Channels : sn[c] \in Nat,
         Sound(s, tk, sn), Live(s), ~s.freed, ~s.deleted, NEW o, NEW total, OwnerOK(s, o, total),
         NEW P, P = Took(s, o, InputCallback(s, o))
  PROVE  LET r == InputCallback(s, o) IN
         /\ Left(r[1]) /\ OwnerOK(r[1], r[2], total)
         /\ \A c \in Channels : Bytes(P, c)[Len(P)] \in Nat
         /\ Sound(r[1], [c \in Channels |-> tk[c] + Bytes(P, c)[Len(P)]], sn)
  <1>0. /\ s \in Stream /\ Input(s, tk, sn) /\ o \in Owner /\ o.freed = FALSE
    BY DEF Sound, OwnerOK, Owner, Input
  <1>p. PICK r : r = InputCallback(s, o)
    OBVIOUS
  <1>1. CASE o.buf = <<>> /\ ~o.req_posted /\ ~o.eos
    <2>1. PBufSize \in Nat
      BY StreamsAssumption
    <2>2. PICK g : g = GetData(s, PBufSize)
      OBVIOUS
    <2>3. /\ g[1] \in Seq(Item) /\ g[2] \in BOOLEAN /\ SameRefs(s, g[3])
          /\ \A c \in Channels : Bytes(g[1], c)[Len(g[1])] \in Nat
          /\ Input(g[3], [c \in Channels |-> tk[c] + Bytes(g[1], c)[Len(g[1])]], sn)
      BY <1>0, <2>1, <2>2, GetDataIs
    <2>4. PICK e \in BOOLEAN : e = (g[1] # <<>>)
      OBVIOUS
    <2>5. PICK d, x, t : d = g[1] /\ x = g[2] /\ t = g[3]
      OBVIOUS
    <2>6. PICK p : p = [o EXCEPT !.buf = d, !.eos = x, !.req_posted = e]
      OBVIOUS
    <2>7. r = <<t, p>>
      <3>1. PICK v : v = <<t, p>>
        OBVIOUS
      <3>2. {<<h[3], [o EXCEPT !.buf = h[1], !.eos = h[2], !.req_posted = (h[1] # <<>>)]>> : h \in {g}} = {v}
        BY <2>4, <2>5, <2>6, <3>1
      <3>3. r = The({<<h[3], [o EXCEPT !.buf = h[1], !.eos = h[2], !.req_posted = (h[1] # <<>>)]>> :
                        h \in {g}})
        BY <1>p, <1>1, <2>2 DEF InputCallback
      <3> QED BY <3>1, <3>2, <3>3, TheIs
    <2>8. p \in Owner /\ p.buf = d /\ p.freed = FALSE
      <3>1. d \in Seq(Mark) /\ x \in BOOLEAN
        BY <2>3, <2>5 DEF Mark
      <3> QED BY <1>0, <2>6, <3>1 DEF Owner
    <2>9. P = d
      <3>1. r[2] = p
        BY <2>7
      <3> QED BY <1>p, <1>1, <2>8, <3>1 DEF Took
    <2>10. Left(t) /\ OwnerOK(t, p, total)
      BY <2>3, <2>5, <2>8 DEF Left, Input, SameRefs, OwnerOK
    <2>11. PICK tm : tm = [c \in Channels |-> tk[c] + Bytes(P, c)[Len(P)]]
      OBVIOUS
    <2>12. Sound(t, tm, sn)
      BY <2>3, <2>5, <2>9, <2>11 DEF Sound, Input, Live
    <2>13. \A c \in Channels : Bytes(P, c)[Len(P)] \in Nat
      BY <2>3, <2>5, <2>9
    <2>14. r[1] = t /\ r[2] = p
      BY <2>7
    <2>15. Sound(t, [c \in Channels |-> tk[c] + Bytes(P, c)[Len(P)]], sn)
      BY <2>11, <2>12
    <2> QED BY <1>p, <2>10, <2>13, <2>14, <2>15
  <1>2. CASE ~(o.buf = <<>> /\ ~o.req_posted /\ ~o.eos)
    <2>1. PICK p : p \in Owner /\ p.freed = FALSE /\ p.buf = o.buf /\ r = <<s, p>>
      <3>1. CASE o.req_posted
        <4>1. r = <<s, o>>
          BY <1>p, <3>1 DEF InputCallback
        <4> QED BY <1>0, <4>1
      <3>2. CASE ~o.req_posted
        <4>1. PICK e \in BOOLEAN : e = (o.buf # <<>>)
          OBVIOUS
        <4>2. PICK p : p = [o EXCEPT !.req_posted = e]
          OBVIOUS
        <4>3. r = <<s, p>>
          BY <1>p, <1>2, <3>2, <4>1, <4>2 DEF InputCallback
        <4>4. p \in Owner /\ p.freed = FALSE /\ p.buf = o.buf
          BY <1>0, <4>2 DEF Owner
        <4> QED BY <4>3, <4>4
      <3> QED BY <3>1, <3>2
    <2>2. P = <<>>
      <3>1. r[2] = p
        BY <2>1
      <3> QED BY <1>p, <2>1, <3>1 DEF Took
    <2>3. Left(s) /\ OwnerOK(s, p, total)
      BY <1>0, <2>1 DEF Left, OwnerOK
    <2>4. \A c \in Channels : Bytes(P, c)[Len(P)] = 0
      <3>1. Len(<<>>) = 0 /\ 0 \in 0..0
        OBVIOUS
      <3>2. \A c : Bytes(<<>>, c)[0] = 0
        BY EmptyCounts, <3>1 DEF IsCount
      <3> QED BY <2>2, <3>1, <3>2
    <2>5. PICK tm : tm = [c \in Channels |-> tk[c] + Bytes(P, c)[Len(P)]]
      OBVIOUS
    <2>6. \A c \in Channels : tm[c] = tk[c]
      BY <2>4, <2>5
    <2>7. Sound(s, tm, sn)
      BY <2>6 DEF Sound, WriteOK
    <2>8. r[1] = s /\ r[2] = p
      BY <2>1
    <2>9. Sound(s, [c \in Channels |-> tk[c] + Bytes(P, c)[Len(P)]], sn)
      BY <2>5, <2>7
    <2>10. \A c \in Channels : Bytes(P, c)[Len(P)] \in Nat
      BY <2>4
    <2> QED BY <1>p, <2>3, <2>8, <2>9, <2>10
  <1> QED BY <1>1, <1>2

\* A callback of the owner.
LEMMA CalledIs ==
  ASSUME NEW s, NEW o, NEW others \in Seq(Event), Called(s, o, others), access \in {"read", "write"},
         access' = access, taken \in [Channels -> Nat], sent' \in [Channels \cup {"process"} -> Nat],
         Sound(s, taken, sent'), Live(s), ~s.freed, ~s.deleted, NoDelete(others),
         OwnerOK(s, o, sent'["process"])
  PROVE  StInv'
  <1>1. PICK r : /\ r = Callback(s, o) /\ SetStream(r[1], others) /\ owner' = r[2]
                 /\ taken' = [c \in Channels |-> taken[c] +
                                IF access = "write" /\ o.buf = <<>> /\ ~o.req_posted
                                  THEN Bytes(r[2].buf, c)[Len(r[2].buf)] ELSE 0]
    BY DEF Called
  <1>2. CASE access = "read"
    <2>1. r = OutputCallback(s, o)
      BY <1>1, <1>2 DEF Callback
    <2>2. Left(r[1]) /\ Sound(r[1], taken, sent') /\ OwnerOK(r[1], r[2], sent'["process"])
      BY <1>2, <2>1, OutputIs
    <2>3. taken' = taken
      <3>1. \A c \in Channels : taken'[c] = taken[c]
        BY <1>1, <1>2
      <3>2. taken' = [c \in Channels |-> taken'[c]] /\ taken = [c \in Channels |-> taken[c]]
        BY <1>1
      <3> QED BY <3>1, <3>2
    <2>4. others \o r[1].queue \in Seq(Event) /\ EventsOK(r[1], others \o r[1].queue)
      BY <2>2, Joined
    <2>5. Sound(r[1], taken', sent') /\ OwnerOK(r[1], owner', sent'["process"]) /\ taken' \in [Channels -> Nat]
      BY <1>1, <2>2, <2>3
    <2> QED BY <1>1, <2>4, <2>5, SetIs
  <1>3. CASE access = "write"
    <2>1. r = InputCallback(s, o)
      BY <1>1, <1>3 DEF Callback
    <2>2. PICK P : P = Took(s, o, r)
      OBVIOUS
    <2>3. \A c \in Channels : sent'[c] \in Nat
      OBVIOUS
    <2>4. /\ Left(r[1]) /\ OwnerOK(r[1], r[2], sent'["process"])
          /\ \A c \in Channels : Bytes(P, c)[Len(P)] \in Nat
          /\ Sound(r[1], [c \in Channels |-> taken[c] + Bytes(P, c)[Len(P)]], sent')
      BY <1>3, <2>1, <2>2, <2>3, InputIs
    <2>5. taken' = [c \in Channels |-> taken[c] + Bytes(P, c)[Len(P)]]
      <3>1. CASE o.buf = <<>> /\ ~o.req_posted
        <4>1. P = r[2].buf
          BY <2>2, <3>1 DEF Took
        <4> QED BY <1>1, <1>3, <3>1, <4>1
      <3>2. CASE ~(o.buf = <<>> /\ ~o.req_posted)
        <4>1. P = <<>>
          BY <2>2, <3>2 DEF Took
        <4>2. \A c : Bytes(P, c)[Len(P)] = 0
          <5>1. Len(<<>>) = 0 /\ 0 \in 0..0
            OBVIOUS
          <5>2. \A c : Bytes(<<>>, c)[0] = 0
            BY EmptyCounts, <5>1 DEF IsCount
          <5> QED BY <4>1, <5>1, <5>2
        <4>3. taken' = [c \in Channels |-> taken[c] + 0]
          BY <1>1, <3>2
        <4> QED BY <4>2, <4>3
      <3> QED BY <3>1, <3>2
    <2>6. taken' \in [Channels -> Nat]
      BY <2>4, <2>5
    <2>7. others \o r[1].queue \in Seq(Event) /\ EventsOK(r[1], others \o r[1].queue)
      BY <2>4, Joined
    <2>8. Sound(r[1], taken', sent') /\ OwnerOK(r[1], owner', sent'["process"])
      BY <1>1, <2>4, <2>5
    <2> QED BY <1>1, <2>6, <2>7, <2>8, SetIs
  <1> QED BY <1>2, <1>3

-----------------------------------------------------------------------------
(* The steps of the dispatch loop and of the process. *)

LEMMA SoundSame ==
  ASSUME NEW s, NEW t, NEW tk, NEW sn, Sound(s, tk, sn), t \in Stream, SameRing(s, t), t.pos = s.pos,
         t.eos_inp = s.eos_inp, t.clients = s.clients, t.cl = s.cl, t.ref_cnt = s.ref_cnt,
         t.deleted = s.deleted
  PROVE  Sound(t, tk, sn)
  <1>1. Used(t) = Used(s) /\ Unread(t) = Unread(s)
    BY RingSame
  <1>2. RefsOK(t) /\ ReadsWait(t)
    BY DEF Sound, RefsOK, ReadsWait
  <1>3. access = "read" => ReadOK(t)
    BY <1>1 DEF Sound, ReadOK, RingRead
  <1>4. access = "write" => WriteOK(t, tk, sn)
    BY <1>1 DEF Sound, WriteOK
  <1> QED BY <1>2, <1>3, <1>4 DEF Sound

LEMMA FirstDone ==
  ASSUME NEW s \in Stream, NEW q \in Seq(Event), q # <<>>, EventsOK(s, q)
  PROVE  /\ Tail(q) \in Seq(Event)
         /\ Head(q) # "delete" => EventsOK(s, Tail(q))
         /\ Head(q) = "delete" => s.ref_cnt = 0 /\ ~s.freed /\ Tail(q) = <<>>
  <1>p. PICK x, n : x = Tail(q) /\ n = Len(q)
    OBVIOUS
  <1>1. /\ n \in Nat /\ n > 0 /\ x \in Seq(Event) /\ Len(x) = n - 1 /\ \A i \in 1..(n - 1) : x[i] = q[i + 1]
        /\ Head(q) = q[1] /\ 1 \in 1..n
    BY <1>p
  <1>2. s.ref_cnt \in Nat
    BY DEF Stream
  <1>3. CASE s.ref_cnt > 0
    <2>1. ~s.freed /\ \A i \in 1..n : q[i] # "delete"
      BY <1>p, <1>3 DEF EventsOK, NoDelete
    <2>2. \A i \in 1..(n - 1) : i + 1 \in 1..n
      BY <1>1
    <2>3. \A i \in 1..(n - 1) : x[i] # "delete"
      BY <1>1, <2>1, <2>2
    <2>4. s.ref_cnt # 0
      BY <1>3
    <2> QED BY <1>p, <1>1, <2>1, <2>3, <2>4 DEF EventsOK, NoDelete
  <1>4. CASE s.ref_cnt = 0
    <2>1. ~s.freed /\ q[n] = "delete" /\ \A i \in 1..n : q[i] = "delete" => i = n
      BY <1>p, <1>4 DEF EventsOK, EndsDelete
    <2>2. ~(s.ref_cnt > 0)
      BY <1>4
    <2>3. CASE q[1] = "delete"
      <3>1. n = 1
        BY <1>1, <2>1, <2>3
      <3>2. Len(x) = 0
        BY <1>1, <3>1
      <3>3. x = <<>>
        BY <1>1, <3>2
      <3> QED BY <1>p, <1>1, <1>4, <2>1, <2>3, <3>3
    <2>4. CASE q[1] # "delete"
      <3>1. n # 1
        BY <2>1, <2>4
      <3>2. n - 1 \in 1..(n - 1) /\ (n - 1) + 1 = n /\ x # <<>>
        BY <1>1, <3>1
      <3>3. x[n - 1] = "delete"
        BY <1>1, <2>1, <3>2
      <3>4. ASSUME NEW i \in 1..(n - 1), x[i] = "delete" PROVE i = n - 1
        <4>1. i + 1 \in 1..n /\ q[i + 1] = "delete"
          BY <1>1, <3>4
        <4>2. i + 1 = n
          BY <2>1, <4>1
        <4> QED BY <1>1, <4>2
      <3>5. EndsDelete(x)
        BY <1>1, <3>2, <3>3, <3>4 DEF EndsDelete
      <3> QED BY <1>p, <1>1, <2>1, <2>2, <2>4, <3>5 DEF EventsOK
    <2> QED BY <2>3, <2>4
  <1> QED BY <1>2, <1>3, <1>4

\* Nothing is posted.
LEMMA QuietIs ==
  ASSUME NEW s, NEW others \in Seq(Event), SetStream(s, others), access \in {"read", "write"},
         access' = access, taken' \in [Channels -> Nat], sent' \in [Channels \cup {"process"} -> Nat],
         Sound(s, taken', sent'), s.queue = <<>>, EventsOK(s, others),
         OwnerOK(s, owner', sent'["process"])
  PROVE  StInv'
  <1>1. others \o s.queue = others
    OBVIOUS
  <1>2. others \o s.queue \in Seq(Event) /\ EventsOK(s, others \o s.queue)
    BY <1>1
  <1> QED BY <1>2, SetIs

\* Events are posted to those of a stream in use.
LEMMA PostedIs ==
  ASSUME NEW s, SetStream(s, events), StInv, NoDelete(events),
         access' = access, taken' \in [Channels -> Nat], sent' \in [Channels \cup {"process"} -> Nat],
         Sound(s, taken', sent'), Left(s), OwnerOK(s, owner', sent'["process"])
  PROVE  StInv'
  <1>1. events \in Seq(Event) /\ access \in {"read", "write"}
    BY DEF StInv
  <1>2. events \o s.queue \in Seq(Event) /\ EventsOK(s, events \o s.queue)
    BY <1>1, Joined
  <1> QED BY <1>1, <1>2, SetIs

LEMMA StreamEventStep ==
  ASSUME StInv, StreamEvent
  PROVE  StInv'
  <1>0. /\ events \in Seq(Event) /\ events # <<>> /\ access \in {"read", "write"} /\ vs \in Stream
        /\ access' = access /\ sent' = sent /\ vs.queue = <<>> /\ EventsOK(vs, events)
        /\ Sound(vs, taken, sent) /\ OwnerOK(vs, owner, sent["process"])
        /\ taken \in [Channels -> Nat] /\ sent \in [Channels \cup {"process"} -> Nat]
    BY DEF StInv, Sound, StreamEvent
  <1>1. PICK e, T : e = Head(events) /\ T = Tail(events)
    OBVIOUS
  <1>2. /\ T \in Seq(Event) /\ (e # "delete" => EventsOK(vs, T))
        /\ (e = "delete" => vs.ref_cnt = 0 /\ ~vs.freed /\ T = <<>>)
    BY <1>0, <1>1, FirstDone
  <1>3. PICK s : s = [vs EXCEPT !.posted = @ \ {e}]
    OBVIOUS
  <1>4. \/ e = "delete" /\ SetStream([vs EXCEPT !.freed = TRUE], T) /\ owner' = owner /\ taken' = taken
        \/ e # "delete" /\ SetStream(s, T) /\ owner' = owner /\ taken' = taken
        \/ e # "delete" /\ ~vs.deleted /\ Called(s, owner, T)
    BY <1>1, <1>3 DEF StreamEvent
  <1>5. CASE e = "delete" /\ SetStream([vs EXCEPT !.freed = TRUE], T) /\ owner' = owner /\ taken' = taken
    <2>1. PICK t : t = [vs EXCEPT !.freed = TRUE]
      OBVIOUS
    <2>2. /\ t \in Stream /\ SameRing(vs, t) /\ t.pos = vs.pos /\ t.eos_inp = vs.eos_inp
          /\ t.clients = vs.clients /\ t.cl = vs.cl /\ t.ref_cnt = vs.ref_cnt /\ t.deleted = vs.deleted
          /\ t.freed = TRUE /\ t.queue = <<>>
      BY <1>0, <2>1 DEF Stream, SameRing
    <2>3. Sound(t, taken', sent')
      BY <1>0, <1>5, <2>2, SoundSame
    <2>4. EventsOK(t, T)
      BY <1>2, <1>5, <2>2 DEF EventsOK
    <2>5. OwnerOK(t, owner', sent'["process"])
      BY <1>0, <1>5, <2>2 DEF OwnerOK, HoldsRest
    <2> QED BY <1>0, <1>2, <1>5, <2>1, <2>2, <2>3, <2>4, <2>5, QuietIs
  <1>6. ASSUME e # "delete"
        PROVE  /\ Sound(s, taken, sent) /\ EventsOK(s, T) /\ OwnerOK(s, owner, sent["process"])
               /\ s.queue = <<>> /\ s.deleted = vs.deleted
    <2>1. PICK p \in SUBSET Event : p = vs.posted \ {e}
      BY <1>0 DEF Stream
    <2>2. s = [vs EXCEPT !.posted = p]
      BY <1>3, <2>1
    <2>3. /\ s \in Stream /\ SameRing(vs, s) /\ s.pos = vs.pos /\ s.eos_inp = vs.eos_inp
          /\ s.clients = vs.clients /\ s.cl = vs.cl /\ s.ref_cnt = vs.ref_cnt /\ s.deleted = vs.deleted
          /\ s.freed = vs.freed /\ s.queue = <<>>
      BY <1>0, <2>2 DEF Stream, SameRing
    <2>4. Sound(s, taken, sent)
      BY <1>0, <2>3, SoundSame
    <2>5. EventsOK(s, T)
      BY <1>2, <1>6, <2>3 DEF EventsOK
    <2>6. OwnerOK(s, owner, sent["process"])
      BY <1>0, <2>3 DEF OwnerOK, HoldsRest
    <2> QED BY <2>3, <2>4, <2>5, <2>6
  <1>7. CASE e # "delete" /\ SetStream(s, T) /\ owner' = owner /\ taken' = taken
    BY <1>0, <1>2, <1>6, <1>7, QuietIs
  <1>8. CASE e # "delete" /\ ~vs.deleted /\ Called(s, owner, T)
    <2>1. NoDelete(<<>>)
      BY DEF NoDelete
    <2>2. Live(s) /\ ~s.freed /\ NoDelete(T)
      BY <1>6, <1>8, <2>1, InUse
    <2>3. Sound(s, taken, sent') /\ OwnerOK(s, owner, sent'["process"]) /\ ~s.deleted
      BY <1>0, <1>6, <1>8
    <2> QED BY <1>0, <1>2, <1>8, <2>2, <2>3, CalledIs
  <1> QED BY <1>4, <1>5, <1>7, <1>8

\* A stream whose owner has an operation pending is in use.
LEMMA OwnedIs ==
  ASSUME StInv, owner.req_posted \/ ~owner.freed
  PROVE  /\ Live(vs) /\ ~vs.freed /\ NoDelete(events) /\ ~vs.deleted
         /\ Sound(vs, taken, sent) /\ OwnerOK(vs, owner, sent["process"])
         /\ access \in {"read", "write"} /\ events \in Seq(Event) /\ taken \in [Channels -> Nat]
         /\ sent \in [Channels \cup {"process"} -> Nat]
  <1>1. /\ access \in {"read", "write"} /\ events \in Seq(Event) /\ taken \in [Channels -> Nat]
        /\ sent \in [Channels \cup {"process"} -> Nat] /\ EventsOK(vs, events) /\ vs.queue = <<>>
        /\ Sound(vs, taken, sent) /\ OwnerOK(vs, owner, sent["process"])
    BY DEF StInv
  <1>2. ~vs.deleted
    BY <1>1 DEF OwnerOK
  <1>3. NoDelete(vs.queue)
    BY <1>1 DEF NoDelete
  <1>4. Live(vs) /\ ~vs.freed /\ NoDelete(events)
    BY <1>1, <1>2, <1>3, InUse
  <1> QED BY <1>1, <1>2, <1>4

LEMMA ReadOutputDoneStep ==
  ASSUME StInv, ReadOutputDone
  PROVE  StInv'
  <1>0. access = "read" /\ owner.req_posted /\ access' = access
    BY DEF ReadOutputDone
  <1>1. /\ Live(vs) /\ ~vs.freed /\ NoDelete(events) /\ ~vs.deleted
        /\ Sound(vs, taken, sent) /\ OwnerOK(vs, owner, sent["process"])
        /\ access \in {"read", "write"} /\ events \in Seq(Event) /\ taken \in [Channels -> Nat]
        /\ sent \in [Channels \cup {"process"} -> Nat]
    BY <1>0, OwnedIs
  <1>2. PICK x \in Nat : x = sent["process"]
    BY <1>1
  <1>p. PBufSize \in Nat /\ MaxBytes["process"] \in Nat
    BY StreamsAssumption
  <1>3. PICK n \in 0..Min2(PBufSize, MaxBytes["process"] - x) :
           /\ sent' = [sent EXCEPT !["process"] = @ + n]
           /\ Called(vs, [owner EXCEPT !.req_posted = FALSE, !.eof = (n = 0),
                                       !.buf = [i \in 1..n |-> x + i]], events)
    BY <1>2 DEF ReadOutputDone
  <1>4. n \in Nat
    <2>1. MaxBytes["process"] - x \in Int
      BY <1>p, <1>2
    <2> QED BY <1>p, <2>1 DEF Min2
  <1>5. sent' \in [Channels \cup {"process"} -> Nat] /\ sent'["process"] = x + n
    BY <1>1, <1>2, <1>3, <1>4
  <1>6. PICK d : d = [i \in 1..n |-> x + i]
    OBVIOUS
  <1>7. d \in Seq(Mark) /\ Len(d) = n /\ \A i \in 1..n : d[i] = x + i
    <2>1. \A i \in 1..n : x + i \in Mark
      BY <1>2 DEF Mark
    <2>2. d \in [1..n -> Mark]
      BY <1>6, <2>1
    <2>3. d \in Seq(Mark)
      BY <1>4, <2>2, FunctionIsSeq
    <2>4. Len(d) = n
      BY <1>4, <1>6
    <2>5. \A i \in 1..n : d[i] = x + i
      BY <1>6
    <2> QED BY <2>3, <2>4, <2>5
  <1>8. PICK e \in BOOLEAN : e = (n = 0)
    OBVIOUS
  <1>9. PICK o : o = [owner EXCEPT !.req_posted = FALSE, !.eof = e, !.buf = d]
    OBVIOUS
  <1>10. Called(vs, o, events)
    BY <1>3, <1>6, <1>8, <1>9
  <1>11. o \in Owner /\ o.buf = d /\ o.req_posted = FALSE /\ o.freed = owner.freed
    BY <1>1, <1>7, <1>8, <1>9 DEF OwnerOK, Owner
  <1>12. vs.pos = x
    <2>1. owner.buf = <<>> /\ x = vs.pos + Len(owner.buf)
      BY <1>0, <1>1, <1>2 DEF OwnerOK, HoldsRest
    <2>2. vs.pos \in Nat
      BY <1>1 DEF Live, Stream
    <2> QED BY <2>1, <2>2
  <1>13. OwnerOK(vs, o, sent'["process"])
    BY <1>0, <1>1, <1>5, <1>7, <1>11, <1>12 DEF OwnerOK, HoldsRest
  <1>14. Sound(vs, taken, sent')
    BY <1>0, <1>1 DEF Sound
  <1> QED BY <1>0, <1>1, <1>5, <1>10, <1>13, <1>14, CalledIs

LEMMA PostOutReadReqStep ==
  ASSUME StInv, PostOutReadReq
  PROVE  StInv'
  <1>1. /\ access' = access /\ vs' = vs /\ events' = events /\ sent' = sent /\ taken' = taken
        /\ owner' = [owner EXCEPT !.delayed = FALSE]
    BY DEF PostOutReadReq
  <1>2. PICK o : o = owner'
    OBVIOUS
  <1>3. OwnerOK(vs, owner, sent["process"])
    BY DEF StInv
  <1>4. owner \in Owner
    BY <1>3 DEF OwnerOK
  <1>5. /\ o \in Owner /\ o.buf = owner.buf /\ o.freed = owner.freed /\ o.req_posted = owner.req_posted
        /\ o.exited = owner.exited
    BY <1>1, <1>2, <1>4 DEF Owner
  <1>6. OwnerOK(vs, o, sent["process"])
    BY <1>3, <1>5 DEF OwnerOK, HoldsRest
  <1>7. OwnerOK(vs, owner, sent["process"])'
    BY <1>1, <1>2, <1>6 DEF OwnerOK, HoldsRest
  <1>8. Sound(vs, taken, sent)'
    BY <1>1 DEF StInv, Sound, ReadsWait, RefsOK, ReadOK, RingRead, WriteOK, Used, Unread
  <1> QED BY <1>1, <1>7, <1>8 DEF StInv, EventsOK

LEMMA WriteInputDoneStep ==
  ASSUME StInv, WriteInputDone
  PROVE  StInv'
  <1>0. access = "write" /\ owner.req_posted /\ access' = access /\ sent' = sent
    BY DEF WriteInputDone
  <1>1. /\ Live(vs) /\ ~vs.freed /\ NoDelete(events) /\ ~vs.deleted
        /\ Sound(vs, taken, sent) /\ OwnerOK(vs, owner, sent["process"])
        /\ access \in {"read", "write"} /\ events \in Seq(Event) /\ taken \in [Channels -> Nat]
        /\ sent \in [Channels \cup {"process"} -> Nat]
    BY <1>0, OwnedIs
  <1>2. owner \in Owner
    BY <1>1 DEF OwnerOK
  <1>3. CASE owner.exited
    <2>1. /\ owner' = [owner EXCEPT !.req_posted = FALSE, !.freed = TRUE]
          /\ SetStream(Delete(vs), events) /\ taken' = taken
      BY <1>3 DEF WriteInputDone
    <2>2. PICK t : t = Delete(vs)
      OBVIOUS
    <2>3. Left(t) /\ Sound(t, taken, sent) /\ t.deleted = TRUE
      BY <1>1, <2>2, DeleteIs
    <2>4. PICK o : o = owner'
      OBVIOUS
    <2>5. o \in Owner /\ o.freed = TRUE /\ o.req_posted = FALSE /\ o.exited = owner.exited
      BY <1>2, <2>1, <2>4 DEF Owner
    <2>6. OwnerOK(t, o, sent["process"])
      BY <1>0, <1>3, <2>3, <2>5 DEF OwnerOK
    <2>7. /\ Sound(t, taken', sent') /\ OwnerOK(t, owner', sent'["process"])
          /\ taken' \in [Channels -> Nat] /\ sent' \in [Channels \cup {"process"} -> Nat]
      BY <1>0, <1>1, <2>1, <2>3, <2>4, <2>6
    <2> QED BY <1>0, <1>1, <2>1, <2>2, <2>3, <2>7, PostedIs
  <1>4. CASE ~owner.exited
    <2>1. PICK n \in 1..Len(owner.buf) :
            \E left \in {SubSeq(owner.buf, n + 1, Len(owner.buf)), <<>>} :
              Called(vs, [owner EXCEPT !.req_posted = FALSE, !.buf = left], events)
      BY <1>4 DEF WriteInputDone
    <2>2. PICK d \in Seq(Mark) : Called(vs, [owner EXCEPT !.req_posted = FALSE, !.buf = d], events)
      <3>1. PICK left \in {SubSeq(owner.buf, n + 1, Len(owner.buf)), <<>>} :
              Called(vs, [owner EXCEPT !.req_posted = FALSE, !.buf = left], events)
        BY <2>1
      <3>2. <<>> \in Seq(Mark)
        OBVIOUS
      <3>3. PICK b \in Seq(Mark), m \in Nat : b = owner.buf /\ m = Len(b)
        <4>1. owner.buf \in Seq(Mark)
          BY <1>2 DEF Owner
        <4> QED BY <4>1
      <3>4. SubSeq(b, n + 1, m) \in Seq(Mark)
        <4>1. n \in Nat /\ \A i \in (n + 1)..m : i \in 1..m
          BY <3>3
        <4>2. \A i \in (n + 1)..m : b[i] \in Mark
          BY <3>3, <4>1
        <4>3. n + 1 \in Int /\ m \in Int /\ n + 1 >= 1
          BY <3>3, <4>1
        <4> QED BY <3>3, <4>1, <4>2, <4>3, SubSeqProperties
      <3>5. left \in Seq(Mark)
        BY Zenon, <3>2, <3>3, <3>4
      <3> QED BY <3>1, <3>5
    <2>3. PICK o : o = [owner EXCEPT !.req_posted = FALSE, !.buf = d]
      OBVIOUS
    <2>4. o \in Owner /\ o.freed = owner.freed /\ o.req_posted = FALSE /\ o.exited = owner.exited
      BY <1>2, <2>3 DEF Owner
    <2>5. OwnerOK(vs, o, sent["process"])
      BY <1>0, <1>1, <2>4 DEF OwnerOK
    <2>6. /\ Called(vs, o, events) /\ Sound(vs, taken, sent') /\ OwnerOK(vs, o, sent'["process"])
          /\ sent' \in [Channels \cup {"process"} -> Nat]
      BY <1>0, <1>1, <2>2, <2>3, <2>5
    <2> QED BY <1>0, <1>1, <2>6, CalledIs
  <1> QED BY <1>3, <1>4

LEMMA ProcessExitedStep ==
  ASSUME StInv, ProcessExited
  PROVE  StInv'
  <1>0. access = "write" /\ ~owner.exited /\ access' = access /\ sent' = sent /\ taken' = taken
    BY DEF ProcessExited
  <1>1. ~owner.freed
    BY <1>0 DEF StInv, OwnerOK
  <1>2. /\ Live(vs) /\ ~vs.freed /\ NoDelete(events) /\ ~vs.deleted
        /\ Sound(vs, taken, sent) /\ OwnerOK(vs, owner, sent["process"])
        /\ access \in {"read", "write"} /\ events \in Seq(Event) /\ taken \in [Channels -> Nat]
        /\ sent \in [Channels \cup {"process"} -> Nat]
    BY <1>1, OwnedIs
  <1>3. owner \in Owner
    BY <1>2 DEF OwnerOK
  <1>p. PICK o : o = owner'
    OBVIOUS
  <1>4. CASE owner.req_posted
    <2>1. owner' = [owner EXCEPT !.exited = TRUE] /\ vs' = vs /\ events' = events
      BY <1>4 DEF ProcessExited
    <2>2. o \in Owner /\ o.freed = owner.freed /\ o.req_posted = owner.req_posted /\ o.exited = TRUE
      BY <1>3, <1>p, <2>1 DEF Owner
    <2>3. OwnerOK(vs, o, sent["process"])
      BY <1>0, <1>2, <2>2 DEF OwnerOK
    <2>4. OwnerOK(vs, owner, sent["process"])'
      BY <1>0, <1>p, <2>1, <2>3 DEF OwnerOK, HoldsRest
    <2>5. Sound(vs, taken, sent)'
      BY <1>0, <2>1 DEF StInv, Sound, ReadsWait, RefsOK, ReadOK, RingRead, WriteOK, Used, Unread
    <2> QED BY <1>0, <2>1, <2>4, <2>5 DEF StInv, EventsOK
  <1>5. CASE ~owner.req_posted
    <2>1. owner' = [owner EXCEPT !.exited = TRUE, !.freed = TRUE] /\ SetStream(Delete(vs), events)
      BY <1>5 DEF ProcessExited
    <2>2. PICK t : t = Delete(vs)
      OBVIOUS
    <2>3. Left(t) /\ Sound(t, taken, sent) /\ t.deleted = TRUE
      BY <1>2, <2>2, DeleteIs
    <2>5. o \in Owner /\ o.freed = TRUE /\ o.req_posted = owner.req_posted /\ o.exited = TRUE
      BY <1>3, <1>p, <2>1 DEF Owner
    <2>6. OwnerOK(t, o, sent["process"])
      BY <1>0, <1>5, <2>3, <2>5 DEF OwnerOK
    <2>7. /\ Sound(t, taken', sent') /\ OwnerOK(t, owner', sent'["process"])
          /\ taken' \in [Channels -> Nat] /\ sent' \in [Channels \cup {"process"} -> Nat]
      BY <1>0, <1>2, <1>p, <2>3, <2>6
    <2> QED BY <1>0, <1>2, <2>1, <2>2, <2>3, <2>7, PostedIs
  <1> QED BY <1>4, <1>5

-----------------------------------------------------------------------------
(* Clients connect and disconnect. *)

Distinct(q) == \A i, j \in 1..Len(q) : q[i] = q[j] => i = j

LEMMA RemoveOne ==
  ASSUME NEW S, NEW q \in Seq(S), Distinct(q), NEW e, e \in ToSet(q)
  PROVE  LET r == RemoveFirst(q, e) IN
         r \in Seq(S) /\ Distinct(r) /\ Len(q) = Len(r) + 1 /\ ToSet(r) = ToSet(q) \ {e}
  <1>1. PICK m \in Nat : m = Len(q)
    OBVIOUS
  <1>2. DOMAIN q = 1..m /\ \A i \in 1..m : q[i] \in S
    BY <1>1
  <1>3. PICK k \in 1..m : q[k] = e
    BY <1>2 DEF ToSet
  <1>4. {i \in 1..m : q[i] = e} = {k}
    BY <1>1, <1>3 DEF Distinct
  <1>5. Min({k}) = k
    BY <1>3 DEF Min
  <1>6. SelectInSeq(q, LAMBDA v : v = e) = k
    BY <1>1, <1>4, <1>5 DEF SelectInSeq
  <1>7. RemoveFirst(q, e) = RemoveAt(q, k)
    BY <1>1, <1>3, <1>6 DEF RemoveFirst
  <1>8. PICK a, b : a = SubSeq(q, 1, k - 1) /\ b = SubSeq(q, k + 1, m)
    OBVIOUS
  <1>9. /\ a \in Seq(S) /\ Len(a) = k - 1 /\ \A i \in 1..(k - 1) : a[i] = q[i]
        /\ b \in Seq(S) /\ Len(b) = m - k /\ \A i \in 1..(m - k) : b[i] = q[k + i]
    <2>1. \A i \in 1..(k - 1) : q[i] \in S
      BY <1>2, <1>3
    <2>2. a \in Seq(S) /\ Len(a) = k - 1 /\ \A i \in 1..(k - 1) : a[i] = q[i]
      BY <1>1, <1>3, <1>8, <2>1, SubSeqProperties
    <2>3. \A i \in (k + 1)..m : q[i] \in S
      BY <1>2, <1>3
    <2>4. b \in Seq(S) /\ Len(b) = m - k
      BY <1>1, <1>3, <1>8, <2>3, SubSeqProperties
    <2>5. \A i \in 1..(m - k) : b[i] = q[k + i]
      BY <1>1, <1>3, <1>8, <2>3, <2>4, SubSeqProperties
    <2> QED BY <2>2, <2>4, <2>5
  <1>p. PICK r : r = a \o b
    OBVIOUS
  <1>10. r \in Seq(S) /\ Len(r) = m - 1 /\ \A i \in 1..(m - 1) : r[i] = IF i < k THEN q[i] ELSE q[i + 1]
    <2>a. PICK x \in Nat, y \in Nat : x = k - 1 /\ y = m - k /\ x + y = m - 1
      <3>1. k - 1 \in Nat /\ m - k \in Nat /\ (k - 1) + (m - k) = m - 1
        BY <1>3
      <3> QED BY <3>1
    <2>b. a \in Seq(S) /\ b \in Seq(S) /\ Len(a) = x /\ Len(b) = y
      BY <1>9, <2>a
    <2>c. /\ r \in Seq(S) /\ Len(r) = x + y
          /\ \A i \in 1..(x + y) : r[i] = IF i <= x THEN a[i] ELSE b[i - x]
      BY <1>p, <2>b, ConcatProperties
    <2>1. r \in Seq(S) /\ Len(r) = m - 1
      BY <2>a, <2>c
    <2>2. \A i \in 1..(m - 1) : r[i] = IF i <= k - 1 THEN a[i] ELSE b[i - (k - 1)]
      BY <2>a, <2>c
    <2>3. ASSUME NEW i \in 1..(m - 1) PROVE r[i] = IF i < k THEN q[i] ELSE q[i + 1]
      <3>1. CASE i < k
        <4>1. i \in 1..(k - 1)
          BY <3>1
        <4> QED BY <1>9, <2>2, <3>1, <4>1
      <3>2. CASE ~(i < k)
        <4>1. i - (k - 1) \in 1..(m - k) /\ k + (i - (k - 1)) = i + 1 /\ ~(i <= k - 1)
          BY <3>2
        <4> QED BY <1>9, <2>2, <3>2, <4>1
      <3> QED BY <3>1, <3>2
    <2> QED BY <2>1, <2>3
  <1>11. Distinct(r)
    <2> SUFFICES ASSUME NEW i \in 1..(m - 1), NEW j \in 1..(m - 1), r[i] = r[j] PROVE i = j
      BY <1>10 DEF Distinct
    <2>1. PICK x \in 1..m, y \in 1..m : /\ x = (IF i < k THEN i ELSE i + 1) /\ r[i] = q[x]
                                        /\ y = (IF j < k THEN j ELSE j + 1) /\ r[j] = q[y]
      <3>1. /\ (IF i < k THEN i ELSE i + 1) \in 1..m /\ (IF j < k THEN j ELSE j + 1) \in 1..m
        BY <1>3
      <3> QED BY <1>10, <3>1
    <2>2. x = y
      BY <1>1, <2>1 DEF Distinct
    <2> QED BY <2>1, <2>2
  <1>12. ToSet(r) = ToSet(q) \ {e}
    <2>0. DOMAIN r = 1..(m - 1)
      BY <1>10
    <2>1. ASSUME NEW i \in 1..(m - 1) PROVE r[i] \in ToSet(q) \ {e}
      <3>1. PICK x \in 1..m : x = (IF i < k THEN i ELSE i + 1) /\ r[i] = q[x] /\ x # k
        <4>1. (IF i < k THEN i ELSE i + 1) \in 1..m /\ (IF i < k THEN i ELSE i + 1) # k
          BY <1>3
        <4> QED BY <1>10, <4>1
      <3>2. q[x] # e
        BY <1>1, <1>3, <3>1 DEF Distinct
      <3> QED BY <1>2, <3>1, <3>2 DEF ToSet
    <2>2. ASSUME NEW x \in 1..m, q[x] # e PROVE q[x] \in ToSet(r)
      <3>1. PICK i \in 1..(m - 1) : r[i] = q[x]
        <4>1. CASE x < k
          <5>1. x \in 1..(m - 1) /\ r[x] = q[x]
            BY <1>10, <4>1
          <5> QED BY <5>1
        <4>2. CASE x > k
          <5>1. x - 1 \in 1..(m - 1) /\ ~(x - 1 < k) /\ (x - 1) + 1 = x
            BY <4>2
          <5>2. r[x - 1] = q[x]
            BY <1>10, <5>1
          <5> QED BY <5>1, <5>2
        <4>3. x # k
          BY <1>3, <2>2
        <4> QED BY <4>1, <4>2, <4>3
      <3> QED BY <2>0, <3>1 DEF ToSet
    <2>3. ToSet(r) \subseteq ToSet(q) \ {e}
      BY <2>0, <2>1 DEF ToSet
    <2>4. ToSet(q) \ {e} \subseteq ToSet(r)
      BY <1>2, <2>2 DEF ToSet
    <2> QED BY <2>3, <2>4
  <1>13. r = RemoveFirst(q, e)
    BY <1>1, <1>7, <1>8, <1>p DEF RemoveAt
  <1>14. m = (m - 1) + 1
    BY <1>1
  <1> QED BY <1>1, <1>10, <1>11, <1>12, <1>13, <1>14

LEMMA NewClient ==
  ASSUME NEW pos \in Nat, NEW x, x = [NoClient EXCEPT !.pos = pos, !.got = <<pos>>]
  PROVE  /\ x \in Client /\ x.pos = pos /\ x.reads = <<>> /\ x.writes = <<>> /\ GotUpTo(x.got, pos)
         /\ NoClient \in Client /\ NoClient.reads = <<>> /\ NoClient.writes = <<>>
  <1>1. PICK g : g = <<pos>>
    OBVIOUS
  <1>2. g \in Seq(Mark) /\ g # <<>> /\ Len(g) = 1 /\ g[1] = pos
    BY <1>1 DEF Mark
  <1>3. GotUpTo(g, pos)
    BY <1>2 DEF GotUpTo
  <1>4. NoClient \in Client /\ NoClient.reads = <<>> /\ NoClient.writes = <<>>
    <2>1. <<>> \in Seq(Nat) /\ <<>> \in Seq(Request) /\ <<>> \in Seq(Mark)
      OBVIOUS
    <2> QED BY <2>1 DEF NoClient, Client
  <1>5. x = [NoClient EXCEPT !.pos = pos, !.got = g]
    BY <1>1
  <1>6. x \in Client /\ x.pos = pos /\ x.got = g /\ x.reads = <<>> /\ x.writes = <<>>
    BY <1>2, <1>4, <1>5 DEF Client
  <1> QED BY <1>3, <1>4, <1>6

\* create_client()
LEMMA CreateIs ==
  ASSUME NEW s, Live(s), ~s.freed, NEW tk, NEW sn, Sound(s, tk, sn), access \in {"read", "write"},
         NEW c \in Channels, c \notin ToSet(s.clients)
  PROVE  LET t == CreateClient(s, c) IN
         Left(t) /\ Sound(t, tk, sn) /\ t.deleted = s.deleted /\ t.pos = s.pos
  <1>0. /\ s \in Stream /\ s.queue \in Seq(Event) /\ NoDelete(s.queue) /\ s.ref_cnt \in Nat /\ s.ref_cnt > 0
        /\ s.clients \in Seq(Channels) /\ s.cl \in [Channels -> Client] /\ RefsOK(s) /\ ReadsWait(s)
    BY DEF Live, Stream, Sound
  <1>1. PICK u \in Nat, q \in Nat : u = Used(s) /\ q = s.pos /\ u <= q
    <2>1. Used(s) \in Nat /\ s.pos \in Nat
      BY <1>0, UnreadType DEF Stream
    <2>2. Used(s) <= s.pos
      BY DEF Sound, ReadOK, RingRead, WriteOK
    <2> QED BY <2>1, <2>2
  <1>2. PICK p \in Nat : p = q - u /\ p <= q
    BY <1>1
  <1>3. PICK x : x = [NoClient EXCEPT !.pos = p, !.got = <<p>>]
    OBVIOUS
  <1>4. /\ x \in Client /\ x.pos = p /\ x.reads = <<>> /\ x.writes = <<>> /\ GotUpTo(x.got, p)
        /\ NoClient.writes = <<>>
    BY <1>3, NewClient
  <1>5. PICK K, m : K = <<c>> \o s.clients /\ m = Len(s.clients)
    OBVIOUS
  <1>6. m \in Nat /\ K \in Seq(Channels) /\ Len(K) = m + 1 /\ K[1] = c /\ \A i \in 2..(m + 1) : K[i] = s.clients[i - 1]
    BY <1>0, <1>5, ConsIs
  <1>7. PICK f \in [Channels -> Client] : f = [s.cl EXCEPT ![c] = x]
    BY <1>0, <1>4
  <1>8. f[c] = x /\ \A d \in Channels : d # c => f[d] = s.cl[d]
    BY <1>0, <1>7
  <1>p. PICK t : t = CreateClient(s, c)
    OBVIOUS
  <1>n. PICK n \in Nat : n = s.ref_cnt + 1
    BY <1>0
  <1>9. t = [s EXCEPT !.clients = K, !.ref_cnt = n, !.cl = f]
    BY <1>0, <1>1, <1>2, <1>3, <1>5, <1>7, <1>n, <1>p DEF CreateClient
  <1>10. /\ t \in Stream /\ t.clients = K /\ t.ref_cnt = n /\ t.cl = f /\ SameRing(s, t)
         /\ t.pos = q /\ t.eos_inp = s.eos_inp /\ t.deleted = s.deleted /\ t.freed = s.freed
         /\ t.queue = s.queue
    BY <1>0, <1>1, <1>6, <1>9 DEF Stream, SameRing
  <1>11. ToSet(K) = {c} \cup ToSet(s.clients)
    <2>0. DOMAIN K = 1..(m + 1) /\ DOMAIN s.clients = 1..m
      BY <1>0, <1>5, <1>6
    <2>1. ASSUME NEW i \in 1..(m + 1) PROVE K[i] \in {c} \cup ToSet(s.clients)
      <3>1. CASE i = 1
        BY <1>6, <3>1
      <3>2. CASE i # 1
        <4>1. i \in 2..(m + 1) /\ i - 1 \in 1..m
          BY <1>6, <3>2
        <4> QED BY <1>6, <2>0, <4>1 DEF ToSet
      <3> QED BY <3>1, <3>2
    <2>2. ASSUME NEW i \in 1..m PROVE s.clients[i] \in ToSet(K)
      <3>1. i + 1 \in 2..(m + 1) /\ i + 1 \in 1..(m + 1) /\ (i + 1) - 1 = i
        BY <1>6
      <3> QED BY <1>6, <2>0, <3>1 DEF ToSet
    <2>3. c \in ToSet(K)
      <3>1. 1 \in 1..(m + 1)
        BY <1>6
      <3> QED BY <1>6, <2>0, <3>1 DEF ToSet
    <2> QED BY <2>0, <2>1, <2>2, <2>3 DEF ToSet
  <1>12. RefsOK(t)
    <2>1. ASSUME NEW i \in 1..(m + 1), NEW j \in 1..(m + 1), K[i] = K[j] PROVE i = j
      <3>0. DOMAIN s.clients = 1..m
        BY <1>0, <1>5
      <3>1. \A k \in 2..(m + 1) : K[k] # c
        <4> SUFFICES ASSUME NEW k \in 2..(m + 1), K[k] = c PROVE FALSE
          OBVIOUS
        <4>1. k - 1 \in 1..m
          BY <1>6
        <4> QED BY <1>6, <3>0, <4>1 DEF ToSet
      <3>2. CASE i = 1 \/ j = 1
        <4>1. (i = 1 \/ i \in 2..(m + 1)) /\ (j = 1 \/ j \in 2..(m + 1))
          BY <1>6
        <4> QED BY <1>6, <2>1, <3>1, <3>2, <4>1
      <3>3. CASE i # 1 /\ j # 1
        <4>1. i \in 2..(m + 1) /\ j \in 2..(m + 1) /\ i - 1 \in 1..m /\ j - 1 \in 1..m
          BY <1>6, <3>3
        <4>2. s.clients[i - 1] = s.clients[j - 1]
          BY <1>6, <2>1, <4>1
        <4>3. i - 1 = j - 1
          BY <1>0, <1>5, <4>1, <4>2 DEF RefsOK
        <4> QED BY <4>3
      <3> QED BY <3>2, <3>3
    <2>2. t.ref_cnt = Len(K) + (IF t.deleted THEN 0 ELSE 1)
      <3>1. s.ref_cnt = m + (IF s.deleted THEN 0 ELSE 1)
        BY <1>0, <1>5 DEF RefsOK
      <3> QED BY <1>6, <1>10, <1>n, <3>1
    <2>3. ASSUME NEW d \in Channels, d \notin ToSet(K) PROVE f[d] = NoClient
      <3>1. d # c /\ d \notin ToSet(s.clients)
        BY <1>11, <2>3
      <3> QED BY <1>0, <1>8, <3>1 DEF RefsOK
    <2> QED BY <1>6, <1>10, <2>1, <2>2, <2>3 DEF RefsOK
  <1>13. ReadsWait(t)
    <2> SUFFICES ASSUME NEW d \in Channels, f[d].reads # <<>>
                 PROVE  access = "read" /\ f[d].pos = t.pos /\ ~t.eos_inp
      BY <1>10 DEF ReadsWait
    <2>1. d # c
      BY <1>4, <1>8
    <2> QED BY <1>0, <1>1, <1>8, <1>10, <2>1 DEF ReadsWait
  <1>14. Used(t) = u /\ Unread(t) = Unread(s)
    BY <1>1, <1>10, RingSame
  <1>15. ASSUME access = "read" PROVE ReadOK(t)
    <2>1. ReadOK(s)
      BY <1>15 DEF Sound
    <2>2. RingRead(t)
      BY <1>1, <1>10, <1>14, <2>1 DEF ReadOK, RingRead
    <2>3. ASSUME NEW d \in ToSet(K) PROVE ReaderOK(q - u, q, f[d])
      <3>1. CASE d = c
        BY <1>2, <1>4, <1>8, <3>1 DEF ReaderOK
      <3>2. CASE d # c
        <4>1. d \in ToSet(s.clients)
          BY <1>11, <3>2
        <4>2. d \in Channels
          BY <1>0, <4>1 DEF ToSet
        <4>3. ReaderOK(q - u, q, s.cl[d])
          BY <1>1, <2>1, <4>1 DEF ReadOK
        <4> QED BY <1>8, <3>2, <4>2, <4>3
      <3> QED BY <3>1, <3>2
    <2> QED BY <1>10, <1>14, <2>2, <2>3 DEF ReadOK
  <1>16. ASSUME access = "write" PROVE WriteOK(t, tk, sn)
    <2>1. WriteOK(s, tk, sn)
      BY <1>16 DEF Sound
    <2>2. \A d \in Channels : f[d].writes = s.cl[d].writes
      <3>1. s.cl[c] = NoClient
        BY <1>0 DEF RefsOK
      <3> QED BY <1>4, <1>8, <3>1
    <2> QED BY <1>1, <1>10, <1>14, <2>1, <2>2 DEF WriteOK
  <1>17. Left(t)
    <2>1. t.ref_cnt > 0
      BY <1>0, <1>10, <1>n
    <2> QED BY <1>0, <1>10, <2>1 DEF Left, Live
  <1> QED BY <1>1, <1>10, <1>12, <1>13, <1>15, <1>16, <1>17, <1>p DEF Sound

\* The bytes sent, without those of the pending requests of c.
Cancelled(s, sn, c) == [sn EXCEPT ![c] = @ - Waiting(s.cl[c].writes)[Len(s.cl[c].writes)]]

\* delete_client(): in read mode the ring advances, in write mode the requests are cancelled.
LEMMA DeleteClientIs ==
  ASSUME NEW s, Live(s), ~s.freed, NEW tk \in [Channels -> Nat],
         NEW sn \in [Channels \cup {"process"} -> Nat], Sound(s, tk, sn),
         access \in {"read", "write"}, NEW c \in ToSet(s.clients),
         NEW sm, sm = IF access = "read" THEN sn ELSE Cancelled(s, sn, c)
  PROVE  LET t == DeleteClient(s, c) IN
         /\ Left(t) /\ Sound(t, tk, sm) /\ t.deleted = s.deleted /\ t.pos = s.pos
         /\ sm \in [Channels \cup {"process"} -> Nat]
  <1>0. /\ s \in Stream /\ s.queue \in Seq(Event) /\ NoDelete(s.queue) /\ s.ref_cnt \in Nat /\ s.ref_cnt > 0
        /\ s.clients \in Seq(Channels) /\ s.cl \in [Channels -> Client] /\ RefsOK(s) /\ ReadsWait(s)
    BY DEF Live, Stream, Sound
  <1>1. c \in Channels
    BY <1>0 DEF ToSet
  <1>2. PICK K : K = RemoveFirst(s.clients, c)
    OBVIOUS
  <1>3. /\ K \in Seq(Channels) /\ Distinct(K) /\ Len(s.clients) = Len(K) + 1
        /\ ToSet(K) = ToSet(s.clients) \ {c}
    <2>1. PICK q : q = s.clients
      OBVIOUS
    <2>2. q \in Seq(Channels) /\ Distinct(q) /\ c \in ToSet(q) /\ K = RemoveFirst(q, c)
      BY <1>0, <1>2, <2>1 DEF RefsOK, Distinct
    <2>3. K \in Seq(Channels) /\ Distinct(K) /\ Len(q) = Len(K) + 1 /\ ToSet(K) = ToSet(q) \ {c}
      BY ONLY <2>2, RemoveOne
    <2> QED BY <2>1, <2>3
  <1>4. NoClient \in Client /\ NoClient.reads = <<>> /\ NoClient.writes = <<>>
    <2>1. 0 \in Nat
      OBVIOUS
    <2> QED BY <2>1, NewClient
  <1>5. PICK f \in [Channels -> Client] : f = [s.cl EXCEPT ![c] = NoClient]
    BY <1>0, <1>4
  <1>6. f[c] = NoClient /\ \A d \in Channels : d # c => f[d] = s.cl[d]
    BY <1>0, <1>1, <1>5
  <1>7. PICK x : x = [s EXCEPT !.clients = K, !.cl = f]
    OBVIOUS
  <1>8. /\ x \in Stream /\ x.clients = K /\ x.cl = f /\ x.ref_cnt = s.ref_cnt /\ SameRing(s, x)
        /\ x.pos = s.pos /\ x.eos_inp = s.eos_inp /\ x.deleted = s.deleted /\ x.freed = s.freed
        /\ x.queue = s.queue
    BY <1>0, <1>3, <1>7 DEF Stream, SameRing
  <1>9. Live(x) /\ ~x.freed
    BY <1>0, <1>8 DEF Live
  <1>10. PICK y : y = Release(x)
    OBVIOUS
  <1>11. Left(y) /\ Released(x, y) /\ (y.ref_cnt > 0 => Live(y))
    BY <1>9, <1>10, ReleaseIs
  <1>12. /\ y.clients = K /\ y.cl = f /\ s.ref_cnt = y.ref_cnt + 1 /\ SameRing(s, y)
         /\ y.pos = s.pos /\ y.eos_inp = s.eos_inp /\ y.deleted = s.deleted
    BY <1>8, <1>11 DEF Released, SameRing
  <1>13. y \in Stream /\ y.ref_cnt \in Nat
    <2>1. y \in Stream
      BY <1>11 DEF Left, Live
    <2> QED BY <2>1 DEF Stream
  <1>14. RefsOK(y)
    <2>1. y.ref_cnt = Len(K) + (IF y.deleted THEN 0 ELSE 1)
      <3>1. s.ref_cnt = Len(s.clients) + (IF s.deleted THEN 0 ELSE 1)
        BY <1>0 DEF RefsOK
      <3>2. PICK n \in Nat : n = Len(K)
        BY <1>3
      <3>3. y.ref_cnt + 1 = (n + 1) + (IF s.deleted THEN 0 ELSE 1)
        BY <1>3, <1>12, <3>1, <3>2
      <3> QED BY <1>12, <1>13, <3>2, <3>3
    <2>2. ASSUME NEW d \in Channels, d \notin ToSet(K) PROVE f[d] = NoClient
      <3>1. CASE d = c
        BY <1>6, <3>1
      <3>2. CASE d # c
        <4>1. d \notin ToSet(s.clients)
          BY <1>3, <2>2, <3>2
        <4> QED BY <1>0, <1>6, <3>2, <4>1 DEF RefsOK
      <3> QED BY <3>1, <3>2
    <2> QED BY <1>3, <1>12, <2>1, <2>2 DEF RefsOK, Distinct
  <1>15. ReadsWait(y)
    <2> SUFFICES ASSUME NEW d \in Channels, f[d].reads # <<>>
                 PROVE  access = "read" /\ f[d].pos = y.pos /\ ~y.eos_inp
      BY <1>12 DEF ReadsWait
    <2>1. d # c
      BY <1>4, <1>6
    <2> QED BY <1>0, <1>6, <1>12, <2>1 DEF ReadsWait
  <1>16. Used(y) = Used(s) /\ Unread(y) = Unread(s)
    BY <1>12, RingSame
  <1>17. CASE access = "read"
    <2>1. ReadOK(s)
      BY <1>17 DEF Sound
    <2>2. RingRead(y)
      BY <1>12, <1>16, <2>1 DEF ReadOK, RingRead
    <2>3. ASSUME NEW d \in ToSet(K) PROVE ReaderOK(y.pos - Used(y), y.pos, f[d])
      <3>1. d \in ToSet(s.clients) /\ d # c
        BY <1>3
      <3>2. d \in Channels
        BY <1>0, <3>1 DEF ToSet
      <3>3. ReaderOK(s.pos - Used(s), s.pos, s.cl[d])
        BY <2>1, <3>1 DEF ReadOK
      <3> QED BY <1>6, <1>12, <1>16, <3>1, <3>2, <3>3
    <2>4. ReadOK(y)
      BY <1>12, <2>2, <2>3 DEF ReadOK
    <2>5. Sound(y, tk, sm)
      BY <1>13, <1>14, <1>15, <1>17, <2>4 DEF Sound
    <2>6. PICK t : t = IF y.ref_cnt > 0 THEN Advance(y) ELSE y
      OBVIOUS
    <2>7. DeleteClient(s, c) = t
      BY <1>2, <1>5, <1>7, <1>10, <1>17, <2>6 DEF DeleteClient
    <2>8. CASE y.ref_cnt > 0
      <3>1. Live(t) /\ ReadOK(t) /\ SameRead(y, t) /\ t.cl = y.cl
        BY <1>11, <2>4, <2>6, <2>8, AdvanceIs
      <3>2. RefsOK(t) /\ ReadsWait(t)
        BY <1>14, <1>15, <3>1, KeptRefs DEF SameRead
      <3>3. Sound(t, tk, sm) /\ Left(t)
        BY <1>11, <1>17, <3>1, <3>2 DEF Sound, Left, Live, SameRead, SameRefs
      <3>4. t.deleted = s.deleted /\ t.pos = s.pos
        BY <1>12, <3>1 DEF SameRead, SameRefs
      <3> QED BY <1>17, <2>7, <3>3, <3>4
    <2>9. CASE ~(y.ref_cnt > 0)
      <3>1. t = y
        BY <2>6, <2>9
      <3> QED BY <1>11, <1>12, <1>17, <2>5, <2>7, <3>1
    <2> QED BY <2>8, <2>9
  <1>18. CASE access = "write"
    <2>1. WriteOK(s, tk, sn)
      BY <1>18 DEF Sound
    <2>2. PICK W, w : W = s.cl[c].writes /\ w = Waiting(W)[Len(W)]
      OBVIOUS
    <2>p. PICK R, e, a, b : R = Unread(s) /\ e = s.eos_inp /\ a = tk[c] /\ b = sn[c]
      OBVIOUS
    <2>3. /\ R \in Seq(Item) /\ a \in Nat /\ b \in Nat
          /\ R = Unread(s) /\ e = s.eos_inp /\ a = tk[c] /\ b = sn[c]
      BY <1>1, <2>1, <2>p DEF WriteOK
    <2>4. W \in Seq(Request) /\ WriterOK(R, W, e, c, a, b)
      <3>1. s.cl[c] \in Client
        BY <1>0, <1>1
      <3>2. W \in Seq(Request)
        BY <2>2, <3>1 DEF Client
      <3> QED BY <1>1, <2>1, <2>2, <2>3, <3>2 DEF WriteOK
    <2>5. b - w \in Nat /\ WriterOK(R, <<>>, e, c, a, b - w)
      BY <2>2, <2>3, <2>4, WaitNone
    <2>6. /\ sm \in [Channels \cup {"process"} -> Nat] /\ sm[c] = b - w
          /\ \A d \in Channels : d # c => sm[d] = sn[d]
      <3>1. sm = [sn EXCEPT ![c] = b - w]
        BY <1>18, <2>2, <2>3 DEF Cancelled
      <3> QED BY <1>1, <2>5, <3>1
    <2>7. ASSUME NEW d \in Channels
          PROVE  WriterOK(Unread(y), y.cl[d].writes, y.eos_inp, d, tk[d], sm[d])
      <3>1. CASE d = c
        <4>1. y.cl[c].writes = <<>>
          BY <1>4, <1>6, <1>12
        <4> QED BY <1>12, <1>16, <2>3, <2>5, <2>6, <3>1, <4>1
      <3>2. CASE d # c
        <4>1. WriterOK(Unread(s), s.cl[d].writes, s.eos_inp, d, tk[d], sn[d])
          BY <2>1 DEF WriteOK
        <4>2. y.cl[d] = s.cl[d] /\ sm[d] = sn[d]
          BY <1>6, <1>12, <2>6, <3>2
        <4> QED BY <1>12, <1>16, <4>1, <4>2
      <3> QED BY <3>1, <3>2
    <2>8. WriteOK(y, tk, sm)
      BY <1>12, <1>16, <2>1, <2>7 DEF WriteOK
    <2>9. Sound(y, tk, sm)
      BY <1>13, <1>14, <1>15, <1>18, <2>8 DEF Sound
    <2>10. DeleteClient(s, c) = y
      BY <1>2, <1>5, <1>7, <1>10, <1>18 DEF DeleteClient
    <2> QED BY <1>11, <1>12, <2>6, <2>9, <2>10
  <1> QED BY <1>17, <1>18

\* A stream with a client is in use.
LEMMA ConnectedIs ==
  ASSUME StInv, NEW c, c \in ToSet(vs.clients) \/ ~vs.deleted
  PROVE  /\ Live(vs) /\ ~vs.freed /\ NoDelete(events)
         /\ Sound(vs, taken, sent) /\ OwnerOK(vs, owner, sent["process"])
         /\ access \in {"read", "write"} /\ events \in Seq(Event) /\ taken \in [Channels -> Nat]
         /\ sent \in [Channels \cup {"process"} -> Nat]
  <1>1. /\ access \in {"read", "write"} /\ events \in Seq(Event) /\ taken \in [Channels -> Nat]
        /\ sent \in [Channels \cup {"process"} -> Nat] /\ EventsOK(vs, events) /\ vs.queue = <<>>
        /\ Sound(vs, taken, sent) /\ OwnerOK(vs, owner, sent["process"])
    BY DEF StInv
  <1>2. c \in ToSet(vs.clients) => vs.ref_cnt > 0
    <2> SUFFICES ASSUME c \in ToSet(vs.clients) PROVE vs.ref_cnt > 0
      OBVIOUS
    <2>1. PICK n \in Nat : n = Len(vs.clients) /\ DOMAIN vs.clients = 1..n
      BY <1>1 DEF Sound, Stream
    <2>2. n # 0
      BY <2>1 DEF ToSet
    <2>3. vs.ref_cnt = n + (IF vs.deleted THEN 0 ELSE 1)
      BY <1>1, <2>1 DEF Sound, RefsOK
    <2> QED BY <2>2, <2>3
  <1>3. NoDelete(vs.queue)
    BY <1>1 DEF NoDelete
  <1>4. Live(vs) /\ ~vs.freed /\ NoDelete(events)
    BY <1>1, <1>2, <1>3, InUse
  <1> QED BY <1>1, <1>4

LEMMA ConnectStep ==
  ASSUME StInv, NEW c \in Channels, Connect(c)
  PROVE  StInv'
  <1>1. /\ c \notin ToSet(vs.clients) /\ ~vs.deleted /\ SetStream(CreateClient(vs, c), events)
        /\ access' = access /\ owner' = owner /\ sent' = sent /\ taken' = taken
    BY DEF Connect, Connected
  <1>2. /\ Live(vs) /\ ~vs.freed /\ NoDelete(events)
        /\ Sound(vs, taken, sent) /\ OwnerOK(vs, owner, sent["process"])
        /\ access \in {"read", "write"} /\ events \in Seq(Event) /\ taken \in [Channels -> Nat]
        /\ sent \in [Channels \cup {"process"} -> Nat]
    BY <1>1, ConnectedIs
  <1>3. PICK t : t = CreateClient(vs, c)
    OBVIOUS
  <1>4. Left(t) /\ Sound(t, taken, sent) /\ t.deleted = vs.deleted /\ t.pos = vs.pos
    BY <1>1, <1>2, <1>3, CreateIs
  <1>5. OwnerOK(t, owner, sent["process"])
    BY <1>2, <1>4 DEF OwnerOK, HoldsRest
  <1> QED BY <1>1, <1>2, <1>3, <1>4, <1>5, PostedIs

LEMMA DisconnectStep ==
  ASSUME StInv, NEW c \in Channels, Disconnect(c)
  PROVE  StInv'
  <1>1. /\ c \in ToSet(vs.clients) /\ SetStream(DeleteClient(vs, c), events) /\ sent' = Unsent(c)
        /\ access' = access /\ owner' = owner /\ taken' = taken
    BY DEF Disconnect, Connected
  <1>2. /\ Live(vs) /\ ~vs.freed /\ NoDelete(events)
        /\ Sound(vs, taken, sent) /\ OwnerOK(vs, owner, sent["process"])
        /\ access \in {"read", "write"} /\ events \in Seq(Event) /\ taken \in [Channels -> Nat]
        /\ sent \in [Channels \cup {"process"} -> Nat]
    BY <1>1, ConnectedIs
  <1>3. PICK t, sm : t = DeleteClient(vs, c) /\ sm = sent'
    OBVIOUS
  <1>4. sm = IF access = "read" THEN sent ELSE Cancelled(vs, sent, c)
    BY <1>1, <1>3 DEF Unsent, Cancelled
  <1>5. /\ Left(t) /\ Sound(t, taken, sm) /\ t.deleted = vs.deleted /\ t.pos = vs.pos
        /\ sm \in [Channels \cup {"process"} -> Nat]
    BY <1>1, <1>2, <1>3, <1>4, DeleteClientIs
  <1>6. OwnerOK(t, owner, sm["process"])
    BY <1>2, <1>4, <1>5 DEF OwnerOK, HoldsRest
  <1>7. /\ Sound(t, taken', sent') /\ OwnerOK(t, owner', sent'["process"])
        /\ taken' \in [Channels -> Nat] /\ sent' \in [Channels \cup {"process"} -> Nat]
    BY <1>1, <1>2, <1>3, <1>5, <1>6
  <1> QED BY <1>1, <1>3, <1>2, <1>5, <1>7, PostedIs

-----------------------------------------------------------------------------
(* Commands to read and to write. *)

WithClient(s, c, x) == [s EXCEPT !.cl[c] = x]

LEMMA SetClient ==
  ASSUME NEW s, access = "read", Live(s), NEW tk, NEW sn, Sound(s, tk, sn), NEW c \in ToSet(s.clients),
         NEW x \in Client, ReaderOK(s.pos - Used(s), s.pos, x),
         x.reads # <<>> => x.pos = s.pos /\ ~s.eos_inp
  PROVE  LET t == WithClient(s, c, x) IN
         /\ Live(t) /\ Sound(t, tk, sn) /\ t.deleted = s.deleted /\ t.pos = s.pos /\ t.freed = s.freed
  <1>0. /\ s \in Stream /\ s.clients \in Seq(Channels) /\ s.cl \in [Channels -> Client]
        /\ s.ref_cnt > 0 /\ NoDelete(s.queue) /\ RefsOK(s) /\ ReadsWait(s) /\ ReadOK(s)
    BY DEF Live, Stream, Sound
  <1>1. c \in Channels
    BY <1>0 DEF ToSet
  <1>2. PICK f \in [Channels -> Client] : f = [s.cl EXCEPT ![c] = x]
    BY <1>0
  <1>3. f[c] = x /\ \A d \in Channels : d # c => f[d] = s.cl[d]
    BY <1>0, <1>1, <1>2
  <1>4. PICK t : t = WithClient(s, c, x)
    OBVIOUS
  <1>5. t = [s EXCEPT !.cl = f]
    BY <1>2, <1>4 DEF WithClient
  <1>6. /\ t \in Stream /\ t.cl = f /\ t.ref_cnt = s.ref_cnt /\ t.queue = s.queue
        /\ SameRefs(s, t) /\ SameRing(s, t) /\ t.pos = s.pos /\ t.eos_inp = s.eos_inp
    BY <1>0, <1>5 DEF Stream, SameRefs, SameRing
  <1>7. RefsOK(t)
    <2>1. ASSUME NEW d \in Channels, d \notin ToSet(t.clients) PROVE f[d] = NoClient
      <3>1. d \notin ToSet(s.clients) /\ d # c
        BY <1>6, <2>1 DEF SameRefs
      <3> QED BY <1>0, <1>3, <3>1 DEF RefsOK
    <2> QED BY <1>0, <1>6, <2>1 DEF RefsOK, SameRefs
  <1>8. ReadsWait(t)
    <2> SUFFICES ASSUME NEW d \in Channels, f[d].reads # <<>>
                 PROVE  access = "read" /\ f[d].pos = t.pos /\ ~t.eos_inp
      BY <1>6 DEF ReadsWait
    <2>1. CASE d = c
      BY <1>3, <1>6, <2>1
    <2>2. CASE d # c
      BY <1>0, <1>3, <1>6, <2>2 DEF ReadsWait
    <2> QED BY <2>1, <2>2
  <1>9. Used(t) = Used(s) /\ Unread(t) = Unread(s)
    BY <1>6, RingSame
  <1>10. ReadOK(t)
    <2>1. RingRead(t)
      BY <1>0, <1>6, <1>9 DEF ReadOK, RingRead
    <2>2. ASSUME NEW d \in ToSet(t.clients) PROVE ReaderOK(t.pos - Used(t), t.pos, f[d])
      <3>1. d \in ToSet(s.clients)
        BY <1>6 DEF SameRefs
      <3>2. d \in Channels
        BY <1>0, <3>1 DEF ToSet
      <3>3. CASE d = c
        BY <1>3, <1>6, <1>9, <3>3
      <3>4. CASE d # c
        <4>1. ReaderOK(s.pos - Used(s), s.pos, s.cl[d])
          BY <1>0, <3>1 DEF ReadOK
        <4> QED BY <1>3, <1>6, <1>9, <3>2, <3>4, <4>1
      <3> QED BY <3>3, <3>4
    <2> QED BY <1>6, <2>1, <2>2 DEF ReadOK
  <1>11. Sound(t, tk, sn) /\ Live(t)
    BY <1>0, <1>6, <1>7, <1>8, <1>10 DEF Sound, Live
  <1> QED BY <1>4, <1>6, <1>11 DEF SameRefs

LEMMA ReadStep ==
  ASSUME StInv, NEW c \in Channels, NEW n \in 1..PBufSize, Read(c, n)
  PROVE  StInv'
  <1>1. /\ access = "read" /\ c \in ToSet(vs.clients) /\ access' = access /\ owner' = owner
        /\ sent' = sent /\ taken' = taken
        /\ IF vs.cl[c].pos = vs.pos /\ ~vs.eos_inp
             THEN SetStream([vs EXCEPT !.cl[c].reads = Append(@, n)], events)
             ELSE SetStream(Advance([vs EXCEPT !.cl[c] = ReadReply(vs, @, n)]), events)
    BY DEF Read, Connected
  <1>2. /\ Live(vs) /\ ~vs.freed /\ NoDelete(events)
        /\ Sound(vs, taken, sent) /\ OwnerOK(vs, owner, sent["process"])
        /\ access \in {"read", "write"} /\ events \in Seq(Event) /\ taken \in [Channels -> Nat]
        /\ sent \in [Channels \cup {"process"} -> Nat]
    BY <1>1, ConnectedIs
  <1>p. PICK cl : cl = vs.cl[c]
    OBVIOUS
  <1>3. vs \in Stream /\ cl \in Client /\ n \in Nat /\ vs.cl \in [Channels -> Client]
    <2>1. n \in Nat
      OBVIOUS
    <2> QED BY <1>2, <1>p, <2>1 DEF Live, Stream
  <1>4. ReaderOK(vs.pos - Used(vs), vs.pos, cl) /\ ReadOK(vs) /\ ReadsWait(vs)
    BY <1>1, <1>2, <1>p DEF Sound, ReadOK
  <1>5. \E t : SetStream(t, events) /\ Left(t) /\ Sound(t, taken, sent) /\ t.deleted = vs.deleted /\ t.pos = vs.pos
    <2>1. CASE vs.cl[c].pos = vs.pos /\ ~vs.eos_inp
      <3>1. PICK q : q = Append(cl.reads, n)
        OBVIOUS
      <3>2. q \in Seq(Nat)
        BY <1>3, <3>1 DEF Client
      <3>3. PICK x : x = [cl EXCEPT !.reads = q]
        OBVIOUS
      <3>4. x \in Client /\ x.pos = cl.pos /\ x.got = cl.got /\ x.reads = q
        BY <1>3, <3>2, <3>3 DEF Client
      <3>5. ReaderOK(vs.pos - Used(vs), vs.pos, x)
        BY <1>4, <3>4 DEF ReaderOK
      <3>6. PICK t : t = WithClient(vs, c, x)
        OBVIOUS
      <3>7. SetStream(t, events)
        <4>1. t = [vs EXCEPT !.cl[c].reads = Append(@, n)]
          BY <1>3, <1>p, <3>1, <3>3, <3>6 DEF WithClient, Stream
        <4> QED BY Zenon, <1>1, <2>1, <4>1
      <3>8. x.reads # <<>> => x.pos = vs.pos /\ ~vs.eos_inp
        BY <1>p, <2>1, <3>4
      <3>9. /\ Live(t) /\ Sound(t, taken, sent) /\ t.deleted = vs.deleted /\ t.pos = vs.pos /\ t.freed = vs.freed
        BY <1>1, <1>2, <3>4, <3>5, <3>6, <3>8, SetClient
      <3> QED BY <1>2, <3>7, <3>9 DEF Left
    <2>2. CASE ~(vs.cl[c].pos = vs.pos /\ ~vs.eos_inp)
      <3>1. PICK x : x = ReadReply(vs, cl, n)
        OBVIOUS
      <3>2. x \in Client /\ ReaderOK(vs.pos - Used(vs), vs.pos, x) /\ x.reads = cl.reads
        <4>1. RingOK(vs)
          BY <1>3, <1>4 DEF RingOK, Stream, ReadOK
        <4> QED BY <1>3, <1>4, <3>1, <4>1, ReadReplyIs
      <3>3. x.reads = <<>>
        BY <1>4, <1>p, <2>2, <3>2 DEF ReadsWait
      <3>4. PICK y, t : y = WithClient(vs, c, x) /\ t = Advance(y)
        OBVIOUS
      <3>5. SetStream(t, events)
        <4>1. y = [vs EXCEPT !.cl[c] = ReadReply(vs, @, n)]
          BY <1>3, <1>p, <3>1, <3>4 DEF WithClient, Stream
        <4> QED BY Zenon, <1>1, <2>2, <3>4, <4>1
      <3>6. /\ Live(y) /\ Sound(y, taken, sent) /\ y.deleted = vs.deleted /\ y.pos = vs.pos /\ y.freed = vs.freed
        BY <1>1, <1>2, <3>2, <3>3, <3>4, SetClient
      <3>7. ReadOK(y) /\ RefsOK(y) /\ ReadsWait(y)
        BY <1>1, <3>6 DEF Sound
      <3>8. Live(t) /\ ReadOK(t) /\ SameRead(y, t) /\ t.cl = y.cl
        BY <3>4, <3>6, <3>7, AdvanceIs
      <3>9. RefsOK(t) /\ ReadsWait(t)
        BY <3>7, <3>8, KeptRefs DEF SameRead
      <3>10. Sound(t, taken, sent) /\ Left(t)
        BY <1>1, <1>2, <3>6, <3>8, <3>9 DEF Sound, Left, Live, SameRead, SameRefs
      <3>11. t.deleted = vs.deleted /\ t.pos = vs.pos
        BY <3>6, <3>8 DEF SameRead, SameRefs
      <3> QED BY <3>5, <3>10, <3>11
    <2> QED BY <2>1, <2>2
  <1>6. PICK t : SetStream(t, events) /\ Left(t) /\ Sound(t, taken, sent) /\ t.deleted = vs.deleted /\ t.pos = vs.pos
    BY <1>5
  <1>7. OwnerOK(t, owner, sent["process"])
    BY <1>2, <1>6 DEF OwnerOK, HoldsRest
  <1> QED BY <1>1, <1>2, <1>6, <1>7, PostedIs

\* Data is not taken after the end.
LEMMA AddNothing ==
  ASSUME NEW s, access = "write", NEW tk, NEW sn, Input(s, tk, sn), s.eos_inp, NEW data \in Seq(Item),
         NEW eos \in BOOLEAN
  PROVE  LET a == AddData(s, data, eos) IN
         Input(a, tk, sn) /\ SameRefs(s, a) /\ a.pos = s.pos
  <1>0. Live(s) /\ RefsOK(s) /\ ReadsWait(s) /\ WriteOK(s, tk, sn) /\ Unread(s) \in Seq(Item) /\ s.pos \in Nat
    BY DEF Input, WriteOK, Live, Stream
  <1>1. PICK a : a = AddData(s, data, eos)
    OBVIOUS
  <1>2. PICK D : Live(a) /\ RefsOK(a) /\ ReadsWait(a) /\ PutIn(s, a, data, eos, D)
    BY <1>0, <1>1, AddWrite
  <1>3. /\ D = <<>> /\ Unread(a) \in Seq(Item) /\ Extends(Unread(a), Unread(s), D) /\ a.cl = s.cl
        /\ a.eos_inp = TRUE /\ SameRefs(s, a) /\ a.pos = s.pos + Len(D) /\ D \in Seq(Item)
    BY <1>2 DEF PutIn
  <1>4. a.pos = s.pos
    <2>1. Len(D) = 0
      BY <1>3
    <2> QED BY <1>0, <1>3, <2>1
  <1>5. ASSUME NEW d \in Channels
        PROVE  WriterOK(Unread(a), a.cl[d].writes, a.eos_inp, d, tk[d], sn[d])
    <2>1. PICK R, W, x, y : R = Unread(s) /\ W = s.cl[d].writes /\ x = tk[d] /\ y = sn[d]
      OBVIOUS
    <2>2. R \in Seq(Item) /\ WriterOK(R, W, TRUE, d, x, y)
      <3>1. s.eos_inp = TRUE
        BY <1>0 DEF Live, Stream
      <3> QED BY <1>0, <2>1, <3>1 DEF WriteOK
    <2>3. \A i \in 1..Len(D) : D[i][1] # d
      BY <1>3
    <2>4. PICK Q : Q = Unread(a)
      OBVIOUS
    <2>5. WriterOK(Q, W, TRUE, d, x, y)
      BY <1>3, <2>1, <2>2, <2>3, <2>4, PutOther
    <2> QED BY <1>3, <2>1, <2>4, <2>5
  <1>6. Used(a) <= a.pos
    <2>1. Len(Unread(a)) = Used(a) /\ Len(Unread(s)) = Used(s) /\ Used(s) \in Nat
      BY <1>0, <1>2, UnreadType DEF Live
    <2>2. Len(Unread(a)) = Len(Unread(s)) + Len(D) /\ Len(D) = 0
      BY <1>3 DEF Extends
    <2> QED BY <1>0, <1>4, <2>1, <2>2 DEF WriteOK
  <1>7. WriteOK(a, tk, sn)
    BY <1>3, <1>5, <1>6 DEF WriteOK
  <1> QED BY <1>1, <1>2, <1>3, <1>4, <1>7 DEF Input

\* virtual_stream_write() or virtual_stream_eos()
LEMMA WriteDataIs ==
  ASSUME access = "write", NEW tk \in [Channels -> Nat], NEW sn, \A d \in Channels : sn[d] \in Nat,
         Input(vs, tk, sn), NEW c \in ToSet(vs.clients), NEW data \in Seq(Item), NEW eos \in BOOLEAN,
         Following(data, c, sn[c]), vs.cl[c].writes # <<>> \/ ~vs.eos_inp,
         NEW sm, sm[c] = sn[c] + Len(data), \A d \in Channels : d # c => sm[d] = sn[d],
         WriteData(c, data, eos)
  PROVE  \E t : SetStream(t, events) /\ Input(t, tk, sm) /\ SameRefs(vs, t)
  <1>0. /\ Live(vs) /\ RefsOK(vs) /\ ReadsWait(vs) /\ WriteOK(vs, tk, sn) /\ vs \in Stream
        /\ vs.clients \in Seq(Channels) /\ vs.cl \in [Channels -> Client] /\ Unread(vs) \in Seq(Item)
    BY DEF Input, Live, Stream, WriteOK
  <1>1. c \in Channels
    BY <1>0 DEF ToSet
  <1>2. PICK R, W, e, x, y : /\ R = Unread(vs) /\ W = vs.cl[c].writes /\ e = vs.eos_inp
                             /\ x = tk[c] /\ y = sn[c]
    OBVIOUS
  <1>3. R \in Seq(Item) /\ W \in Seq(Request) /\ x \in Nat /\ y \in Nat /\ WriterOK(R, W, e, c, x, y)
    <2>1. vs.cl[c] \in Client
      BY <1>0, <1>1
    <2>2. W \in Seq(Request)
      BY <1>2, <2>1 DEF Client
    <2> QED BY <1>0, <1>1, <1>2, <2>2 DEF WriteOK
  <1>4. PICK r : r = [data |-> data, eos |-> eos]
    OBVIOUS
  <1>5. r \in Request /\ r.data = data /\ r.eos = eos
    BY <1>4 DEF Request
  <1>6. PICK V : V = Append(W, r)
    OBVIOUS
  <1>7. V \in Seq(Request) /\ V # <<>> /\ WriterOK(R, V, e, c, x, y + Len(data))
    <2>1. Following(r.data, c, y)
      BY <1>2, <1>5
    <2>2. Counts(W, e)
      BY <1>2 DEF Counts
    <2>3. V \in Seq(Request) /\ V # <<>> /\ WriterOK(R, V, e, c, x, y + Len(r.data))
      BY <1>3, <1>5, <1>6, <2>1, <2>2, WaitMore
    <2> QED BY <1>5, <2>3
  <1>8. CASE W # <<>>
    <2>1. PICK t : t = WithWrites(vs, c, V)
      OBVIOUS
    <2>2. SetStream(t, events)
      <3>1. SetStream([vs EXCEPT !.cl[c].writes = Append(@, r)], events)
        BY <1>2, <1>4, <1>8 DEF WriteData
      <3>2. t = [vs EXCEPT !.cl[c].writes = Append(@, r)]
        BY <1>0, <1>1, <1>2, <1>6, <2>1 DEF WithWrites, Stream, Client
      <3> QED BY <3>1, <3>2
    <2>3. Rewritten(vs, t, c, V)
      BY <1>0, <1>7, <2>1, SetWrites
    <2>4. Used(t) = Used(vs) /\ Unread(t) = Unread(vs)
      BY <2>3, RingSame DEF Rewritten
    <2>5. ASSUME NEW d \in Channels
          PROVE  WriterOK(Unread(t), t.cl[d].writes, t.eos_inp, d, tk[d], sm[d])
      <3>1. CASE d = c
        BY <1>2, <1>7, <2>3, <2>4, <3>1 DEF Rewritten
      <3>2. CASE d # c
        <4>1. WriterOK(Unread(vs), vs.cl[d].writes, vs.eos_inp, d, tk[d], sn[d])
          BY <1>0 DEF WriteOK
        <4>2. t.cl[d] = vs.cl[d] /\ t.eos_inp = vs.eos_inp /\ sm[d] = sn[d]
          BY <2>3, <3>2 DEF Rewritten
        <4> QED BY <2>4, <4>1, <4>2
      <3> QED BY <3>1, <3>2
    <2>6. WriteOK(t, tk, sm)
      <3>1. Used(t) <= t.pos
        BY <1>0, <2>3, <2>4 DEF WriteOK, Rewritten
      <3> QED BY <1>0, <2>4, <2>5, <3>1 DEF WriteOK
    <2>7. Input(t, tk, sm) /\ SameRefs(vs, t)
      BY <2>3, <2>6 DEF Input, Rewritten
    <2> QED BY <2>2, <2>7
  <1>9. CASE W = <<>>
    <2>0. e = FALSE /\ vs.eos_inp = FALSE
      <3>1. vs.eos_inp \in BOOLEAN
        BY <1>0 DEF Stream
      <3> QED BY <1>2, <1>9, <3>1
    <2>1. PICK U \in Seq(Request) : U = <<r>>
      <3>1. <<r>> \in Seq(Request)
        BY <1>5
      <3> QED BY Zenon, <3>1
    <2>2. U # <<>> /\ Len(U) = 1 /\ U[1] = r /\ U = V
      BY <1>6, <1>9, <2>1
    <2>3. PICK a : a = AddData(vs, data, eos)
      OBVIOUS
    <2>4. PICK D : PutIn(vs, a, data, eos, D) /\ Live(a)
      BY <1>0, <2>3, AddWrite
    <2>5. PICK k \in Nat, m \in Nat : k = a.pos - vs.pos /\ k <= m /\ m = Len(data)
      <3>1. a.pos = vs.pos + Len(D) /\ Len(D) <= Len(data) /\ D \in Seq(Item)
        BY <2>4 DEF PutIn, Starts
      <3>2. vs.pos \in Nat /\ Len(D) \in Nat /\ Len(data) \in Nat
        BY <1>0, <3>1 DEF Stream
      <3>3. a.pos - vs.pos = Len(D)
        BY <3>1, <3>2
      <3> QED BY <3>1, <3>2, <3>3
    <2>6. PICK left : left = SubSeq(data, k + 1, m)
      OBVIOUS
    <2>7. left \in Seq(Item) /\ Len(left) = m - k
      <3>1. \A i \in (k + 1)..m : i \in 1..m
        OBVIOUS
      <3>2. \A i \in (k + 1)..m : data[i] \in Item
        BY <2>5, <3>1
      <3> QED BY <2>5, <2>6, <3>2, SubSeqProperties
    <2>8. SetStream(IF left = <<>> THEN a
                    ELSE [a EXCEPT !.cl[c].writes = <<[data |-> left, eos |-> FALSE]>>], events)
      BY <1>2, <1>9, <2>3, <2>5, <2>6 DEF WriteData
    <2>9. ASSUME NEW Y \in Seq(Request), Going(vs, a, c, U, Y)
          PROVE  LET t == WithWrites(a, c, Y) IN Input(t, tk, sm) /\ SameRefs(vs, t)
      <3>1. PICK t : t = WithWrites(a, c, Y)
        OBVIOUS
      <3>2. WriterOK(Unread(vs), U, vs.eos_inp, c, tk[c], sm[c])
        BY <1>2, <1>7, <2>2
      <3>3. a = AddData(vs, U[1].data, U[1].eos)
        BY <1>5, <2>2, <2>3
      <3>4. /\ Live(t) /\ RefsOK(t) /\ ReadsWait(t) /\ WriteOK(t, tk, sm) /\ Keeps(vs, t)
        BY ZenonT(30), <1>0, <2>2, <2>9, <3>1, <3>2, <3>3, GoOn
      <3> QED BY <3>1, <3>4 DEF Input, Keeps
    <2>10. CASE left = <<>>
      <3>1. k = m
        <4>1. Len(left) = 0
          BY <2>10
        <4>2. k \in Nat /\ m \in Nat /\ m - k = 0
          BY <2>5, <2>7, <4>1
        <4> QED BY ONLY <4>2
      <3>2. PICK Y \in Seq(Request) : Y = <<>>
        <4>1. <<>> \in Seq(Request)
          OBVIOUS
        <4> QED BY Zenon, <4>1
      <3>3. Tail(U) = Y
        BY <2>1, <3>2
      <3>4. Going(vs, a, c, U, Y)
        BY <1>5, <2>0, <2>2, <2>5, <3>1, <3>3 DEF Going
      <3>5. WithWrites(a, c, Y) = a
        <4>1. a.cl[c].writes = Y /\ a \in Stream
          BY <1>2, <1>9, <2>4, <3>2 DEF PutIn, Live
        <4>2. a.cl \in [Channels -> Client]
          BY <4>1 DEF Stream
        <4>3. a.cl[c] \in Client
          BY <1>1, <4>2
        <4>4. [a.cl[c] EXCEPT !.writes = Y] = a.cl[c]
          BY <4>1, <4>3 DEF Client
        <4>5. PICK f : f = a.cl
          OBVIOUS
        <4>6. [f EXCEPT ![c] = f[c]] = f
          BY <1>1, <4>2, <4>5
        <4>7. WithWrites(a, c, Y) = [a EXCEPT !.cl = [f EXCEPT ![c] = [a.cl[c] EXCEPT !.writes = Y]]]
          BY <4>5 DEF WithWrites
        <4>8. WithWrites(a, c, Y) = [a EXCEPT !.cl = f]
          BY <4>4, <4>5, <4>6, <4>7
        <4> QED BY <4>1, <4>5, <4>8 DEF Stream
      <3>6. Input(a, tk, sm) /\ SameRefs(vs, a)
        BY <2>9, <3>4, <3>5
      <3>7. SetStream(a, events)
        BY <2>8, <2>10
      <3> QED BY <3>6, <3>7
    <2>11. CASE left # <<>>
      <3>1. k # m
        <4>1. Len(left) # 0
          BY <2>7, <2>11
        <4> QED BY <2>5, <2>7, <4>1
      <3>2. PICK z : z = [data |-> left, eos |-> FALSE]
        OBVIOUS
      <3>3. z \in Request /\ z.data = left
        BY <2>7, <3>2 DEF Request
      <3>4. PICK Y \in Seq(Request) : Y = <<z>>
        <4>1. <<z>> \in Seq(Request)
          BY <3>3
        <4> QED BY Zenon, <4>1
      <3>5. Len(Y) = 1 /\ Y[1] = z
        BY <3>4
      <3>6. Shorter(Y, U, k)
        <4>1. \A i \in 2..1 : Y[i] = U[i]
          OBVIOUS
        <4> QED BY <1>5, <2>2, <2>5, <2>6, <3>3, <3>5, <4>1 DEF Shorter
      <3>7. Going(vs, a, c, U, Y)
        BY <1>5, <2>0, <2>2, <2>5, <3>1, <3>6 DEF Going
      <3>8. PICK t : t = WithWrites(a, c, Y)
        OBVIOUS
      <3>9. Input(t, tk, sm) /\ SameRefs(vs, t)
        BY <2>9, <3>7, <3>8
      <3>10. SetStream(t, events)
        BY <2>8, <2>11, <3>2, <3>4, <3>8 DEF WithWrites
      <3> QED BY <3>9, <3>10
    <2> QED BY <2>10, <2>11
  <1> QED BY <1>8, <1>9

\* The step of a command to write.
LEMMA WrittenIs ==
  ASSUME StInv, access = "write", access' = access, owner' = owner, taken' = taken,
         NEW c, c \in ToSet(vs.clients), sent' \in [Channels \cup {"process"} -> Nat],
         NEW t, SetStream(t, events), Input(t, taken, sent'), SameRefs(vs, t)
  PROVE  StInv'
  <1>1. /\ Live(vs) /\ ~vs.freed /\ NoDelete(events)
        /\ Sound(vs, taken, sent) /\ OwnerOK(vs, owner, sent["process"])
        /\ access \in {"read", "write"} /\ events \in Seq(Event) /\ taken \in [Channels -> Nat]
    BY ConnectedIs
  <1>2. Sound(t, taken', sent') /\ Left(t)
    BY <1>1 DEF Input, Sound, Left, Live, SameRefs
  <1>3. OwnerOK(t, owner', sent'["process"])
    BY <1>1 DEF OwnerOK, SameRefs
  <1> QED BY <1>1, <1>2, <1>3, PostedIs

LEMMA WriteStep ==
  ASSUME StInv, NEW c \in Channels, NEW n \in 1..PBufSize, Write(c, n)
  PROVE  StInv'
  <1>1. /\ access = "write" /\ c \in ToSet(vs.clients) /\ access' = access /\ owner' = owner /\ taken' = taken
        /\ IF vs.cl[c].writes = <<>> /\ vs.eos_inp
             THEN SetStream(AddData(vs, <<>>, FALSE), events) /\ sent' = sent
             ELSE /\ sent' = [sent EXCEPT ![c] = @ + n]
                  /\ WriteData(c, [i \in 1..n |-> <<c, sent[c] + i>>], FALSE)
    BY DEF Write, Connected
  <1>2. /\ Live(vs) /\ Sound(vs, taken, sent) /\ taken \in [Channels -> Nat]
        /\ sent \in [Channels \cup {"process"} -> Nat]
    BY <1>1, ConnectedIs
  <1>3. Input(vs, taken, sent) /\ \A d \in Channels : sent[d] \in Nat
    BY <1>1, <1>2 DEF Sound, Input
  <1>4. CASE vs.cl[c].writes = <<>> /\ vs.eos_inp
    <2>1. PICK t : t = AddData(vs, <<>>, FALSE)
      OBVIOUS
    <2>2. SetStream(t, events) /\ sent' = sent
      BY <1>1, <1>4, <2>1
    <2>3. Input(t, taken, sent) /\ SameRefs(vs, t)
      <3>1. <<>> \in Seq(Item) /\ FALSE \in BOOLEAN
        OBVIOUS
      <3> QED BY <1>1, <1>3, <1>4, <2>1, <3>1, AddNothing
    <2> QED BY <1>1, <1>2, <2>2, <2>3, WrittenIs
  <1>5. CASE ~(vs.cl[c].writes = <<>> /\ vs.eos_inp)
    <2>a. PICK data : data = [i \in 1..n |-> <<c, sent[c] + i>>]
      OBVIOUS
    <2>b. PICK m \in Nat, y \in Nat : m = n /\ y = sent[c]
      BY <1>3
    <2>2. data \in Seq(Item) /\ Len(data) = m /\ Following(data, c, y)
      <3>1. \A i \in 1..m : data[i] = <<c, y + i>> /\ data[i] \in Item
        BY <2>a, <2>b DEF Item
      <3>2. data \in [1..m -> Item]
        BY <2>a, <2>b, <3>1
      <3>3. data \in Seq(Item) /\ Len(data) = m
        BY <2>b, <3>2, FunctionIsSeq
      <3> QED BY <3>1, <3>3 DEF Following
    <2>3. PICK sm : sm = sent'
      OBVIOUS
    <2>4. /\ sm \in [Channels \cup {"process"} -> Nat] /\ sm[c] = y + m
          /\ \A d \in Channels : d # c => sm[d] = sent[d]
      <3>1. sm = [sent EXCEPT ![c] = y + m]
        BY <1>1, <1>5, <2>3, <2>b
      <3>2. y + m \in Nat
        BY <2>b
      <3> QED BY <1>2, <3>1, <3>2
    <2>5. WriteData(c, data, FALSE)
      BY <1>1, <1>5, <2>a
    <2>6. PICK t : SetStream(t, events) /\ Input(t, taken, sm) /\ SameRefs(vs, t)
      <3>1. /\ vs.cl[c].writes # <<>> \/ ~vs.eos_inp
            /\ Following(data, c, sent[c]) /\ sm[c] = sent[c] + Len(data) /\ FALSE \in BOOLEAN
        BY <1>5, <2>2, <2>4, <2>b
      <3> QED BY <1>1, <1>2, <1>3, <2>2, <2>4, <2>5, <3>1, WriteDataIs
    <2>7. SetStream(t, events) /\ Input(t, taken, sent') /\ sent' \in [Channels \cup {"process"} -> Nat]
      BY <2>3, <2>4, <2>6
    <2> QED BY <1>1, <2>6, <2>7, WrittenIs
  <1> QED BY <1>4, <1>5

LEMMA EosStep ==
  ASSUME StInv, NEW c \in Channels, Eos(c)
  PROVE  StInv'
  <1>1. /\ access = "write" /\ c \in ToSet(vs.clients) /\ access' = access /\ owner' = owner /\ taken' = taken
        /\ sent' = sent /\ WriteData(c, <<>>, TRUE)
    BY DEF Eos, Connected
  <1>2. /\ Live(vs) /\ Sound(vs, taken, sent) /\ taken \in [Channels -> Nat]
        /\ sent \in [Channels \cup {"process"} -> Nat]
    BY <1>1, ConnectedIs
  <1>3. Input(vs, taken, sent) /\ \A d \in Channels : sent[d] \in Nat
    BY <1>1, <1>2 DEF Sound, Input
  <1>0. <<>> \in Seq(Item) /\ TRUE \in BOOLEAN
    OBVIOUS
  <1>4. CASE vs.cl[c].writes = <<>> /\ vs.eos_inp
    <2>1. PICK t : t = AddData(vs, <<>>, TRUE)
      OBVIOUS
    <2>2. Input(t, taken, sent) /\ SameRefs(vs, t)
      BY <1>0, <1>1, <1>3, <1>4, <2>1, AddNothing
    <2>3. SetStream(t, events)
      <3>1. PICK left : left = SubSeq(<<>>, t.pos - vs.pos + 1, Len(<<>>))
        OBVIOUS
      <3>2. t.pos - vs.pos + 1 = 1 /\ Len(<<>>) = 0
        <4>1. t.pos = vs.pos
          BY <1>0, <1>1, <1>3, <1>4, <2>1, AddNothing
        <4>2. vs.pos \in Nat
          BY <1>2 DEF Live, Stream
        <4> QED BY <4>1, <4>2
      <3>3. left = <<>>
        BY <3>1, <3>2
      <3>4. SetStream(IF left = <<>> THEN t
                      ELSE [t EXCEPT !.cl[c].writes = <<[data |-> left, eos |-> FALSE]>>], events)
        BY <1>1, <1>4, <2>1, <3>1 DEF WriteData
      <3> QED BY <3>3, <3>4
    <2> QED BY <1>1, <1>2, <2>2, <2>3, WrittenIs
  <1>5. CASE ~(vs.cl[c].writes = <<>> /\ vs.eos_inp)
    <2>1. PICK data : data = <<>>
      OBVIOUS
    <2>2. data \in Seq(Item) /\ Len(data) = 0 /\ Following(data, c, sent[c]) /\ sent[c] = sent[c] + Len(data)
      BY <1>0, <1>3, <2>1 DEF Following
    <2>3. WriteData(c, data, TRUE)
      BY <1>1, <2>1
    <2>4. PICK sm : sm = sent'
      OBVIOUS
    <2>5. sm[c] = sent[c] + Len(data) /\ \A d \in Channels : d # c => sm[d] = sent[d]
      BY <1>1, <2>2, <2>4
    <2>6. PICK t : SetStream(t, events) /\ Input(t, taken, sm) /\ SameRefs(vs, t)
      <3>1. vs.cl[c].writes # <<>> \/ ~vs.eos_inp
        BY <1>5
      <3> QED BY <1>0, <1>1, <1>2, <1>3, <2>2, <2>3, <2>5, <3>1, WriteDataIs
    <2>7. SetStream(t, events) /\ Input(t, taken, sent') /\ sent' \in [Channels \cup {"process"} -> Nat]
      BY <1>1, <1>2, <2>4, <2>6
    <2> QED BY <1>1, <2>6, <2>7, WrittenIs
  <1> QED BY <1>4, <1>5

-----------------------------------------------------------------------------
(* The invariant holds in every state. *)

LEMMA SetToSeqIs ==
  ASSUME NEW S, IsFiniteSet(S)
  PROVE  /\ SetToSeq(S) \in Seq(S) /\ ToSet(SetToSeq(S)) = S /\ Distinct(SetToSeq(S))
         /\ Len(SetToSeq(S)) = Cardinality(S)
  <1>1. PICK n \in Nat : n = Cardinality(S)
    BY FS_CardinalityType
  <1>2. PICK g \in Bijection(1..n, S) : TRUE
    BY <1>1, FS_CardinalityType DEF ExistsBijection
  <1>3. g \in [1..n -> S] /\ IsInjective(g)
    BY <1>2 DEF Bijection, Injection, Surjection, IsInjective
  <1>4. PICK f : f = SetToSeq(S)
    OBVIOUS
  <1>5. f = CHOOSE h \in [1..n -> S] : IsInjective(h)
    BY <1>1, <1>4 DEF SetToSeq
  <1>6. f \in [1..n -> S] /\ IsInjective(f)
    BY <1>3, <1>5
  <1>7. f \in Seq(S) /\ Len(f) = n /\ DOMAIN f = 1..n
    BY <1>6
  <1>8. ToSet(f) = S
    <2>1. f \in Injection(1..n, S)
      BY <1>6 DEF Injection, IsInjective
    <2>2. Cardinality(1..n) = Cardinality(S)
      BY <1>1, FS_Interval
    <2>3. f \in Surjection(1..n, S)
      BY <2>1, <2>2, FS_Injection
    <2> QED BY <1>6, <1>7, <2>3 DEF Surjection, ToSet
  <1>9. Distinct(f)
    BY <1>6, <1>7 DEF Distinct, IsInjective
  <1> QED BY <1>1, <1>4, <1>7, <1>8, <1>9

LEMMA InitIs ==
  ASSUME StInit
  PROVE  StInv
  <1>1. PICK S \in SUBSET Channels :
         vs = [Empty EXCEPT !.clients = SetToSeq(S), !.ref_cnt = 1 + Cardinality(S),
                            !.cl = [c \in Channels |->
                                      IF c \in S THEN [NoClient EXCEPT !.got = <<0>>] ELSE NoClient]]
    BY DEF StInit
  <1>2. PICK K : K = SetToSeq(S)
    OBVIOUS
  <1>3. PICK m \in Nat : m = Cardinality(S) /\ Len(K) = m
    <2>1. IsFiniteSet(S)
      BY FS_Subset, StreamsAssumption
    <2> QED BY <1>2, <2>1, SetToSeqIs, FS_CardinalityType
  <1>4. K \in Seq(S) /\ K \in Seq(Channels) /\ ToSet(K) = S /\ Distinct(K)
    <2>1. IsFiniteSet(S)
      BY FS_Subset, StreamsAssumption
    <2>2. K \in Seq(S) /\ ToSet(K) = S /\ Distinct(K)
      BY <1>2, <2>1, SetToSeqIs
    <2> QED BY <2>2
  <1>5. PICK x : x = [NoClient EXCEPT !.pos = 0, !.got = <<0>>]
    OBVIOUS
  <1>6. /\ x \in Client /\ x.pos = 0 /\ x.reads = <<>> /\ x.writes = <<>> /\ GotUpTo(x.got, 0)
        /\ NoClient \in Client /\ NoClient.reads = <<>> /\ NoClient.writes = <<>>
    BY <1>5, NewClient
  <1>7. x = [NoClient EXCEPT !.got = <<0>>]
    <2>1. PICK g, N : g = <<0>> /\ N = NoClient
      OBVIOUS
    <2>2. N = [pos |-> 0, reads |-> <<>>, writes |-> <<>>, got |-> <<>>]
      BY <2>1 DEF NoClient
    <2>3. x = [pos |-> 0, reads |-> <<>>, writes |-> <<>>, got |-> g]
      <3>1. x = [N EXCEPT !.pos = 0, !.got = g]
        BY ONLY <1>5, <2>1
      <3> QED BY ONLY <2>2, <3>1
    <2>4. [N EXCEPT !.got = g] = [pos |-> 0, reads |-> <<>>, writes |-> <<>>, got |-> g]
      BY <2>2
    <2> QED BY <2>1, <2>3, <2>4
  <1>8. PICK f : f = [c \in Channels |-> IF c \in S THEN x ELSE NoClient]
    OBVIOUS
  <1>9. /\ f \in [Channels -> Client] /\ \A c \in S : f[c] = x
        /\ \A c \in Channels : c \notin S => f[c] = NoClient
    BY <1>6, <1>8
  <1>10. PICK n \in Nat : n = 1 + m
    OBVIOUS
  <1>11. vs = [Empty EXCEPT !.clients = K, !.ref_cnt = n, !.cl = f]
    BY <1>1, <1>2, <1>3, <1>7, <1>8, <1>10
  <1>12. PICK b : b = [i \in 0..SBufSize |-> 0]
    OBVIOUS
  <1>13. /\ vs.pos = 0 /\ vs.inp = 0 /\ vs.out = 0 /\ vs.buf = b /\ vs.eos_inp = FALSE
         /\ vs.ref_cnt = n /\ vs.deleted = FALSE /\ vs.freed = FALSE /\ vs.queue = <<>>
         /\ vs.clients = K /\ vs.cl = f
    BY <1>11, <1>12 DEF Empty
  <1>14. vs \in Stream
    <2>1. b \in [0..SBufSize -> Mark] /\ 0 \in 0..SBufSize /\ <<>> \in Seq(Event) /\ {} \in SUBSET Event
      BY <1>12, BufLenIs DEF Mark
    <2>2. vs = [pos |-> 0, inp |-> 0, out |-> 0, buf |-> b, eos_inp |-> FALSE, eos_out |-> FALSE,
                ref_cnt |-> n, deleted |-> FALSE, freed |-> FALSE, posted |-> {}, queue |-> <<>>,
                clients |-> K, cl |-> f]
      BY <1>11, <1>12 DEF Empty
    <2> QED BY <1>4, <1>9, <2>1, <2>2 DEF Stream
  <1>15. RefsOK(vs)
    BY <1>3, <1>4, <1>9, <1>10, <1>13 DEF RefsOK, Distinct
  <1>16. \A c \in Channels : f[c].reads = <<>> /\ f[c].writes = <<>>
    BY <1>6, <1>9
  <1>17. ReadsWait(vs)
    BY <1>13, <1>16 DEF ReadsWait
  <1>18. Used(vs) = 0 /\ Len(Unread(vs)) = 0 /\ Unread(vs) = <<>>
    <2>1. vs.inp \in 0..SBufSize /\ vs.out \in 0..SBufSize
      BY <1>14 DEF Stream
    <2>2. Used(vs) = Behind(0, 0) /\ Len(Unread(vs)) = Used(vs)
      BY <1>13, <2>1, UnreadIs
    <2>3. Used(vs) = 0
      BY <2>2 DEF Behind
    <2>4. Unread(vs) \in Seq(Mark)
      BY <1>14, UnreadType
    <2> QED BY <2>2, <2>3, <2>4
  <1>19. ReadOK(vs)
    <2>1. RingRead(vs)
      BY <1>13, <1>18 DEF RingRead
    <2>2. ASSUME NEW c \in S PROVE ReaderOK(0, 0, f[c])
      BY <1>6, <1>9 DEF ReaderOK
    <2> QED BY <1>4, <1>13, <1>18, <2>1, <2>2 DEF ReadOK
  <1>20. /\ access \in {"read", "write"} /\ events = <<>>
         /\ sent = [y \in Channels \cup {"process"} |-> 0] /\ taken = [c \in Channels |-> 0]
         /\ owner = [buf |-> <<>>, eos |-> FALSE, eof |-> FALSE, req_posted |-> (access = "read"),
                     delayed |-> FALSE, exited |-> FALSE, freed |-> FALSE]
    BY StreamsAssumption DEF StInit
  <1>21. WriteOK(vs, taken, sent)
    <2>1. ASSUME NEW c \in Channels
          PROVE  WriterOK(Unread(vs), vs.cl[c].writes, vs.eos_inp, c, taken[c], sent[c])
      <3>1. WriterOK(<<>>, <<>>, FALSE, c, 0, 0)
        BY WriterInit
      <3>2. taken[c] = 0 /\ sent[c] = 0 /\ vs.cl[c].writes = <<>>
        BY <1>13, <1>16, <1>20
      <3> QED BY <1>13, <1>18, <3>1, <3>2
    <2>2. <<>> \in Seq(Item)
      OBVIOUS
    <2> QED BY <1>13, <1>18, <2>1, <2>2 DEF WriteOK
  <1>22. Sound(vs, taken, sent)
    BY <1>14, <1>15, <1>17, <1>19, <1>21 DEF Sound
  <1>23. EventsOK(vs, events)
    BY <1>10, <1>13, <1>20 DEF EventsOK, NoDelete
  <1>24. OwnerOK(vs, owner, sent["process"])
    <2>1. PICK e \in BOOLEAN : e = (access = "read")
      OBVIOUS
    <2>2. owner = [buf |-> <<>>, eos |-> FALSE, eof |-> FALSE, req_posted |-> e,
                   delayed |-> FALSE, exited |-> FALSE, freed |-> FALSE]
      BY <1>20, <2>1
    <2>3. <<>> \in Seq(Mark)
      OBVIOUS
    <2>4. owner \in Owner /\ owner.buf = <<>> /\ owner.freed = FALSE
      BY <2>2, <2>3 DEF Owner
    <2>5. sent["process"] = 0
      BY <1>20
    <2>6. HoldsRest(vs, owner, 0)
      BY <1>13, <2>4 DEF HoldsRest
    <2> QED BY <1>13, <2>4, <2>5, <2>6 DEF OwnerOK
  <1>25. /\ events \in Seq(Event) /\ taken \in [Channels -> Nat]
         /\ sent \in [Channels \cup {"process"} -> Nat]
    BY <1>20
  <1> QED BY <1>13, <1>20, <1>22, <1>23, <1>24, <1>25 DEF StInv

LEMMA NextIs ==
  ASSUME StInv, [StNext]_vars
  PROVE  StInv'
  <1>1. CASE StreamEvent
    BY <1>1, StreamEventStep
  <1>2. CASE ReadOutputDone
    BY <1>2, ReadOutputDoneStep
  <1>3. CASE PostOutReadReq
    BY <1>3, PostOutReadReqStep
  <1>4. CASE WriteInputDone
    BY <1>4, WriteInputDoneStep
  <1>5. CASE ProcessExited
    BY <1>5, ProcessExitedStep
  <1>6. ASSUME NEW c \in Channels, Connect(c) PROVE StInv'
    BY <1>6, ConnectStep
  <1>7. ASSUME NEW c \in Channels, Disconnect(c) PROVE StInv'
    BY <1>7, DisconnectStep
  <1>8. ASSUME NEW c \in Channels, Eos(c) PROVE StInv'
    BY <1>8, EosStep
  <1>9. ASSUME NEW c \in Channels, NEW n \in 1..PBufSize, Read(c, n) PROVE StInv'
    BY <1>9, ReadStep
  <1>10. ASSUME NEW c \in Channels, NEW n \in 1..PBufSize, Write(c, n) PROVE StInv'
    BY <1>10, WriteStep
  <1>11. CASE UNCHANGED vars
    <2>1. /\ access' = access /\ vs' = vs /\ events' = events /\ owner' = owner /\ sent' = sent
          /\ taken' = taken
      BY <1>11 DEF vars
    <2>2. Sound(vs, taken, sent)'
      BY <2>1 DEF StInv, Sound, ReadsWait, RefsOK, ReadOK, RingRead, WriteOK, Used, Unread
    <2>3. OwnerOK(vs, owner, sent["process"])'
      BY <2>1 DEF StInv, OwnerOK, HoldsRest
    <2> QED BY <2>1, <2>2, <2>3 DEF StInv, EventsOK
  <1> QED BY <1>1, <1>2, <1>3, <1>4, <1>5, <1>6, <1>7, <1>8, <1>9, <1>10, <1>11 DEF StNext

\* The inductive invariant: the ring, the pending requests and the positions of the clients
\* account for every byte, the references for every client and the owner, and the events for
\* the deletion (streamsservice.c and the callbacks of processes.c).
THEOREM StInvCorrect == StSpec => []StInv
  <1>1. StInit => StInv
    BY InitIs
  <1>2. StInv /\ [StNext]_vars => StInv'
    BY NextIs
  <1> QED BY <1>1, <1>2, PTL DEF StSpec

\* Every client of an output stream gets every byte from where it connected, once and in order,
\* whatever the others read (advance_stream_buffer, send_read_reply, virtual_stream_add_data).
THEOREM ReadersInOrderCorrect == StSpec => []ReadersInOrder
  <1>1. StInv => ReadersInOrder
    <2> SUFFICES ASSUME StInv, access = "read", NEW c \in ToSet(vs.clients)
                 PROVE  LET got == vs.cl[c].got IN
                        /\ \A i \in DOMAIN got : got[i] = got[1] + i - 1
                        /\ got[Len(got)] = vs.cl[c].pos
      BY DEF ReadersInOrder
    <2>1. vs \in Stream /\ ReadOK(vs)
      BY DEF StInv, Sound
    <2>2. c \in Channels
      BY <2>1 DEF Stream, ToSet
    <2>3. vs.cl[c] \in Client
      BY <2>1, <2>2 DEF Stream
    <2>4. PICK got \in Seq(Mark) : got = vs.cl[c].got /\ DOMAIN got = 1..Len(got)
      BY <2>3 DEF Client
    <2>5. GotUpTo(got, vs.cl[c].pos)
      BY <2>1, <2>4 DEF ReadOK, ReaderOK
    <2> QED BY <2>4, <2>5 DEF GotUpTo
  <1> QED BY <1>1, StInvCorrect, PTL

\* The bytes of c in the ring and in the requests of c are the next that the process gets.
InTheirOrder(ring, writes, u, eos, c) ==
    /\ \A i \in 1..u : ring[i][1] = c => ring[i] = <<c, taken[c] + Bytes(ring, c)[i]>>
    /\ \A k \in DOMAIN writes : \A i \in DOMAIN writes[k].data :
         writes[k].data[i] = <<c, taken[c] + Bytes(ring, c)[u] + Waiting(writes)[k - 1] + i>>
    /\ ~eos => sent[c] = taken[c] + Bytes(ring, c)[u] + Waiting(writes)[Len(writes)]

\* The process gets the bytes of every channel in the order they were written and each once,
\* with requests that wait and go on as the process reads (virtual_stream_write,
\* virtual_stream_get_data).
THEOREM WritersInOrderCorrect == StSpec => []WritersInOrder
  <1>1. StInv => WritersInOrder
    <2>1. ASSUME StInv, access = "write", NEW c \in Channels
          PROVE  LET ring == [i \in 1..Used(vs) |-> vs.buf[(vs.out + i - 1) % BufLen]]
                     writes == vs.cl[c].writes
                     put == taken[c] + Bytes(ring, c)[Used(vs)]
                 IN  /\ \A i \in 1..Used(vs) :
                           ring[i][1] = c => ring[i] = <<c, taken[c] + Bytes(ring, c)[i]>>
                     /\ \A k \in DOMAIN writes : \A i \in DOMAIN writes[k].data :
                           writes[k].data[i] = <<c, put + Waiting(writes)[k - 1] + i>>
                     /\ ~vs.eos_inp => sent[c] = put + Waiting(writes)[Len(writes)]
      <3>1. vs \in Stream /\ WriteOK(vs, taken, sent)
        BY <2>1 DEF StInv, Sound
      <3>2. PICK R, W, u : R = Unread(vs) /\ W = vs.cl[c].writes /\ u = Used(vs)
        OBVIOUS
      <3>3. WriterOK(R, W, vs.eos_inp, c, taken[c], sent[c])
        BY <3>1, <3>2 DEF WriteOK
      <3>4. Len(R) = u
        BY <3>1, <3>2, UnreadType
      <3>5. W \in Seq(Request)
        <4>1. vs.cl[c] \in Client
          BY <3>1 DEF Stream
        <4> QED BY <3>2, <4>1 DEF Client
      <3>6. \A i \in 1..u : R[i][1] = c => R[i] = <<c, taken[c] + Bytes(R, c)[i]>>
        BY <3>3, <3>4 DEF WriterOK, InRing
      <3>7. \A k \in DOMAIN W : \A i \in DOMAIN W[k].data :
              W[k].data[i] = <<c, (taken[c] + Bytes(R, c)[u]) + Waiting(W)[k - 1] + i>>
        <4> SUFFICES ASSUME NEW k \in DOMAIN W, NEW i \in DOMAIN W[k].data
                     PROVE  W[k].data[i] = <<c, (taken[c] + Bytes(R, c)[u]) + Waiting(W)[k - 1] + i>>
          OBVIOUS
        <4>1. k \in 1..Len(W)
          BY <3>5
        <4>2. W[k] \in Request
          BY <3>5, <4>1
        <4>3. i \in 1..Len(W[k].data)
          BY <4>2 DEF Request
        <4> QED BY <3>3, <3>4, <4>1, <4>3 DEF WriterOK
      <3>8. ~vs.eos_inp => sent[c] = (taken[c] + Bytes(R, c)[u]) + Waiting(W)[Len(W)]
        BY <3>3, <3>4 DEF WriterOK
      <3>9. R = [i \in 1..u |-> vs.buf[(vs.out + i - 1) % BufLen]]
        BY <3>2 DEF Unread
      <3>10. InTheirOrder(R, W, u, vs.eos_inp, c)
        BY <3>6, <3>7, <3>8 DEF InTheirOrder
      <3>11. InTheirOrder([i \in 1..Used(vs) |-> vs.buf[(vs.out + i - 1) % BufLen]], vs.cl[c].writes,
                          Used(vs), vs.eos_inp, c)
        BY Zenon, <3>2, <3>9, <3>10
      <3> QED BY Zenon, <3>11 DEF InTheirOrder
    <2> QED BY <2>1 DEF WritersInOrder
  <1> QED BY <1>1, StInvCorrect, PTL

\* A read waits only while there is nothing to read, the references are those of the clients
\* and of the owner, and the last event of a stream frees it (virtual_stream_read,
\* delete_client, delete_stream).
THEOREM NothingLeftCorrect == StSpec => []NothingLeft
  <1>1. StInv => NothingLeft
    <2> SUFFICES ASSUME StInv PROVE NothingLeft
      OBVIOUS
    <2>1. /\ vs \in Stream /\ RefsOK(vs) /\ ReadsWait(vs) /\ EventsOK(vs, events)
          /\ OwnerOK(vs, owner, sent["process"])
      BY DEF StInv, Sound
    <2>2. \A c \in Channels : vs.cl[c].reads # <<>> => vs.cl[c].pos = vs.pos /\ ~vs.eos_inp
      BY <2>1 DEF ReadsWait
    <2>3. vs.ref_cnt = Len(vs.clients) + (IF vs.deleted THEN 0 ELSE 1)
      BY <2>1 DEF RefsOK
    <2>4. ASSUME vs.freed PROVE vs.deleted /\ vs.clients = <<>> /\ events = <<>>
      <3>1. vs.ref_cnt \in Nat /\ vs.clients \in Seq(Channels) /\ Len(vs.clients) \in Nat
        BY <2>1 DEF Stream
      <3>2. vs.ref_cnt = 0
        BY <2>1, <2>4, <3>1 DEF EventsOK
      <3>3. events = <<>>
        BY <2>1, <2>4, <3>2 DEF EventsOK
      <3>4. vs.deleted /\ Len(vs.clients) = 0
        <4>1. PICK n \in Nat, m \in Nat : n = Len(vs.clients) /\ m = IF vs.deleted THEN 0 ELSE 1
          BY <3>1
        <4>2. n + m = 0
          BY <2>3, <3>2, <4>1
        <4>3. n = 0 /\ m = 0
          BY <4>2
        <4> QED BY <4>1, <4>3
      <3> QED BY <3>1, <3>3, <3>4
    <2>5. owner.freed => vs.deleted
      BY <2>1 DEF OwnerOK
    <2> QED BY <2>2, <2>3, <2>4, <2>5 DEF NothingLeft
  <1> QED BY <1>1, StInvCorrect, PTL

=============================================================================
