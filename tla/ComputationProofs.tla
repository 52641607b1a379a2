------------------------- MODULE ComputationProofs -------------------------
(***************************************************************************)
(* Proofs about the chunks of a document and their vectors, for any pages, *)
(* target, overlap and batch; about the login limiter, for any threads and *)
(* bounds; about a question's way from the searches to the answer, for any *)
(* rankings, visible rows and replies; and about the metrics of a case,    *)
(* for any ranking, judgments and grades.  The lemmas on lists, sums and   *)
(* numbers in order come first.                                            *)
(***************************************************************************)
EXTENDS Embeddings, RateLimiter, Answers, Metrics,
        FiniteSetTheorems, SequenceTheorems, WellFoundedInduction, TLAPS

-----------------------------------------------------------------------------
(* Lists, sums, numbers in order, and concatenation *)

LEMMA FunctionsAreLists ==
    ASSUME NEW N \in Nat, NEW X, NEW f \in [1 .. N -> X]
    PROVE  f \in Seq(X) /\ Len(f) = N /\ DOMAIN f = 1 .. N
OBVIOUS

LEMMA ItemOfAList ==
    ASSUME NEW X, NEW s \in Seq(X), NEW q \in DOMAIN s
    PROVE  s[q] \in X
OBVIOUS

LEMMA LeastNumber ==
    ASSUME NEW T \in SUBSET Nat, T # {}
    PROVE  \E m \in T : \A q \in T : m <= q
<1>1. PICK m \in T : \A q \in T : ~(<<q, m>> \in OpToRel(<, Nat))
  BY NatLessThanWellFounded, WFMin
<1>2. \A a, b \in Nat : a < b => <<a, b>> \in OpToRel(<, Nat)
  BY DEF OpToRel
<1>3. \A q \in T : ~(q < m)
  BY <1>1, <1>2
<1>4. \A q \in T : m \in Nat /\ q \in Nat
  OBVIOUS
<1> QED BY <1>3, <1>4

\* A function that is defined by recursion on a range of numbers exists.
Steps(N, X) == [(1 .. N) \X X -> X]
Follows(f, N, X, base, F) ==
    f \in [0 .. N -> X] /\ f[0] = base /\ \A q \in 1 .. N : f[q] = F[<<q, f[q - 1]>>]

LEMMA Recursion ==
    ASSUME NEW N \in Nat, NEW X, NEW base \in X, NEW F \in Steps(N, X)
    PROVE  \E f : Follows(f, N, X, base, F)
<1> USE DEF Steps
<1> DEFINE Upto(m) == \E f \in [0 .. m -> X] :
                        f[0] = base /\ \A q \in 1 .. m : f[q] = F[<<q, f[q - 1]>>]
           T == {m \in 0 .. N : ~Upto(m)}
<1>1. SUFFICES T = {}
  <2>1. N \in 0 .. N
    OBVIOUS
  <2>2. T = {} => Upto(N)
    BY <2>1
  <2> QED BY <2>2 DEF Follows
<1>2. SUFFICES ASSUME T # {}
               PROVE  FALSE
  OBVIOUS
<1>3. PICK m \in T : \A q \in T : m <= q
  <2>1. T \in SUBSET Nat
    OBVIOUS
  <2> HIDE DEF T
  <2> QED BY <1>2, <2>1, LeastNumber
<1>4. m # 0
  <2>1. Upto(0)
    <3> DEFINE f == [q \in 0 .. 0 |-> base]
    <3>1. f \in [0 .. 0 -> X] /\ f[0] = base /\ 1 .. 0 = {}
      OBVIOUS
    <3> QED BY <3>1
  <2> HIDE DEF Upto
  <2> QED BY <2>1
<1>5. m - 1 \in 0 .. N /\ m - 1 \notin T /\ m \in 1 .. N
  <2> HIDE DEF Upto
  <2> QED BY <1>3, <1>4
<1>6. Upto(m - 1)
  <2> HIDE DEF Upto
  <2> QED BY <1>5
<1>7. PICK f \in [0 .. m - 1 -> X] :
        f[0] = base /\ \A q \in 1 .. m - 1 : f[q] = F[<<q, f[q - 1]>>]
  BY <1>6
<1> DEFINE g == [q \in 0 .. m |-> IF q = m THEN F[<<m, f[m - 1]>>] ELSE f[q]]
<1>8. g \in [0 .. m -> X]
  <2>1. F[<<m, f[m - 1]>>] \in X
    BY <1>5, <1>7
  <2>2. \A q \in 0 .. m : q # m => q \in 0 .. m - 1
    BY <1>5
  <2> QED BY <2>1, <2>2, <1>7
<1>9. g[0] = base /\ \A q \in 1 .. m : g[q] = F[<<q, g[q - 1]>>]
  <2>1. g[0] = base
    BY <1>5, <1>7
  <2>2. \A q \in 1 .. m : g[q - 1] = f[q - 1]
    BY <1>5
  <2>3. \A q \in 1 .. m - 1 : g[q] = f[q]
    BY <1>5
  <2>4. g[m] = F[<<m, f[m - 1]>>]
    BY <1>5
  <2>5. \A q \in 1 .. m : q = m \/ q \in 1 .. m - 1
    BY <1>5
  <2> HIDE DEF g
  <2>6. ASSUME NEW q \in 1 .. m
        PROVE  g[q] = F[<<q, g[q - 1]>>]
    <3>1. CASE q = m
      BY <3>1, <2>2, <2>4
    <3>2. CASE q \in 1 .. m - 1
      BY <3>2, <2>2, <2>3, <1>7
    <3> QED BY <3>1, <3>2, <2>5
  <2> QED BY <2>1, <2>6
<1>10. Upto(m)
  BY <1>8, <1>9
<1> QED
  <2> HIDE DEF Upto
  <2> QED BY <1>3, <1>10

\* The sums of the beginnings of a sequence.
Sums(s, u) ==
    /\ u \in [0 .. Len(s) -> Nat]
    /\ u[0] = 0
    /\ \A q \in 1 .. Len(s) : u[q] = u[q - 1] + s[q]

LEMMA SumsAreUnique ==
    ASSUME NEW s \in Seq(Nat), NEW t \in Seq(Nat), NEW u, NEW v, Sums(s, u), Sums(t, v),
           NEW N \in Nat, N <= Len(s), N <= Len(t), \A q \in 1 .. N : s[q] = t[q]
    PROVE  u[N] = v[N]
<1> DEFINE T == {q \in 0 .. N : u[q] # v[q]}
<1>1. SUFFICES ASSUME T # {}
               PROVE  FALSE
  <2>1. N \in 0 .. N
    OBVIOUS
  <2> QED BY <2>1
<1>2. PICK m \in T : \A q \in T : m <= q
  <2>1. T \in SUBSET Nat
    OBVIOUS
  <2> HIDE DEF T
  <2> QED BY <1>1, <2>1, LeastNumber
<1>3. m \in 1 .. N
  BY <1>2 DEF Sums
<1>4. m - 1 \in 0 .. N /\ m - 1 \notin T
  BY <1>2, <1>3
<1>5. u[m - 1] = v[m - 1]
  BY <1>4
<1>6. u[m] = u[m - 1] + s[m] /\ v[m] = v[m - 1] + t[m] /\ s[m] = t[m]
  BY <1>3 DEF Sums
<1> QED BY <1>2, <1>5, <1>6

LEMMA TotalIsTheLastSum ==
    ASSUME NEW s \in Seq(Nat)
    PROVE  \E u : Sums(s, u) /\ Total(s) = u[Len(s)]
<1> DEFINE N == Len(s)
           F == [x \in (1 .. N) \X Nat |-> x[2] + s[x[1]]]
<1>1. N \in Nat /\ F \in [(1 .. N) \X Nat -> Nat]
  OBVIOUS
<1>2. PICK f : Follows(f, N, Nat, 0, F)
  <2>1. F \in Steps(N, Nat) /\ 0 \in Nat
    BY <1>1 DEF Steps
  <2> HIDE DEF N, F
  <2> QED BY <1>1, <2>1, Recursion
<1>3. \A q \in 1 .. N : f[q] = f[q - 1] + s[q]
  <2> TAKE q \in 1 .. N
  <2>1. q - 1 \in 0 .. N
    OBVIOUS
  <2>2. <<q, f[q - 1]>> \in (1 .. N) \X Nat
    BY <2>1, <1>2 DEF Follows
  <2> QED BY <1>2, <2>2 DEF Follows
<1> DEFINE Step(g) == [q \in 0 .. N |-> IF q = 0 THEN 0 ELSE g[q - 1] + s[q]]
           c == CHOOSE g : g = Step(g)
<1>4. f = Step(f)
  BY <1>2, <1>3 DEF Follows
<1>5. c = Step(c)
  <2> HIDE DEF Step
  <2> QED BY <1>4
<1>6. c[0] = 0 /\ DOMAIN c = 0 .. N /\ \A q \in 1 .. N : c[q] = c[q - 1] + s[q]
  <2>1. /\ Step(c)[0] = 0 /\ DOMAIN Step(c) = 0 .. N
        /\ \A q \in 1 .. N : Step(c)[q] = c[q - 1] + s[q]
    <3> HIDE DEF c
    <3> QED BY <1>1
  <2> HIDE DEF c, Step
  <2> QED BY <1>5, <2>1
<1>7. \A q \in 0 .. N : c[q] = f[q]
  <2> DEFINE T == {q \in 0 .. N : c[q] # f[q]}
  <2> HIDE DEF c
  <2>1. SUFFICES ASSUME T # {}
                 PROVE  FALSE
    OBVIOUS
  <2>2. PICK m \in T : \A q \in T : m <= q
    <3>1. T \in SUBSET Nat
      OBVIOUS
    <3> HIDE DEF T
    <3> QED BY <2>1, <3>1, LeastNumber
  <2>3. m \in 1 .. N
    BY <2>2, <1>2, <1>6 DEF Follows
  <2>4. m - 1 \in 0 .. N /\ m - 1 \notin T
    BY <2>2, <2>3
  <2>5. c[m - 1] = f[m - 1]
    BY <2>4
  <2> QED BY <2>2, <2>3, <2>5, <1>3, <1>6
<1>8. Total(s) = c[N]
  BY DEF Total
<1>9. Sums(s, f)
  BY <1>2, <1>3 DEF Sums, Follows
<1>10. N \in 0 .. N
  BY <1>1
<1> HIDE DEF c
<1> QED BY <1>7, <1>8, <1>9, <1>10

LEMMA TotalOfSums ==
    ASSUME NEW s \in Seq(Nat), NEW u, Sums(s, u)
    PROVE  Total(s) = u[Len(s)] /\ Total(s) \in Nat
<1>1. PICK v : Sums(s, v) /\ Total(s) = v[Len(s)]
  BY TotalIsTheLastSum
<1>2. Len(s) \in Nat /\ Len(s) \in 0 .. Len(s)
  OBVIOUS
<1>3. u[Len(s)] = v[Len(s)]
  BY <1>1, <1>2, SumsAreUnique
<1> QED BY <1>1, <1>2, <1>3 DEF Sums

LEMMA TotalGrows ==
    ASSUME NEW s \in Seq(Nat), NEW t \in Seq(Nat), Len(t) = Len(s) + 1,
           \A q \in 1 .. Len(s) : t[q] = s[q]
    PROVE  Total(t) = Total(s) + t[Len(t)]
<1>1. PICK u : Sums(s, u) /\ Total(s) = u[Len(s)]
  BY TotalIsTheLastSum
<1>2. PICK v : Sums(t, v) /\ Total(t) = v[Len(t)]
  BY TotalIsTheLastSum
<1>3. Len(s) \in Nat /\ Len(t) \in 1 .. Len(t) /\ Len(t) - 1 = Len(s)
  OBVIOUS
<1>4. u[Len(s)] = v[Len(s)]
  <2>1. Len(s) <= Len(s) /\ Len(s) <= Len(t)
    OBVIOUS
  <2>2. Sums(s, u) /\ Sums(t, v) /\ \A q \in 1 .. Len(s) : s[q] = t[q]
    BY <1>1, <1>2
  <2> QED BY <1>3, <2>1, <2>2, SumsAreUnique
<1>5. v[Len(t)] = v[Len(t) - 1] + t[Len(t)]
  BY <1>2, <1>3 DEF Sums
<1> QED BY <1>1, <1>2, <1>3, <1>4, <1>5

LEMMA TotalOfNone ==
    ASSUME NEW s \in Seq(Nat), Len(s) = 0
    PROVE  Total(s) = 0
BY TotalIsTheLastSum DEF Sums

\* A sum is linear.
LEMMA TotalIsLinear ==
    ASSUME NEW s \in Seq(Nat), NEW w \in Seq(Nat), NEW t \in Seq(Nat), NEW g \in Nat,
           Len(w) = Len(s), Len(t) = Len(s),
           \A q \in 1 .. Len(s) : t[q] = s[q] + g * w[q]
    PROVE  Total(t) = Total(s) + g * Total(w)
<1>1. PICK u : Sums(s, u) /\ Total(s) = u[Len(s)]
  BY TotalIsTheLastSum
<1>2. PICK v : Sums(w, v) /\ Total(w) = v[Len(w)]
  BY TotalIsTheLastSum
<1> DEFINE x == [q \in 0 .. Len(s) |-> u[q] + g * v[q]]
<1>3. \A q \in 0 .. Len(s) : u[q] \in Nat /\ v[q] \in Nat
  BY <1>1, <1>2 DEF Sums
<1>4. \A q \in 0 .. Len(s) : g * v[q] \in Nat
  BY <1>3
<1>5. x \in [0 .. Len(t) -> Nat]
  BY <1>3, <1>4
<1>6. x[0] = 0
  <2>1. u[0] = 0 /\ v[0] = 0 /\ 0 \in 0 .. Len(s)
    BY <1>1, <1>2 DEF Sums
  <2> QED BY <2>1
<1>7. ASSUME NEW q \in 1 .. Len(t)
      PROVE  x[q] = x[q - 1] + t[q]
  <2>1. q \in 1 .. Len(s) /\ q - 1 \in 0 .. Len(s) /\ q \in 0 .. Len(s)
    OBVIOUS
  <2>2. u[q] = u[q - 1] + s[q] /\ v[q] = v[q - 1] + w[q]
    BY <1>1, <1>2, <2>1 DEF Sums
  <2>3. t[q] = s[q] + g * w[q] /\ s[q] \in Nat /\ w[q] \in Nat
    BY <2>1
  <2>4. /\ \A a, b \in Nat : g * (a + b) = g * a + g * b
        /\ \A a \in Nat : g * a \in Nat
    OBVIOUS
  <2>5. v[q - 1] \in Nat /\ u[q - 1] \in Nat
    BY <1>3, <2>1
  <2>6. g * v[q] = g * v[q - 1] + g * w[q]
    <3>1. g * v[q] = g * (v[q - 1] + w[q])
      BY <2>2
    <3>2. g * (v[q - 1] + w[q]) = g * v[q - 1] + g * w[q]
      BY <2>3, <2>4, <2>5, Zenon
    <3> QED BY <3>1, <3>2, Zenon
  <2>7. g * w[q] \in Nat /\ g * v[q - 1] \in Nat
    BY <2>3, <2>4, <2>5, Zenon
  <2>8. x[q] = u[q] + g * v[q] /\ x[q - 1] = u[q - 1] + g * v[q - 1]
    BY <2>1, Zenon
  <2> HIDE DEF x
  <2>9. \A a, b, c, d \in Nat : (a + b) + (c + d) = (a + c) + (b + d)
    OBVIOUS
  <2>10. x[q] = (u[q - 1] + s[q]) + (g * v[q - 1] + g * w[q])
    BY <2>2, <2>6, <2>8, Zenon
  <2>11. x[q] = (u[q - 1] + g * v[q - 1]) + (s[q] + g * w[q])
    <3> DEFINE a == u[q - 1]  b == s[q]  c == g * v[q - 1]  d == g * w[q]
    <3>1. a \in Nat /\ b \in Nat /\ c \in Nat /\ d \in Nat /\ x[q] = (a + b) + (c + d)
      BY <2>3, <2>5, <2>7, <2>10, Zenon
    <3> HIDE DEF a, b, c, d
    <3>2. x[q] = (a + c) + (b + d)
      BY <2>9, <3>1
    <3> QED BY <3>2, Zenon DEF a, b, c, d
  <2> QED BY <2>3, <2>8, <2>11, Zenon
<1>8. Sums(t, x)
  BY <1>5, <1>6, <1>7 DEF Sums
<1>9. Total(t) = x[Len(t)]
  <2> HIDE DEF x
  <2> QED BY <1>8, TotalOfSums
<1> QED BY <1>1, <1>2, <1>9

\* A sum of terms none of which is greater is not greater, and is less when a
\* term is.
LEMMA TotalIsMonotone ==
    ASSUME NEW s \in Seq(Nat), NEW t \in Seq(Nat), Len(t) = Len(s),
           \A q \in 1 .. Len(s) : s[q] <= t[q]
    PROVE  /\ Total(s) \in Nat /\ Total(t) \in Nat /\ Total(s) <= Total(t)
           /\ \A q \in 1 .. Len(s) : s[q] < t[q] => Total(s) < Total(t)
<1> DEFINE d == [q \in 1 .. Len(s) |-> t[q] - s[q]]
<1>1. d \in Seq(Nat) /\ Len(d) = Len(s)
  <2>1. d \in [1 .. Len(s) -> Nat]
    OBVIOUS
  <2>2. Len(s) \in Nat
    OBVIOUS
  <2> HIDE DEF d
  <2> QED BY <2>1, <2>2, FunctionsAreLists
<1>2. PICK one \in Nat : one = 1
  OBVIOUS
<1>3. PICK u : Sums(s, u) /\ Total(s) = u[Len(s)]
  BY TotalIsTheLastSum
<1>4. PICK v : Sums(d, v) /\ Total(d) = v[Len(d)]
  BY <1>1, TotalIsTheLastSum
<1>5. Total(s) \in Nat /\ Total(d) \in Nat
  BY <1>1, <1>3, <1>4, TotalOfSums
<1>6. Total(t) = Total(s) + Total(d)
  <2>1. \A q \in 1 .. Len(s) : t[q] = s[q] + one * d[q]
    BY <1>2
  <2> HIDE DEF d
  <2>2. Total(t) = Total(s) + one * Total(d)
    BY <1>1, <2>1, TotalIsLinear
  <2> QED BY <1>2, <1>5, <2>2
<1>7. ASSUME NEW q \in 1 .. Len(s), s[q] < t[q]
      PROVE  Total(d) > 0
  <2> DEFINE T == {r \in 0 .. Len(d) : r >= q /\ v[r] = 0}
  <2>1. d[q] > 0
    BY <1>7
  <2> HIDE DEF d
  <2>2. SUFFICES T = {}
    <3>1. Len(d) \in 0 .. Len(d) /\ Len(d) >= q
      BY <1>1
    <3> QED BY <1>4, <1>5, <2>2, <3>1
  <2>3. SUFFICES ASSUME T # {}
                 PROVE  FALSE
    OBVIOUS
  <2>4. PICK m \in T : \A r \in T : m <= r
    <3>1. T \in SUBSET Nat
      OBVIOUS
    <3> HIDE DEF T
    <3> QED BY <2>3, <3>1, LeastNumber
  <2>5. m \in 1 .. Len(d) /\ m - 1 \in 0 .. Len(d) /\ v[m] = 0 /\ m >= q
    BY <1>1, <2>4
  <2>6. v[m] = v[m - 1] + d[m] /\ v[m - 1] \in Nat /\ d[m] \in Nat
    <3>1. v[m] = v[m - 1] + d[m] /\ v[m - 1] \in Nat
      BY <1>4, <2>5 DEF Sums
    <3>2. d[m] \in Nat
      BY <1>1, <2>5
    <3> QED BY <3>1, <3>2
  <2>7. CASE m = q
    BY <2>1, <2>5, <2>6, <2>7
  <2>8. CASE m # q
    BY <2>4, <2>5, <2>6, <2>8
  <2> QED BY <2>7, <2>8
<1> HIDE DEF d
<1> QED BY <1>5, <1>6, <1>7

\* Noughts at the end add nothing.
LEMMA TotalOfPadded ==
    ASSUME NEW s \in Seq(Nat), NEW t \in Seq(Nat), Len(s) <= Len(t),
           \A q \in 1 .. Len(s) : t[q] = s[q],
           \A q \in 1 .. Len(t) : q > Len(s) => t[q] = 0
    PROVE  Total(t) = Total(s)
<1>1. PICK u : Sums(s, u) /\ Total(s) = u[Len(s)]
  BY TotalIsTheLastSum
<1> DEFINE x == [q \in 0 .. Len(t) |-> IF q <= Len(s) THEN u[q] ELSE u[Len(s)]]
<1>2. \A q \in 0 .. Len(s) : u[q] \in Nat
  BY <1>1 DEF Sums
<1>3. x \in [0 .. Len(t) -> Nat]
  <2>1. Len(s) \in 0 .. Len(s) /\ \A q \in 0 .. Len(t) : q <= Len(s) => q \in 0 .. Len(s)
    OBVIOUS
  <2> QED BY <1>2, <2>1
<1>4. x[0] = 0
  <2>1. u[0] = 0 /\ 0 \in 0 .. Len(t) /\ 0 <= Len(s)
    BY <1>1 DEF Sums
  <2> QED BY <2>1
<1>5. ASSUME NEW q \in 1 .. Len(t)
      PROVE  x[q] = x[q - 1] + t[q]
  <2>1. q \in 0 .. Len(t) /\ q - 1 \in 0 .. Len(t) /\ Len(s) \in Nat /\ Len(s) \in 0 .. Len(s)
    OBVIOUS
  <2>2. CASE q <= Len(s)
    <3>1. q \in 1 .. Len(s) /\ q - 1 <= Len(s)
      BY <2>1, <2>2
    <3>2. u[q] = u[q - 1] + s[q]
      BY <1>1, <3>1 DEF Sums
    <3> QED BY <2>1, <2>2, <3>1, <3>2
  <2>3. CASE q > Len(s)
    <3>1. t[q] = 0 /\ x[q] = u[Len(s)] /\ u[Len(s)] \in Nat
      BY <1>2, <2>1, <2>3
    <3>2. x[q - 1] = u[Len(s)]
      BY <2>1, <2>3
    <3> QED BY <3>1, <3>2
  <2> QED BY <2>1, <2>2, <2>3
<1>6. Sums(t, x) /\ x[Len(t)] = u[Len(s)]
  <2>1. Len(t) \in 0 .. Len(t) /\ x[Len(t)] = u[Len(s)]
    OBVIOUS
  <2> QED BY <1>3, <1>4, <1>5, <2>1 DEF Sums
<1> HIDE DEF x
<1> QED BY <1>1, <1>6, TotalOfSums

LEMMA TotalOfNoughts ==
    ASSUME NEW s \in Seq(Nat)
    PROVE  Total(s) = 0 <=> \A q \in 1 .. Len(s) : s[q] = 0
<1> DEFINE e == [q \in 1 .. 0 |-> 0]
           z == [q \in 1 .. Len(s) |-> 0]
<1>1. e \in Seq(Nat) /\ Len(e) = 0
  <2>1. e \in [1 .. 0 -> Nat] /\ 0 \in Nat
    OBVIOUS
  <2> HIDE DEF e
  <2> QED BY <2>1, FunctionsAreLists
<1>2. z \in Seq(Nat) /\ Len(z) = Len(s) /\ \A q \in 1 .. Len(s) : z[q] = 0
  <2>1. z \in [1 .. Len(s) -> Nat]
    OBVIOUS
  <2>2. \A q \in 1 .. Len(s) : z[q] = 0
    OBVIOUS
  <2> HIDE DEF z
  <2> QED BY <2>1, <2>2, FunctionsAreLists
<1> HIDE DEF e, z
<1>3. Total(z) = Total(e) /\ Total(e) = 0
  <2>1. Len(e) <= Len(z) /\ 1 .. Len(e) = {}
    BY <1>1, <1>2
  <2> QED BY <1>1, <1>2, <2>1, TotalOfPadded, TotalOfNone
<1>4. ASSUME \A q \in 1 .. Len(s) : s[q] = 0
      PROVE  Total(s) = 0
  <2>1. s = z
    BY <1>2, <1>4, SeqEqual
  <2> QED BY <1>3, <2>1
<1>5. \A q \in 1 .. Len(z) : z[q] <= s[q]
  BY <1>2
<1>6. /\ Total(s) \in Nat
      /\ \A q \in 1 .. Len(z) : z[q] < s[q] => Total(z) < Total(s)
  BY <1>2, <1>5, TotalIsMonotone
<1>7. ASSUME Total(s) = 0, NEW q \in 1 .. Len(s)
      PROVE  s[q] = 0
  <2>1. s[q] \in Nat /\ z[q] = 0 /\ q \in 1 .. Len(z)
    BY <1>2
  <2>2. ~(z[q] < s[q])
    BY <1>3, <1>6, <1>7, <2>1
  <2> QED BY <2>1, <2>2
<1> QED BY <1>4, <1>7

\* The members of a finite set of numbers, each once and in order.
LEMMA AscendingLists ==
    ASSUME NEW S \in SUBSET Nat, IsFiniteSet(S)
    PROVE  /\ Ascending(S) \in Seq(S) /\ Len(Ascending(S)) = Cardinality(S)
           /\ \A x \in S : \E r \in 1 .. Len(Ascending(S)) : Ascending(S)[r] = x
           /\ \A q, r \in 1 .. Len(Ascending(S)) : q < r => Ascending(S)[q] < Ascending(S)[r]
<1> DEFINE below(x) == {y \in S : y < x}
           N == Cardinality(S)
           f == [x \in S |-> Cardinality(below(x)) + 1]
<1>1. N \in Nat
  BY FS_CardinalityType
<1>2. ASSUME NEW x \in S
      PROVE  /\ IsFiniteSet(below(x)) /\ Cardinality(below(x)) \in Nat
             /\ Cardinality(below(x)) + 1 \in 1 .. N
  <2>1. below(x) \in SUBSET S /\ below(x) # S
    OBVIOUS
  <2> HIDE DEF below
  <2>2. IsFiniteSet(below(x)) /\ Cardinality(below(x)) <= N /\ Cardinality(below(x)) # N
    BY <2>1, FS_Subset
  <2>3. Cardinality(below(x)) \in Nat
    BY <2>2, FS_CardinalityType
  <2> QED BY <2>2, <2>3, <1>1
<1>3. ASSUME NEW x \in S, NEW z \in S, x < z
      PROVE  Cardinality(below(x)) < Cardinality(below(z))
  <2>1. below(x) \in SUBSET below(z) /\ below(x) # below(z)
    <3>1. x \in Nat /\ z \in Nat /\ \A y \in S : y \in Nat
      OBVIOUS
    <3>2. \A y \in S : y < x => y < z
      BY <1>3, <3>1
    <3>3. x \in below(z) /\ x \notin below(x)
      BY <1>3, <3>1
    <3> QED BY <3>2, <3>3
  <2> HIDE DEF below
  <2>2. Cardinality(below(x)) <= Cardinality(below(z)) /\ Cardinality(below(x)) # Cardinality(below(z))
    BY <2>1, <1>2, FS_Subset
  <2> QED BY <2>2, <1>2
<1>4. f \in Injection(S, 1 .. N)
  <2>1. f \in [S -> 1 .. N]
    BY <1>2
  <2>2. ASSUME NEW x \in S, NEW z \in S, x # z
        PROVE  f[x] # f[z]
    <3>1. x < z \/ z < x
      BY <2>2
    <3> HIDE DEF below
    <3> QED BY <3>1, <1>2, <1>3
  <2> HIDE DEF f
  <2> QED BY <2>1, <2>2 DEF Injection, IsInjective
<1>5. f \in Surjection(S, 1 .. N)
  <2>1. IsFiniteSet(1 .. N) /\ Cardinality(1 .. N) = N
    BY <1>1, FS_Interval
  <2> HIDE DEF f
  <2> QED BY <1>4, <2>1, FS_Injection
<1>6. ASSUME NEW r \in 1 .. N
      PROVE  Ascending(S)[r] \in S /\ Cardinality(below(Ascending(S)[r])) = r - 1
  <2>1. PICK x \in S : f[x] = r
    BY <1>5 DEF Surjection
  <2>2. Cardinality(below(x)) = r - 1
    <3> HIDE DEF below
    <3> QED BY <2>1, <1>2
  <2>3. Ascending(S)[r] = CHOOSE y \in S : Cardinality(below(y)) = r - 1
    BY DEF Ascending
  <2> HIDE DEF below
  <2> QED BY <2>2, <2>3
<1>7. Ascending(S) \in Seq(S) /\ Len(Ascending(S)) = N
  <2>1. Ascending(S) \in [1 .. N -> S]
    <3>1. DOMAIN Ascending(S) = 1 .. N /\ Ascending(S) = [r \in 1 .. N |-> Ascending(S)[r]]
      BY DEF Ascending
    <3> HIDE DEF N
    <3> QED BY <3>1, <1>6
  <2> HIDE DEF N
  <2> QED BY <1>1, <2>1
<1>8. ASSUME NEW x \in S
      PROVE  \E r \in 1 .. N : Ascending(S)[r] = x
  <2>1. Cardinality(below(x)) + 1 \in 1 .. N
    BY <1>2
  <2> DEFINE r == Cardinality(below(x)) + 1
             z == Ascending(S)[r]
  <2>2. z \in S /\ Cardinality(below(z)) = Cardinality(below(x))
    <3>1. r - 1 = Cardinality(below(x))
      BY <1>2
    <3> HIDE DEF r, below
    <3> QED BY <2>1, <3>1, <1>6 DEF r
  <2>3. ~(z < x) /\ ~(x < z)
    <3> HIDE DEF below, z
    <3> QED BY <2>2, <1>2, <1>3
  <2>4. z = x
    <3> HIDE DEF z
    <3> QED BY <2>2, <2>3
  <2> QED BY <2>1, <2>4
<1>9. ASSUME NEW q \in 1 .. N, NEW r \in 1 .. N, q < r
      PROVE  Ascending(S)[q] < Ascending(S)[r]
  <2> DEFINE x == Ascending(S)[q]  z == Ascending(S)[r]
  <2>1. /\ x \in S /\ z \in S
        /\ Cardinality(below(x)) = q - 1 /\ Cardinality(below(z)) = r - 1
    BY <1>6
  <2>2. x # z /\ ~(z < x)
    <3> HIDE DEF below, x, z
    <3> QED BY <2>1, <1>1, <1>3, <1>9
  <2> HIDE DEF x, z
  <2>3. x < z
    BY <2>1, <2>2
  <2> QED BY <2>3 DEF x, z
<1>10. N = Len(Ascending(S))
  BY <1>7
<1> QED
  <2> HIDE DEF N
  <2>1. \A x \in S : \E r \in 1 .. N : Ascending(S)[r] = x
    BY <1>8
  <2>2. \A q, r \in 1 .. N : q < r => Ascending(S)[q] < Ascending(S)[r]
    BY <1>9
  <2> QED BY <1>7, <1>10, <2>1, <2>2 DEF N

\* Concatenation keeps the elements and the order of their lists.
Flat(S, ss, m, s) ==
    /\ s \in Seq(S)
    /\ \A p \in 1 .. m : \A x \in Range(ss[p]) : x \in Range(s)
    /\ \A q, r \in 1 .. Len(s) : q <= r =>
         \E a, b \in 1 .. m : a <= b /\ s[q] \in Range(ss[a]) /\ s[r] \in Range(ss[b])

LEMMA FlatGrows ==
    ASSUME NEW S, NEW ss \in Seq(Seq(S)), NEW m \in Nat, NEW s, Flat(S, ss, m, s),
           m + 1 <= Len(ss)
    PROVE  Flat(S, ss, m + 1, s \o ss[m + 1])
<1> DEFINE t == ss[m + 1]
           u == s \o t
<1>1. /\ t \in Seq(S) /\ s \in Seq(S) /\ u \in Seq(S)
      /\ Len(u) = Len(s) + Len(t) /\ Len(s) \in Nat /\ Len(t) \in Nat
      /\ DOMAIN s = 1 .. Len(s) /\ DOMAIN t = 1 .. Len(t) /\ DOMAIN u = 1 .. Len(u)
      /\ \A q \in 1 .. Len(s) : u[q] = s[q]
      /\ \A q \in 1 .. Len(t) : u[Len(s) + q] = t[q]
  BY DEF Flat
<1>2. \A q \in 1 .. Len(u) : q <= Len(s) \/ q - Len(s) \in 1 .. Len(t)
  BY <1>1
<1>3. \A q \in 1 .. Len(u) : q > Len(s) => u[q] \in Range(t)
  <2> SUFFICES ASSUME NEW q \in 1 .. Len(u), q > Len(s)
               PROVE  u[q] \in Range(t)
    OBVIOUS
  <2>1. q - Len(s) \in 1 .. Len(t) /\ q = Len(s) + (q - Len(s))
    BY <1>1
  <2>2. u[q] = t[q - Len(s)]
    BY <1>1, <2>1
  <2> HIDE DEF t, u
  <2> QED BY <1>1, <2>1, <2>2 DEF Range
<1>4. ASSUME NEW p \in 1 .. m + 1, NEW x \in Range(ss[p])
      PROVE  x \in Range(u)
  <2>1. CASE p = m + 1
    <3>0. x \in Range(t)
      BY <1>4, <2>1
    <3>1. PICK q \in 1 .. Len(t) : x = t[q]
      BY <1>1, <3>0 DEF Range
    <3> HIDE DEF t, u
    <3>2. Len(s) + q \in 1 .. Len(u) /\ u[Len(s) + q] = x
      BY <1>1, <3>1
    <3> QED BY <1>1, <3>2 DEF Range
  <2>2. CASE p \in 1 .. m
    <3>0. x \in Range(s)
      BY <1>4, <2>2 DEF Flat
    <3>1. PICK q \in 1 .. Len(s) : x = s[q]
      BY <1>1, <3>0 DEF Range
    <3>2. q \in 1 .. Len(u) /\ u[q] = x
      BY <1>1, <3>1
    <3> HIDE DEF t, u
    <3> QED BY <1>1, <3>2 DEF Range
  <2> QED BY <2>1, <2>2
<1>5. ASSUME NEW q \in 1 .. Len(u), NEW r \in 1 .. Len(u), q <= r
      PROVE  \E a, b \in 1 .. m + 1 : a <= b /\ u[q] \in Range(ss[a]) /\ u[r] \in Range(ss[b])
  <2>1. CASE r <= Len(s)
    <3>1. q \in 1 .. Len(s) /\ r \in 1 .. Len(s)
      BY <1>1, <1>5, <2>1
    <3>2. PICK a \in 1 .. m, b \in 1 .. m : a <= b /\ s[q] \in Range(ss[a]) /\ s[r] \in Range(ss[b])
      BY <1>5, <3>1 DEF Flat
    <3>3. a \in 1 .. m + 1 /\ b \in 1 .. m + 1 /\ u[q] = s[q] /\ u[r] = s[r]
      BY <1>1, <3>1
    <3> HIDE DEF t, u
    <3> QED BY <3>2, <3>3
  <2>2. CASE q <= Len(s) /\ r > Len(s)
    <3>1. q \in 1 .. Len(s) /\ q <= q
      BY <1>1, <2>2
    <3>2. PICK a \in 1 .. m : s[q] \in Range(ss[a])
      BY <3>1 DEF Flat
    <3>3. /\ a \in 1 .. m + 1 /\ m + 1 \in 1 .. m + 1 /\ a <= m + 1
          /\ u[q] = s[q] /\ u[r] \in Range(ss[m + 1])
      BY <1>1, <1>3, <2>2, <3>1
    <3> HIDE DEF t, u
    <3> QED BY <3>2, <3>3
  <2>3. CASE q > Len(s)
    <3>1. r > Len(s)
      BY <1>1, <1>5, <2>3
    <3>2. u[q] \in Range(ss[m + 1]) /\ u[r] \in Range(ss[m + 1])
      BY <1>3, <2>3, <3>1
    <3>3. m + 1 \in 1 .. m + 1 /\ m + 1 <= m + 1
      OBVIOUS
    <3> HIDE DEF t, u
    <3> QED BY <3>2, <3>3
  <2> HIDE DEF t, u
  <2> QED BY <1>1, <2>1, <2>2, <2>3
<1> QED
  <2> HIDE DEF t, u
  <2>1. Flat(S, ss, m + 1, u)
    BY <1>1, <1>4, <1>5 DEF Flat
  <2> QED BY <2>1 DEF t, u

LEMMA FlatStarts ==
    ASSUME NEW S, NEW ss \in Seq(Seq(S)), Len(ss) >= 1
    PROVE  Flat(S, ss, 1, ss[1])
<1>1. ss[1] \in Seq(S) /\ 1 \in 1 .. 1 /\ 1 <= 1
  OBVIOUS
<1>2. \A p \in 1 .. 1 : p = 1
  OBVIOUS
<1>3. \A q \in 1 .. Len(ss[1]) : ss[1][q] \in Range(ss[1])
  BY <1>1 DEF Range
<1>4. \A q, r \in 1 .. Len(ss[1]) : q <= r =>
        \E a, b \in 1 .. 1 : a <= b /\ ss[1][q] \in Range(ss[a]) /\ ss[1][r] \in Range(ss[b])
  BY <1>1, <1>3
<1> QED BY <1>1, <1>2, <1>4 DEF Flat

LEMMA FlattenedLists ==
    ASSUME NEW S, NEW ss \in Seq(Seq(S))
    PROVE  Flat(S, ss, Len(ss), FlattenSeq(ss))
<1>1. CASE Len(ss) = 0
  <2>1. FlattenSeq(ss) = ss /\ ss = <<>>
    BY <1>1 DEF FlattenSeq
  <2>2. FlattenSeq(ss) \in Seq(S) /\ Len(FlattenSeq(ss)) = 0
    BY <2>1
  <2> QED BY <1>1, <2>2 DEF Flat
<1>2. CASE Len(ss) # 0
  <2> DEFINE N == Len(ss) - 1
             F == [x \in (1 .. N) \X Seq(S) |-> x[2] \o ss[x[1] + 1]]
             Step(g) == [q \in 1 .. Len(ss) |-> IF q = 1 THEN ss[q] ELSE g[q - 1] \o ss[q]]
             c == CHOOSE g : g = Step(g)
  <2>1. Len(ss) \in Nat \ {0} /\ N \in Nat /\ ss[1] \in Seq(S) /\ Len(ss) = N + 1
    BY <1>2
  <2>2. PICK f : Follows(f, N, Seq(S), ss[1], F)
    <3>1. F \in Steps(N, Seq(S))
      <4>1. \A x \in (1 .. N) \X Seq(S) : x[2] \in Seq(S) /\ ss[x[1] + 1] \in Seq(S)
        BY <2>1
      <4>2. \A x \in (1 .. N) \X Seq(S) : x[2] \o ss[x[1] + 1] \in Seq(S)
        BY <4>1
      <4> HIDE DEF N
      <4> QED BY <4>2 DEF Steps
    <3> HIDE DEF N, F
    <3> QED BY <2>1, <3>1, Recursion
  <2>3. /\ f[0] = ss[1]
        /\ \A q \in 1 .. N : f[q - 1] \in Seq(S) /\ f[q] = f[q - 1] \o ss[q + 1]
    <3>1. f \in [0 .. N -> Seq(S)] /\ f[0] = ss[1] /\ \A q \in 1 .. N : f[q] = F[<<q, f[q - 1]>>]
      <4> HIDE DEF N, F
      <4> QED BY <2>2 DEF Follows
    <3>2. \A q \in 1 .. N : q - 1 \in 0 .. N
      BY <2>1
    <3>3. \A q \in 1 .. N : f[q - 1] \in Seq(S)
      <4> HIDE DEF N, F
      <4> QED BY <3>1, <3>2
    <3>4. ASSUME NEW q \in 1 .. N
          PROVE  F[<<q, f[q - 1]>>] = f[q - 1] \o ss[q + 1]
      <4>1. <<q, f[q - 1]>> \in (1 .. N) \X Seq(S)
        BY <3>3
      <4> HIDE DEF N
      <4> QED BY <4>1
    <3> HIDE DEF N, F
    <3> QED BY <3>1, <3>3, <3>4
  <2> DEFINE g == [q \in 1 .. Len(ss) |-> f[q - 1]]
  <2>4. g = Step(g)
    <3>1. \A q \in 1 .. Len(ss) : q # 1 => /\ q - 1 \in 1 .. N /\ q - 1 \in 1 .. Len(ss)
                                           /\ q - 1 + 1 = q
      BY <2>1
    <3>2. \A q \in 1 .. Len(ss) : q # 1 => f[q - 1] = f[q - 1 - 1] \o ss[q]
      <4> HIDE DEF N
      <4> QED BY <2>3, <3>1
    <3>3. \A q \in 1 .. Len(ss) : q # 1 => g[q - 1] = f[q - 1 - 1]
      BY <3>1
    <3>4. \A q \in 1 .. Len(ss) : g[q] = IF q = 1 THEN ss[q] ELSE g[q - 1] \o ss[q]
      <4>1. \A q \in 1 .. Len(ss) : q = 1 => g[q] = ss[q]
        BY <2>3
      <4>2. \A q \in 1 .. Len(ss) : q # 1 => g[q] = g[q - 1] \o ss[q]
        <5>1. \A q \in 1 .. Len(ss) : g[q] = f[q - 1]
          OBVIOUS
        <5> HIDE DEF g
        <5> QED BY <3>2, <3>3, <5>1
      <4> HIDE DEF g
      <4> QED BY <4>1, <4>2
    <3>5. g = [q \in 1 .. Len(ss) |-> g[q]]
      OBVIOUS
    <3> HIDE DEF g
    <3>6. Step(g) = [q \in 1 .. Len(ss) |-> g[q]]
      BY <3>4
    <3> QED BY <3>5, <3>6
  <2>5. c = Step(c)
    <3> HIDE DEF Step, g
    <3> QED BY <2>4
  <2>6. c[1] = ss[1] /\ \A q \in 1 .. Len(ss) : q # 1 => c[q] = c[q - 1] \o ss[q]
    <3>1. /\ Step(c)[1] = ss[1]
          /\ \A q \in 1 .. Len(ss) : q # 1 => Step(c)[q] = c[q - 1] \o ss[q]
      <4> HIDE DEF c
      <4> QED BY <2>1
    <3> HIDE DEF c, Step
    <3> QED BY <2>5, <3>1
  <2>7. FlattenSeq(ss) = c[Len(ss)]
    BY <1>2 DEF FlattenSeq
  <2> DEFINE T == {m \in 1 .. Len(ss) : ~Flat(S, ss, m, c[m])}
  <2>8. ASSUME T # {}
        PROVE  FALSE
    <3> HIDE DEF c
    <3>1. PICK m \in T : \A q \in T : m <= q
      <4>1. T \in SUBSET Nat
        OBVIOUS
      <4> HIDE DEF T
      <4> QED BY <2>8, <4>1, LeastNumber
    <3>2. m # 1
      BY <2>1, <2>6, <3>1, FlatStarts
    <3>3. m - 1 \in 1 .. Len(ss) /\ m - 1 \notin T /\ m - 1 + 1 = m /\ m \in 1 .. Len(ss)
      BY <3>1, <3>2
    <3>4. Flat(S, ss, m - 1, c[m - 1])
      BY <3>3
    <3>5. m - 1 \in Nat /\ m - 1 + 1 <= Len(ss)
      BY <2>1, <3>3
    <3>9. c[m] = c[m - 1] \o ss[m]
      BY <2>6, <3>2, <3>3
    <3>6. Flat(S, ss, m - 1 + 1, c[m - 1] \o ss[m - 1 + 1])
      BY <3>4, <3>5, FlatGrows
    <3>7. Flat(S, ss, m, c[m])
      BY <3>3, <3>9, <3>6
    <3> QED BY <3>1, <3>7
  <2>9. Len(ss) \in 1 .. Len(ss)
    BY <2>1
  <2> HIDE DEF c
  <2> QED BY <2>7, <2>8, <2>9
<1> QED BY <1>1, <1>2

-----------------------------------------------------------------------------
(* Lines, paragraphs and segments *)

Lines == DOMAIN Weight

LEMMA PicksOfAList ==
    ASSUME NEW S, NEW s \in Seq(S), NEW at0 \in SUBSET DOMAIN s
    PROVE  LET stay == Ascending(at0)
               new == [q \in DOMAIN stay |-> s[stay[q]]]
           IN  new \in Seq(S) /\ Range(new) \subseteq Range(s)
<1> DEFINE stay == Ascending(at0)
           new == [q \in DOMAIN stay |-> s[stay[q]]]
<1>1. at0 \in SUBSET Nat /\ IsFiniteSet(at0)
  <2>1. IsFiniteSet(1 .. Len(s)) /\ at0 \in SUBSET (1 .. Len(s))
    BY FS_Interval
  <2> QED BY <2>1, FS_Subset
<1>2. stay \in Seq(at0)
  BY <1>1, AscendingLists
<1>3. \A q \in DOMAIN stay : stay[q] \in DOMAIN s
  <2> HIDE DEF stay
  <2> QED BY <1>2
<1>4. DOMAIN stay = 1 .. Len(stay) /\ Len(stay) \in Nat
  BY <1>2
<1>5. new \in [1 .. Len(stay) -> S]
  <2> HIDE DEF stay
  <2> QED BY <1>3, <1>4
<1>6. new \in Seq(S)
  <2> HIDE DEF stay, new
  <2> QED BY <1>4, <1>5
<1>7. Range(new) \subseteq Range(s)
  <2> HIDE DEF stay
  <2> QED BY <1>3 DEF Range
<1> QED BY <1>6, <1>7

\* Cleaning a document takes lines from its pages.
LEMMA CleanedPages ==
    ASSUME NEW doc \in Documents
    PROVE  /\ doc \in Seq(Seq(Lines \cup {Blank}))
           /\ Cleaned(doc) \in Seq(Seq(Lines \cup {Blank}))
           /\ Len(Cleaned(doc)) = Len(doc)
           /\ \A p \in 1 .. Len(doc) : Range(Cleaned(doc)[p]) \subseteq Range(doc[p])
<1>1. doc \in Seq(Seq(Lines \cup {Blank}))
  BY ChunkingAssumption DEF Lines
<1>2. CASE Len(doc) < 3
  BY <1>1, <1>2 DEF Cleaned
<1>3. CASE ~(Len(doc) < 3)
  <2> DEFINE at0(p) == {q \in DOMAIN doc[p] : doc[p][q] \notin Repeated(doc) \cup {Blank}}
             page(p) == [q \in DOMAIN Ascending(at0(p)) |-> doc[p][Ascending(at0(p))[q]]]
  <2>1. Cleaned(doc) = [p \in DOMAIN doc |-> page(p)]
    BY <1>3 DEF Cleaned
  <2>2. ASSUME NEW p \in 1 .. Len(doc)
        PROVE  page(p) \in Seq(Lines \cup {Blank}) /\ Range(page(p)) \subseteq Range(doc[p])
    <3>1. doc[p] \in Seq(Lines \cup {Blank}) /\ at0(p) \in SUBSET DOMAIN doc[p]
      BY <1>1
    <3> HIDE DEF at0
    <3> QED BY <3>1, PicksOfAList
  <2> HIDE DEF page
  <2>3. DOMAIN doc = 1 .. Len(doc) /\ Len(doc) \in Nat
    BY <1>1
  <2>4. Cleaned(doc) \in [1 .. Len(doc) -> Seq(Lines \cup {Blank})]
    BY <2>1, <2>2, <2>3
  <2>5. Cleaned(doc) \in Seq(Seq(Lines \cup {Blank})) /\ Len(Cleaned(doc)) = Len(doc)
    BY <2>3, <2>4
  <2> QED BY <1>1, <2>1, <2>2, <2>3, <2>5
<1> QED BY <1>2, <1>3

LEMMA EndOfAParagraph ==
    ASSUME NEW page \in Seq(Lines \cup {Blank}), NEW q \in Starts(page)
    PROVE  /\ q \in 1 .. Len(page) /\ EndOf(page, q) \in q .. Len(page)
           /\ \A m \in q .. EndOf(page, q) : page[m] # Blank
           /\ EndOf(page, q) = Len(page) \/ page[EndOf(page, q) + 1] = Blank
<1>1. q \in 1 .. Len(page) /\ page[q] # Blank /\ Len(page) \in Nat
  BY DEF Starts
<1> DEFINE T == {r \in q .. Len(page) : r = Len(page) \/ page[r + 1] = Blank}
<1>2. Len(page) \in T /\ T \in SUBSET Nat
  BY <1>1
<1>3. PICK r \in T : \A m \in T : r <= m
  <2> HIDE DEF T
  <2> QED BY <1>2, LeastNumber
<1>4. r \in q .. Len(page) /\ (r = Len(page) \/ page[r + 1] = Blank)
  BY <1>3
<1>5. ASSUME NEW m \in q .. r
      PROVE  page[m] # Blank
  <2>1. CASE m = q
    BY <2>1, <1>1
  <2>2. CASE m # q
    <3>1. m - 1 \in q .. Len(page) /\ m - 1 < r /\ m - 1 + 1 = m
      BY <1>1, <1>4, <2>2
    <3>2. m - 1 \notin T
      <4> HIDE DEF T
      <4> QED BY <1>1, <1>3, <1>4, <3>1
    <3>4. \A x \in q .. Len(page) : x \notin T => page[x + 1] # Blank
      OBVIOUS
    <3> HIDE DEF T
    <3>3. page[m - 1 + 1] # Blank
      BY <3>1, <3>2, <3>4
    <3> QED BY <3>1, <3>3
  <2> QED BY <2>1, <2>2
<1> HIDE DEF T
<1>6. \E e \in q .. Len(page) : /\ \A m \in q .. e : page[m] # Blank
                                /\ e = Len(page) \/ page[e + 1] = Blank
  BY <1>4, <1>5
<1> QED BY <1>1, <1>6 DEF EndOf

\* Every line that is not empty has a paragraph that begins at it or before.
LEMMA StartOfALine ==
    ASSUME NEW page \in Seq(Lines \cup {Blank}), NEW q \in 1 .. Len(page), page[q] # Blank
    PROVE  \E a \in Starts(page) : a <= q /\ \A m \in a .. q : page[m] # Blank
<1> DEFINE T == {a \in 1 .. q : \A m \in a .. q : page[m] # Blank}
<1>1. q \in T /\ T \in SUBSET Nat /\ DOMAIN page = 1 .. Len(page) /\ Len(page) \in Nat
  OBVIOUS
<1>2. PICK a \in T : \A m \in T : a <= m
  <2> HIDE DEF T
  <2> QED BY <1>1, LeastNumber
<1>3. a \in 1 .. q /\ \A m \in a .. q : page[m] # Blank
  BY <1>2
<1>4. a \in DOMAIN page /\ page[a] # Blank
  BY <1>1, <1>3
<1>5. a = 1 \/ page[a - 1] = Blank
  <2> SUFFICES ASSUME a # 1, page[a - 1] # Blank
               PROVE  FALSE
    OBVIOUS
  <2>1. a - 1 \in 1 .. q
    BY <1>3
  <2>2. \A m \in a - 1 .. q : m = a - 1 \/ m \in a .. q
    BY <1>3
  <2>3. a - 1 \in T
    BY <1>3, <2>1, <2>2
  <2>4. a <= a - 1
    BY <1>2, <2>3
  <2> QED BY <1>3, <2>4
<1> HIDE DEF T
<1> QED BY <1>3, <1>4, <1>5 DEF Starts

LEMMA ParagraphsOfAPage ==
    ASSUME NEW page \in Seq(Lines \cup {Blank})
    PROVE  /\ Paragraphs(page) \in Seq(Seq(Lines))
           /\ \A c \in 1 .. Len(Paragraphs(page)) : Range(Paragraphs(page)[c]) \subseteq Range(page)
           /\ \A line \in Range(page) \ {Blank} :
                \E c \in 1 .. Len(Paragraphs(page)) : line \in Range(Paragraphs(page)[c])
<1> DEFINE starts == Ascending(Starts(page))
           text(a) == SubSeq(page, a, EndOf(page, a))
<1>1. Starts(page) \in SUBSET Nat /\ IsFiniteSet(Starts(page))
  <2>1. Starts(page) \in SUBSET (1 .. Len(page))
    BY DEF Starts
  <2>2. IsFiniteSet(1 .. Len(page))
    BY FS_Interval
  <2> QED BY <2>1, <2>2, FS_Subset
<1>2. /\ starts \in Seq(Starts(page)) /\ Len(starts) \in Nat
      /\ \A a \in Starts(page) : \E c \in 1 .. Len(starts) : starts[c] = a
  BY <1>1, AscendingLists
<1>3. ASSUME NEW a \in Starts(page)
      PROVE  /\ text(a) \in Seq(Lines)
             /\ Range(text(a)) = {page[m] : m \in a .. EndOf(page, a)}
             /\ Range(text(a)) \subseteq Range(page)
  <2> DEFINE e == EndOf(page, a)
  <2>1. /\ a \in 1 .. Len(page) /\ e \in a .. Len(page)
        /\ \A m \in a .. e : page[m] # Blank
    BY EndOfAParagraph
  <2> HIDE DEF e
  <2> DEFINE t == SubSeq(page, a, e)
  <2>2. t = [m \in 1 .. e - a + 1 |-> page[a + m - 1]] /\ e - a + 1 \in Nat
    BY <2>1
  <2>3. \A m \in 1 .. e - a + 1 : a + m - 1 \in a .. e /\ a + m - 1 \in 1 .. Len(page)
    BY <2>1
  <2>4. \A m \in a .. e : m - a + 1 \in 1 .. e - a + 1 /\ a + (m - a + 1) - 1 = m
    BY <2>1
  <2>5. \A m \in 1 .. Len(page) : page[m] # Blank => page[m] \in Lines
    OBVIOUS
  <2>6. t \in [1 .. e - a + 1 -> Lines]
    <3>1. \A m \in 1 .. e - a + 1 : page[a + m - 1] \in Lines
      BY <2>1, <2>3, <2>5
    <3> HIDE DEF t
    <3> QED BY <2>2, <3>1
  <2>7. t \in Seq(Lines)
    <3> HIDE DEF t
    <3> QED BY <2>2, <2>6, FunctionsAreLists
  <2>8. Range(t) = {page[m] : m \in a .. e}
    <3> HIDE DEF t
    <3>1. DOMAIN t = 1 .. e - a + 1
      BY <2>2
    <3>2. \A m \in a .. e : t[m - a + 1] = page[m]
      BY <2>2, <2>4
    <3>3. \A m \in 1 .. e - a + 1 : t[m] = page[a + m - 1]
      BY <2>2
    <3> QED BY <2>3, <2>4, <3>1, <3>2, <3>3 DEF Range
  <2>9. \A m \in a .. e : m \in DOMAIN page
    BY <2>1
  <2> QED BY <2>7, <2>8, <2>9 DEF e, Range
<1>4. DOMAIN starts = 1 .. Len(starts) /\ \A c \in 1 .. Len(starts) : starts[c] \in Starts(page)
  <2> HIDE DEF starts
  <2> QED BY <1>2
<1>5. Paragraphs(page) = [c \in 1 .. Len(starts) |-> text(starts[c])]
  BY <1>4 DEF Paragraphs
<1> HIDE DEF starts, text
<1>6. Paragraphs(page) \in [1 .. Len(starts) -> Seq(Lines)]
  BY <1>3, <1>4, <1>5
<1>7. Paragraphs(page) \in Seq(Seq(Lines)) /\ Len(Paragraphs(page)) = Len(starts)
  BY <1>2, <1>6, FunctionsAreLists
<1>8. \A c \in 1 .. Len(starts) : Range(Paragraphs(page)[c]) \subseteq Range(page)
  BY <1>3, <1>4, <1>5
<1>9. ASSUME NEW line \in Range(page) \ {Blank}
      PROVE  \E c \in 1 .. Len(starts) : line \in Range(Paragraphs(page)[c])
  <2>1. PICK q \in 1 .. Len(page) : page[q] = line
    BY DEF Range
  <2>2. PICK a \in Starts(page) : a <= q /\ \A m \in a .. q : page[m] # Blank
    BY <2>1, StartOfALine
  <2>3. /\ a \in 1 .. Len(page) /\ EndOf(page, a) \in a .. Len(page)
        /\ EndOf(page, a) = Len(page) \/ page[EndOf(page, a) + 1] = Blank
    BY EndOfAParagraph
  <2>4. ~(EndOf(page, a) < q)
    <3>1. EndOf(page, a) < q => EndOf(page, a) + 1 \in a .. q /\ EndOf(page, a) # Len(page)
      BY <2>3
    <3> QED BY <2>2, <2>3, <3>1
  <2>5. q \in a .. EndOf(page, a)
    BY <2>2, <2>3, <2>4
  <2>6. line \in Range(text(a))
    BY <1>3, <2>1, <2>5
  <2>7. PICK c \in 1 .. Len(starts) : starts[c] = a
    BY <1>2
  <2> QED BY <1>5, <2>6, <2>7
<1> QED BY <1>7, <1>8, <1>9

Segment == [page : Nat, text : Seq(Lines)]

LEMMA SegmentsOfADocument ==
    ASSUME NEW doc \in Documents
    PROVE  /\ SegmentsOf(doc) \in Seq(Segment)
           /\ \A p \in DOMAIN doc, line \in Lines \cup {Blank} :
                line \in Range(Cleaned(doc)[p]) /\ line # Blank =>
                  \E s \in 1 .. Len(SegmentsOf(doc)) : line \in Range(SegmentsOf(doc)[s].text)
           /\ \A s \in 1 .. Len(SegmentsOf(doc)) :
                /\ SegmentsOf(doc)[s].page \in DOMAIN doc
                /\ Range(SegmentsOf(doc)[s].text) \subseteq Range(doc[SegmentsOf(doc)[s].page])
           /\ \A s, t \in 1 .. Len(SegmentsOf(doc)) :
                s <= t => SegmentsOf(doc)[s].page <= SegmentsOf(doc)[t].page
<1> DEFINE ps(p) == Paragraphs(Cleaned(doc)[p])
           part(p) == [q \in DOMAIN ps(p) |-> [page |-> p, text |-> ps(p)[q]]]
           parts == [p \in DOMAIN doc |-> part(p)]
           all == FlattenSeq(parts)
<1>1. /\ doc \in Seq(Seq(Lines \cup {Blank})) /\ Cleaned(doc) \in Seq(Seq(Lines \cup {Blank}))
      /\ Len(Cleaned(doc)) = Len(doc) /\ Len(doc) \in Nat /\ DOMAIN doc = 1 .. Len(doc)
      /\ \A p \in 1 .. Len(doc) : Range(Cleaned(doc)[p]) \subseteq Range(doc[p])
  <2>1. doc \in Seq(Seq(Lines \cup {Blank}))
    BY CleanedPages
  <2>2. Len(doc) \in Nat /\ DOMAIN doc = 1 .. Len(doc)
    BY <2>1
  <2> QED BY <2>1, <2>2, CleanedPages
<1>2. SegmentsOf(doc) = all
  BY DEF SegmentsOf
<1>3. ASSUME NEW p \in 1 .. Len(doc)
      PROVE  /\ ps(p) \in Seq(Seq(Lines)) /\ DOMAIN ps(p) = 1 .. Len(ps(p)) /\ Len(ps(p)) \in Nat
             /\ \A c \in 1 .. Len(ps(p)) : Range(ps(p)[c]) \subseteq Range(doc[p])
             /\ \A line \in Range(Cleaned(doc)[p]) \ {Blank} :
                  \E c \in 1 .. Len(ps(p)) : line \in Range(ps(p)[c])
  <2>1. Cleaned(doc)[p] \in Seq(Lines \cup {Blank})
    BY <1>1
  <2>2. /\ ps(p) \in Seq(Seq(Lines))
        /\ \A c \in 1 .. Len(ps(p)) : Range(ps(p)[c]) \subseteq Range(Cleaned(doc)[p])
        /\ \A line \in Range(Cleaned(doc)[p]) \ {Blank} :
             \E c \in 1 .. Len(ps(p)) : line \in Range(ps(p)[c])
    BY <2>1, ParagraphsOfAPage
  <2>3. DOMAIN ps(p) = 1 .. Len(ps(p)) /\ Len(ps(p)) \in Nat
    <3> HIDE DEF ps
    <3> QED BY <2>2
  <2>4. Range(Cleaned(doc)[p]) \subseteq Range(doc[p])
    BY <1>1
  <2> HIDE DEF ps
  <2> QED BY <2>2, <2>3, <2>4
<1> HIDE DEF ps
<1>4. ASSUME NEW p \in 1 .. Len(doc)
      PROVE  /\ part(p) \in Seq(Segment)
             /\ Range(part(p)) = {[page |-> p, text |-> ps(p)[c]] : c \in 1 .. Len(ps(p))}
  <2>1. part(p) \in [1 .. Len(ps(p)) -> Segment]
    <3>1. \A c \in 1 .. Len(ps(p)) : [page |-> p, text |-> ps(p)[c]] \in Segment
      BY <1>3 DEF Segment
    <3> QED BY <1>3, <3>1
  <2>2. DOMAIN part(p) = 1 .. Len(ps(p)) /\ \A c \in 1 .. Len(ps(p)) : part(p)[c] = [page |-> p, text |-> ps(p)[c]]
    BY <1>3
  <2> HIDE DEF part
  <2>3. part(p) \in Seq(Segment)
    BY <1>3, <2>1, FunctionsAreLists
  <2>4. Range(part(p)) = {[page |-> p, text |-> ps(p)[c]] : c \in 1 .. Len(ps(p))}
    BY <2>2 DEF Range
  <2> QED BY <2>3, <2>4
<1> HIDE DEF part
<1>5. parts \in [1 .. Len(doc) -> Seq(Segment)]
  BY <1>1, <1>4
<1>6. parts \in Seq(Seq(Segment)) /\ Len(parts) = Len(doc) /\ \A p \in 1 .. Len(doc) : parts[p] = part(p)
  <2>1. \A p \in 1 .. Len(doc) : parts[p] = part(p)
    BY <1>1
  <2> HIDE DEF parts
  <2> QED BY <1>1, <1>5, <2>1, FunctionsAreLists
<1> HIDE DEF parts
<1>7. Flat(Segment, parts, Len(doc), all)
  BY <1>6, FlattenedLists
<1> HIDE DEF all
<1>8. all \in Seq(Segment) /\ DOMAIN all = 1 .. Len(all)
  BY <1>7 DEF Flat
<1>9. ASSUME NEW p \in DOMAIN doc, NEW line, line \in Range(Cleaned(doc)[p]), line # Blank
      PROVE  \E s \in 1 .. Len(all) : line \in Range(all[s].text)
  <2>1. PICK c \in 1 .. Len(ps(p)) : line \in Range(ps(p)[c])
    BY <1>1, <1>3, <1>9
  <2>2. [page |-> p, text |-> ps(p)[c]] \in Range(parts[p])
    BY <1>1, <1>4, <1>6
  <2>3. [page |-> p, text |-> ps(p)[c]] \in Range(all)
    BY <1>1, <1>7, <2>2 DEF Flat
  <2>4. PICK s \in 1 .. Len(all) : all[s] = [page |-> p, text |-> ps(p)[c]]
    BY <1>8, <2>3 DEF Range
  <2> QED BY <2>1, <2>4
<1>10. ASSUME NEW s \in 1 .. Len(all), NEW p \in 1 .. Len(doc), all[s] \in Range(parts[p])
       PROVE  all[s].page = p /\ Range(all[s].text) \subseteq Range(doc[p])
  <2>1. PICK c \in 1 .. Len(ps(p)) : all[s] = [page |-> p, text |-> ps(p)[c]]
    BY <1>4, <1>6, <1>10
  <2>2. all[s].page = p /\ all[s].text = ps(p)[c]
    BY <2>1
  <2> QED BY <1>3, <2>2
<1>11. ASSUME NEW s \in 1 .. Len(all)
       PROVE  all[s].page \in DOMAIN doc /\ Range(all[s].text) \subseteq Range(doc[all[s].page])
  <2>1. s <= s
    OBVIOUS
  <2>2. PICK p \in 1 .. Len(doc) : all[s] \in Range(parts[p])
    BY <1>7, <2>1 DEF Flat
  <2>3. all[s].page = p /\ Range(all[s].text) \subseteq Range(doc[p])
    BY <1>10, <2>2
  <2> QED BY <1>1, <2>3
<1>12. ASSUME NEW s \in 1 .. Len(all), NEW t \in 1 .. Len(all), s <= t
       PROVE  all[s].page <= all[t].page
  <2>1. PICK a \in 1 .. Len(doc), b \in 1 .. Len(doc) :
          a <= b /\ all[s] \in Range(parts[a]) /\ all[t] \in Range(parts[b])
    BY <1>7, <1>12 DEF Flat
  <2>2. all[s].page = a /\ all[t].page = b
    BY <1>10, <2>1
  <2> QED BY <2>1, <2>2
<1> QED BY <1>2, <1>8, <1>9, <1>11, <1>12

\* The tokens of a segment, and of the segments from a to b.
LEMMA TokensAreNumbers ==
    ASSUME segments \in Seq(Segment), NEW s \in 1 .. Len(segments)
    PROVE  Tokens(s) \in Nat
<1> DEFINE text == segments[s].text
           list == [q \in DOMAIN text |-> Weight[text[q]]]
<1>1. text \in Seq(Lines)
  <2>1. segments[s] \in Segment
    OBVIOUS
  <2> QED BY <2>1 DEF Segment
<1>2. DOMAIN text = 1 .. Len(text) /\ Len(text) \in Nat /\ \A q \in DOMAIN text : text[q] \in Lines
  <2> HIDE DEF text
  <2> QED BY <1>1
<1>3. list \in [1 .. Len(text) -> Nat]
  <2> HIDE DEF text
  <2>1. \A q \in 1 .. Len(text) : Weight[text[q]] \in Nat
    BY <1>2, ChunkingAssumption DEF Lines
  <2> QED BY <1>2, <2>1
<1>4. list \in Seq(Nat)
  <2> HIDE DEF text, list
  <2> QED BY <1>2, <1>3, FunctionsAreLists
<1>5. Total(list) \in Nat
  <2> HIDE DEF list
  <2>1. PICK u : Sums(list, u)
    BY <1>4, TotalIsTheLastSum
  <2> QED BY <1>4, <2>1, TotalOfSums
<1> QED BY <1>5 DEF Tokens

TokensOf(a, b) == Total([s \in 1 .. b - a |-> Tokens(a + s - 1)])

LEMMA TokensAddUp ==
    ASSUME segments \in Seq(Segment), NEW a \in Nat \ {0}, NEW b \in Nat, a <= b, b <= Len(segments) + 1
    PROVE  /\ TokensOf(a, b) \in Nat
           /\ a = b => TokensOf(a, b) = 0
           /\ b <= Len(segments) => TokensOf(a, b + 1) = TokensOf(a, b) + Tokens(b)
<1> DEFINE list(e) == [s \in 1 .. e - a |-> Tokens(a + s - 1)]
<1>1. Len(segments) \in Nat
  OBVIOUS
<1>2. ASSUME NEW e \in Nat, a <= e, e <= Len(segments) + 1
      PROVE  list(e) \in Seq(Nat) /\ Len(list(e)) = e - a
  <2>1. e - a \in Nat /\ \A s \in 1 .. e - a : a + s - 1 \in 1 .. Len(segments)
    BY <1>1, <1>2
  <2>2. list(e) \in [1 .. e - a -> Nat]
    BY <2>1, TokensAreNumbers
  <2> HIDE DEF list
  <2> QED BY <2>1, <2>2, FunctionsAreLists
<1>3. list(b) \in Seq(Nat) /\ Len(list(b)) = b - a
  BY <1>2
<1>4. Total(list(b)) \in Nat
  <2> HIDE DEF list
  <2>1. PICK u : Sums(list(b), u)
    BY <1>3, TotalIsTheLastSum
  <2> QED BY <1>3, <2>1, TotalOfSums
<1>5. a = b => Total(list(b)) = 0
  <2>1. a = b => b - a = 0
    OBVIOUS
  <2> HIDE DEF list
  <2> QED BY <1>3, <2>1, TotalOfNone
<1>6. ASSUME b <= Len(segments)
      PROVE  Total(list(b + 1)) = Total(list(b)) + Tokens(b)
  <2>1. b + 1 \in Nat /\ a <= b + 1 /\ b + 1 <= Len(segments) + 1 /\ b + 1 - a = b - a + 1
    BY <1>1, <1>6
  <2>2. list(b + 1) \in Seq(Nat) /\ Len(list(b + 1)) = b - a + 1
    <3> HIDE DEF list
    <3> QED BY <1>2, <2>1
  <2>3. \A s \in 1 .. b - a : list(b + 1)[s] = list(b)[s]
    BY <2>1
  <2>4. list(b + 1)[b - a + 1] = Tokens(b)
    <3>1. b - a + 1 \in 1 .. b + 1 - a /\ a + (b - a + 1) - 1 = b
      BY <2>1
    <3> QED BY <3>1
  <2> HIDE DEF list
  <2> QED BY <1>3, <2>2, <2>3, <2>4, TotalGrows
<1> QED BY <1>4, <1>5, <1>6 DEF TokensOf

-----------------------------------------------------------------------------
(* The windows of chunk_pages *)

Counters ==
    /\ segments \in Seq(Segment)
    /\ windows \in Seq([first : Nat, last : Nat])
    /\ i \in Nat \ {0} /\ j \in Nat \ {0} /\ k \in Nat \ {0}
    /\ pages \in Documents

\* Where the window under construction stands to the one drafted last.
Position ==
    /\ at \in {"split", "window", "overlap", "drafted"}
    /\ at = "split" => i = 1 /\ j = 1 /\ windows = <<>>
    /\ at = "window" =>
         /\ i <= n /\ i <= j /\ j <= n + 1
         /\ windows # <<>> => /\ windows[Len(windows)].first < i
                              /\ i <= windows[Len(windows)].last + 1
    /\ at = "overlap" =>
         /\ windows # <<>>
         /\ windows[Len(windows)] = [first |-> i, last |-> j - 1]
         /\ i < k /\ k <= j /\ j <= n

Covered(s) == \E w \in DOMAIN windows : s \in Segs(w)

\* In the overlap, the window just drafted is covered as well.
Behind ==
    \A s \in 1 .. (IF at = "drafted" THEN n ELSE IF at = "overlap" THEN j - 1 ELSE i - 1) :
        Covered(s)

Ordered ==
    \A w \in DOMAIN windows : w > 1 =>
        /\ windows[w - 1].first < windows[w].first
        /\ windows[w].first <= windows[w - 1].last + 1

LoopInv == Counters /\ Position /\ Behind /\ Ordered

LEMMA LoopStarts ==
    ASSUME CInit
    PROVE  LoopInv
BY DEF CInit, LoopInv, Counters, Position, Behind, Ordered

LEMMA SplitKeepsLoop ==
    ASSUME LoopInv, Split
    PROVE  LoopInv'
<1>1. segments' \in Seq(Segment)
  BY SegmentsOfADocument DEF LoopInv, Counters, Split
<1>2. Counters'
  BY <1>1 DEF LoopInv, Counters, Split
<1>3. segments' # <<>> => Len(segments') >= 1
  BY <1>1
<1>4. windows = <<>> /\ i = 1 /\ j = 1
  BY DEF LoopInv, Position, Split
<1>5. segments' = <<>> => Len(segments') = 0
  OBVIOUS
<1>6. Len(segments') \in Nat
  BY <1>1
<1> QED
  BY <1>2, <1>3, <1>4, <1>5, <1>6 DEF LoopInv, Position, Behind, Ordered, Covered, Split, n

LEMMA ExtendKeepsLoop ==
    ASSUME LoopInv, Extend
    PROVE  LoopInv'
<1>1. n \in Nat
  BY DEF LoopInv, Counters, n
<1>2. Counters' /\ Position'
  BY <1>1 DEF LoopInv, Counters, Position, Extend, WindowOpen, n
<1>3. Behind' /\ Ordered'
  BY DEF LoopInv, Behind, Ordered, Covered, Segs, Extend, n
<1> QED BY <1>2, <1>3 DEF LoopInv

LEMMA DraftKeepsLoop ==
    ASSUME LoopInv, Draft
    PROVE  LoopInv'
<1> DEFINE new == [first |-> i, last |-> j - 1]
           last == Len(windows)
<1>1. n \in Nat /\ last \in Nat /\ n' = n
  BY DEF LoopInv, Counters, Draft, n
<1>2. i <= n /\ i < j /\ j <= n + 1
  BY <1>1 DEF LoopInv, Counters, Position, Draft, WindowOpen
<1>3. new \in [first : Nat, last : Nat]
  BY <1>2 DEF LoopInv, Counters
<1>4. /\ windows' \in Seq([first : Nat, last : Nat])
      /\ Len(windows') = last + 1
      /\ windows'[last + 1] = new
      /\ \A w \in 1 .. last : windows'[w] = windows[w]
      /\ DOMAIN windows' = 1 .. last + 1
      /\ DOMAIN windows = 1 .. last
  BY <1>1, <1>3 DEF LoopInv, Counters, Draft
<1>5. Counters'
  BY <1>4 DEF LoopInv, Counters, Draft
<1>6. Position'
  BY <1>1, <1>2, <1>4 DEF LoopInv, Counters, Position, Draft
<1>7. \A s \in 1 .. j - 1 : Covered(s)'
  <2> TAKE s \in 1 .. j - 1
  <2>1. CASE s < i
    <3>1. s \in 1 .. i - 1
      BY <2>1 DEF LoopInv, Counters
    <3>2. PICK w \in 1 .. last : s \in Segs(w)
      BY <3>1, <1>4 DEF LoopInv, Behind, Covered, Draft
    <3>3. w \in DOMAIN windows' /\ s \in windows'[w].first .. windows'[w].last
      BY <3>2, <1>1, <1>4 DEF Segs
    <3> QED BY <3>3 DEF Covered, Segs
  <2>2. CASE s >= i
    <3>1. s \in new.first .. new.last
      BY <2>2 DEF LoopInv, Counters
    <3>2. \E w \in DOMAIN windows' : windows'[w] = new
      BY <1>1, <1>4
    <3> HIDE DEF new
    <3> QED BY <3>1, <3>2 DEF Covered, Segs
  <2> QED BY <2>1, <2>2 DEF LoopInv, Counters
<1>8. Behind'
  <2>1. at' = "drafted" => n <= j - 1
    BY <1>1 DEF Draft, LoopInv, Counters
  <2>2. j' = j /\ (at' = "drafted" \/ at' = "overlap") /\ j \in Nat
    BY DEF Draft, LoopInv, Counters
  <2> QED BY <2>1, <2>2, <1>1, <1>7 DEF Behind
<1>9. Ordered'
  <2> SUFFICES ASSUME NEW w \in 1 .. last + 1, w > 1
               PROVE  /\ windows'[w - 1].first < windows'[w].first
                      /\ windows'[w].first <= windows'[w - 1].last + 1
    BY <1>4 DEF Ordered
  <2>1. CASE w = last + 1
    <3>1. /\ windows # <<>>
          /\ windows[last].first < i
          /\ i <= windows[last].last + 1
      BY <2>1, <1>1, <1>4 DEF LoopInv, Position, Draft
    <3> QED BY <3>1, <2>1, <1>1, <1>4
  <2>2. CASE w \in 1 .. last
    BY <2>2, <1>1, <1>4 DEF LoopInv, Ordered
  <2> QED BY <2>1, <2>2, <1>1
<1> QED BY <1>5, <1>6, <1>8, <1>9 DEF LoopInv

LEMMA StepBackKeepsLoop ==
    ASSUME LoopInv, StepBack
    PROVE  LoopInv'
<1>1. Counters' /\ Position'
  BY DEF LoopInv, Counters, Position, StepBack, Overlapping, n
<1>2. Behind' /\ Ordered'
  BY DEF LoopInv, Behind, Ordered, Covered, Segs, StepBack, n
<1> QED BY <1>1, <1>2 DEF LoopInv

LEMMA AdvanceKeepsLoop ==
    ASSUME LoopInv, Advance
    PROVE  LoopInv'
<1>1. n \in Nat
  BY DEF LoopInv, Counters, n
<1>2. i' = k /\ j' = k /\ i < k /\ k <= j /\ j <= n
  BY DEF LoopInv, Counters, Position, Advance
<1>3. Counters' /\ Position'
  <2>1. windows[Len(windows)].first = i /\ windows[Len(windows)].last = j - 1
    BY DEF LoopInv, Position, Advance
  <2>2. UNCHANGED <<windows, segments, k, pages>> /\ at' = "window" /\ n' = n
    BY DEF Advance, n
  <2>3. Counters'
    BY <1>2, <2>2 DEF LoopInv, Counters
  <2>4. i \in Nat /\ j \in Nat /\ k \in Nat
    BY DEF LoopInv, Counters
  <2>5. k <= n /\ k <= n + 1 /\ i < k /\ k <= j - 1 + 1
    BY <1>1, <1>2, <2>4
  <2> QED BY <1>2, <2>1, <2>2, <2>3, <2>4, <2>5 DEF Position
<1>4. Behind'
  <2>1. \A s \in 1 .. j - 1 : Covered(s)
    BY DEF LoopInv, Behind, Advance
  <2>2. at' = "window" /\ windows' = windows
    BY DEF Advance
  <2>3. \A s \in 1 .. k - 1 : Covered(s)'
    <3>1. \A s \in 1 .. k - 1 : s \in 1 .. j - 1
      BY <1>2 DEF LoopInv, Counters
    <3>2. \A s \in 1 .. k - 1 : Covered(s)
      BY <3>1, <2>1
    <3> QED BY <3>2, <2>2 DEF Covered, Segs
  <2> QED BY <1>2, <2>2, <2>3 DEF Behind
<1>5. Ordered'
  BY DEF LoopInv, Ordered, Advance
<1> QED BY <1>3, <1>4, <1>5 DEF LoopInv

LEMMA LoopSteps ==
    ASSUME LoopInv, [CNext]_cvars
    PROVE  LoopInv'
<1>1. CASE UNCHANGED cvars
  BY <1>1 DEF LoopInv, Counters, Position, Behind, Ordered, Covered, Segs, cvars, n
<1> QED
  BY <1>1, SplitKeepsLoop, ExtendKeepsLoop, DraftKeepsLoop, StepBackKeepsLoop,
     AdvanceKeepsLoop DEF CNext

LEMMA LoopCovers ==
    ASSUME LoopInv
    PROVE  WindowsCover
<1> SUFFICES ASSUME NEW s \in 1 .. (IF at = "drafted" THEN n ELSE i - 1)
             PROVE  Covered(s)
  BY DEF LoopInv, Ordered, Covered, WindowsCover
<1>1. at = "overlap" => s \in 1 .. j - 1
  BY DEF LoopInv, Counters, Position
<1> QED BY <1>1 DEF LoopInv, Behind

\* For any pages, target and overlap, the windows leave no segment out: whatever
\* the loop has passed is in a window, at the end everything is, and each window
\* begins behind the beginning of the one before it and not behind its end.
THEOREM WindowsLeaveNothingOut == ChunkingSpec => []WindowsCover
BY LoopStarts, LoopSteps, LoopCovers, PTL DEF ChunkingSpec

-----------------------------------------------------------------------------
(* The chunks and their vectors *)

\* The segments are those of the document, a window is filled up to the target
\* before its last segment.
Filled(first, last) ==
    /\ 1 <= first /\ first <= last /\ last <= Len(segments)
    /\ TokensOf(first, last) < TargetTokens

WindowInv ==
    /\ LoopInv
    /\ at # "split" => segments = SegmentsOf(pages)
    /\ at = "split" => tokens = 0
    /\ at = "window" => /\ tokens = TokensOf(i, j)
                        /\ i < j => Filled(i, j - 1)
    /\ \A w \in DOMAIN windows : Filled(windows[w].first, windows[w].last)

LEMMA NoTokens ==
    ASSUME NEW a \in Nat, NEW f, DOMAIN f = 1 .. a - a, f = [s \in 1 .. a - a |-> f[s]]
    PROVE  Total(f) = 0
<1>1. 1 .. a - a = {} /\ 1 .. 0 = {}
  OBVIOUS
<1>2. f \in [1 .. 0 -> Nat]
  BY <1>1
<1>3. f \in Seq(Nat) /\ Len(f) = 0
  BY <1>2, FunctionsAreLists
<1> QED BY <1>3, TotalOfNone

LEMMA WindowSteps ==
    ASSUME WindowInv, [CNext]_cvars
    PROVE  WindowInv'
<1>1. LoopInv' /\ LoopInv
  BY LoopSteps DEF WindowInv
<1>2. CASE UNCHANGED cvars
  BY <1>1, <1>2 DEF WindowInv, Filled, TokensOf, Tokens, cvars
<1>3. CASE Split
  <2>1. windows = <<>> /\ windows' = <<>> /\ i' = 1 /\ j' = 1 /\ tokens' = 0 /\ pages' = pages
    BY <1>1, <1>3 DEF Split, LoopInv, Position, WindowInv
  <2>2. segments' = SegmentsOf(pages) /\ segments' \in Seq(Segment) /\ Len(segments') \in Nat
    BY <1>1, <1>3 DEF Split, LoopInv, Counters
  <2>3. TokensOf(i, j)' = 0
    BY <2>1, NoTokens DEF TokensOf
  <2>4. at' \in {"drafted", "window"} /\ ~(i' < j')
    BY <1>3, <2>1 DEF Split
  <2> QED BY <1>1, <2>1, <2>2, <2>3, <2>4 DEF WindowInv
<1>4. CASE Extend
  <2>1. /\ segments \in Seq(Segment) /\ i \in Nat \ {0} /\ j \in Nat /\ i <= j /\ j <= Len(segments)
        /\ at = "window" /\ (tokens < TargetTokens \/ j = i)
    BY <1>1, <1>4 DEF Extend, WindowOpen, LoopInv, Counters, Position, n
  <2>2. UNCHANGED <<pages, segments, i, windows, at>> /\ j' = j + 1 /\ tokens' = tokens + Tokens(j)
    BY <1>4 DEF Extend
  <2>3. Len(segments) \in Nat
    BY <2>1
  <2>4. /\ TokensOf(i, j) \in Nat /\ (i = j => TokensOf(i, j) = 0)
        /\ TokensOf(i, j + 1) = TokensOf(i, j) + Tokens(j)
    BY <2>1, <2>3, TokensAddUp
  <2>5. tokens = TokensOf(i, j)
    BY <2>1 DEF WindowInv
  <2>6. tokens' = TokensOf(i, j + 1) /\ TokensOf(i, j) < TargetTokens
    BY <2>1, <2>2, <2>4, <2>5, ChunkingAssumption
  <2>7. \A a, b : TokensOf(a, b)' = TokensOf(a, b) /\ Filled(a, b)' = Filled(a, b)
    BY <2>2 DEF TokensOf, Tokens, Filled
  <2>8. j' - 1 = j /\ 1 <= i
    BY <2>1, <2>2
  <2>9. Filled(i, j)
    BY <2>1, <2>6, <2>8 DEF Filled
  <2>10. /\ tokens' = TokensOf(i', j') /\ Filled(i', j' - 1)
    BY <2>2, <2>6, <2>8, <2>9
  <2>11. (tokens = TokensOf(i, j) /\ Filled(i, j - 1))'
    BY <2>7, <2>10
  <2>12. \A w \in DOMAIN windows' : Filled(windows[w].first, windows[w].last)'
    BY <2>2, <2>7 DEF WindowInv
  <2> QED BY <1>1, <2>1, <2>2, <2>11, <2>12 DEF WindowInv
<1>5. CASE Draft
  <2>1. i < j /\ at = "window"
    BY <1>1, <1>5 DEF Draft, WindowOpen, LoopInv, Counters, Position, n
  <2>2. Filled(i, j - 1)
    BY <2>1 DEF WindowInv
  <2>3. /\ UNCHANGED <<pages, segments, i, j, tokens>> /\ at' \in {"drafted", "overlap"}
        /\ windows' = Append(windows, [first |-> i, last |-> j - 1])
    BY <1>5 DEF Draft
  <2>4. windows \in Seq([first : Nat, last : Nat]) /\ windows' \in Seq([first : Nat, last : Nat])
    BY <1>1 DEF LoopInv, Counters
  <2>5. \A w \in DOMAIN windows' : \/ w \in DOMAIN windows /\ windows'[w] = windows[w]
                                   \/ windows'[w] = [first |-> i, last |-> j - 1]
    BY <2>3, <2>4
  <2>6. \A w \in DOMAIN windows' : Filled(windows'[w].first, windows'[w].last)
    BY <2>2, <2>5 DEF WindowInv
  <2>7. \A w \in DOMAIN windows' : Filled(windows[w].first, windows[w].last)'
    BY <2>3, <2>6 DEF TokensOf, Tokens, Filled
  <2> QED BY <1>1, <2>1, <2>3, <2>7 DEF WindowInv
<1>6. CASE StepBack
  BY <1>1, <1>6 DEF StepBack, WindowInv, Filled, TokensOf, Tokens
<1>7. CASE Advance
  <2>1. i' = j' /\ tokens' = 0 /\ UNCHANGED <<pages, segments, windows>> /\ at' = "window" /\ at = "overlap"
    BY <1>7 DEF Advance
  <2>2. (segments \in Seq(Segment) /\ i \in Nat \ {0} /\ j \in Nat /\ j <= Len(segments) + 1)'
    BY <1>1, <2>1 DEF LoopInv, Counters, Position, n
  <2>3. TokensOf(i, j)' = 0
    BY <2>1, <2>2, NoTokens DEF TokensOf
  <2>4. ~(i' < j')
    BY <2>1, <2>2
  <2>5. \A w \in DOMAIN windows' : Filled(windows[w].first, windows[w].last)'
    BY <2>1 DEF WindowInv, Filled, TokensOf, Tokens
  <2> QED BY <1>1, <2>1, <2>3, <2>4, <2>5 DEF WindowInv
<1> QED BY <1>2, <1>3, <1>4, <1>5, <1>6, <1>7 DEF CNext


\* What is kept is listed in the order of the windows.
LEMMA ChunksAreListed ==
    ASSUME LoopInv
    PROVE  /\ Ascending(Kept) \in Seq(Kept)
           /\ Kept \in SUBSET DOMAIN windows
           /\ DOMAIN Chunks = 1 .. Len(Ascending(Kept))
           /\ \A c \in DOMAIN Chunks : \E w \in Kept : Chunks[c] = ChunkOf(w)
           /\ \A w \in Kept : \E c \in DOMAIN Chunks : Chunks[c] = ChunkOf(w)
<1>1. windows \in Seq([first : Nat, last : Nat]) /\ DOMAIN windows = 1 .. Len(windows) /\ Len(windows) \in Nat
  BY DEF LoopInv, Counters
<1>2. Kept \in SUBSET DOMAIN windows
  BY DEF Kept
<1>3. Kept \in SUBSET Nat /\ IsFiniteSet(Kept)
  <2>1. IsFiniteSet(DOMAIN windows)
    BY <1>1, FS_Interval
  <2> QED BY <1>1, <1>2, <2>1, FS_Subset
<1> DEFINE ws == Ascending(Kept)
<1>4. /\ ws \in Seq(Kept)
      /\ \A w \in Kept : \E c \in 1 .. Len(ws) : ws[c] = w
  BY <1>3, AscendingLists
<1> HIDE DEF ws
<1>5. DOMAIN ws = 1 .. Len(ws) /\ \A c \in 1 .. Len(ws) : ws[c] \in Kept
  BY <1>4
<1>6. Chunks = [c \in DOMAIN ws |-> ChunkOf(ws[c])]
  BY DEF Chunks, ws
<1>7. DOMAIN Chunks = 1 .. Len(ws) /\ \A c \in 1 .. Len(ws) : Chunks[c] = ChunkOf(ws[c])
  BY <1>5, <1>6
<1>8. \A c \in DOMAIN Chunks : \E w \in Kept : Chunks[c] = ChunkOf(w)
  BY <1>5, <1>7
<1>9. \A w \in Kept : \E c \in DOMAIN Chunks : Chunks[c] = ChunkOf(w)
  BY <1>4, <1>7
<1> QED BY <1>2, <1>4, <1>7, <1>8, <1>9 DEF ws

LEMMA TextsAreListed ==
    ASSUME LoopInv
    PROVE  Texts \in Seq({Chunks[c].content : c \in DOMAIN Chunks})
<1> DEFINE N == Len(Ascending(Kept))
           X == {Chunks[c].content : c \in DOMAIN Chunks}
<1>1. N \in Nat /\ DOMAIN Chunks = 1 .. N
  BY ChunksAreListed
<1>2. Texts \in [1 .. N -> X]
  <2> HIDE DEF N
  <2> QED BY <1>1 DEF Texts
<1> HIDE DEF N, X
<1>3. Texts \in Seq(X)
  BY <1>1, <1>2, FunctionsAreLists
<1> QED BY <1>3 DEF X

\* A window with the same text as a given one is kept.
LEMMA TextIsKept ==
    ASSUME LoopInv, NEW w \in DOMAIN windows
    PROVE  \E c \in DOMAIN Chunks : Chunks[c].content = Content(w)
<1> DEFINE T == {v \in DOMAIN windows : Content(v) = Content(w)}
<1>1. DOMAIN windows = 1 .. Len(windows) /\ Len(windows) \in Nat
  BY DEF LoopInv, Counters
<1>2. PICK v \in T : \A m \in T : v <= m
  <2>1. w \in T /\ T \in SUBSET Nat
    BY <1>1
  <2> HIDE DEF T
  <2> QED BY <2>1, LeastNumber
<1>3. v \in DOMAIN windows /\ Content(v) = Content(w)
  BY <1>2
<1>4. ASSUME NEW m \in 1 .. v - 1
      PROVE  Content(m) # Content(v)
  <2>1. m \in DOMAIN windows /\ m < v /\ m \in Nat /\ v \in Nat
    BY <1>1, <1>3
  <2>2. m \notin T
    <3> HIDE DEF T
    <3> QED BY <1>2, <2>1
  <2> QED BY <1>3, <2>1, <2>2
<1>5. v \in Kept
  BY <1>3, <1>4 DEF Kept
<1>6. PICK c \in DOMAIN Chunks : Chunks[c] = ChunkOf(v)
  BY <1>5, ChunksAreListed
<1> QED BY <1>3, <1>6 DEF ChunkOf

\* The lines of a window are those of its segments.
LEMMA LinesOfAWindow ==
    ASSUME WindowInv, NEW w \in DOMAIN windows
    PROVE  LinesOf(Content(w)) = UNION {Range(segments[s].text) : s \in Segs(w)}
<1> DEFINE a == windows[w].first
           b == windows[w].last
<1>1. a \in Nat /\ b \in Nat /\ 1 <= a /\ a <= b
  <2>1. windows \in Seq([first : Nat, last : Nat])
    BY DEF WindowInv, LoopInv, Counters
  <2>2. windows[w] \in [first : Nat, last : Nat]
    BY <2>1, ItemOfAList, Zenon
  <2>3. 1 <= a /\ a <= b
    BY DEF WindowInv, Filled
  <2> QED BY <2>2, <2>3
<1>2. /\ DOMAIN Content(w) = 1 .. b + 1 - a
      /\ \A s \in 1 .. b + 1 - a : Content(w)[s] = segments[a + s - 1].text
  BY DEF Content
<1>3. Segs(w) = a .. b
  BY DEF Segs
<1> HIDE DEF a, b
<1>4. \A s \in 1 .. b + 1 - a : a + s - 1 \in a .. b
  BY <1>1
<1>5. \A s \in a .. b : s - a + 1 \in 1 .. b + 1 - a /\ a + (s - a + 1) - 1 = s
  BY <1>1
<1>6. \A s \in a .. b : Content(w)[s - a + 1] = segments[s].text
  <2> TAKE s \in a .. b
  <2>1. s - a + 1 \in 1 .. b + 1 - a /\ a + (s - a + 1) - 1 = s
    BY <1>5
  <2>2. Content(w)[s - a + 1] = segments[a + (s - a + 1) - 1].text
    BY <1>2, <2>1
  <2> QED BY <2>1, <2>2
<1>7. LinesOf(Content(w)) \subseteq UNION {Range(segments[s].text) : s \in a .. b}
  BY <1>2, <1>4 DEF LinesOf
<1>8. UNION {Range(segments[s].text) : s \in a .. b} \subseteq LinesOf(Content(w))
  BY <1>2, <1>5, <1>6 DEF LinesOf
<1> QED BY <1>3, <1>7, <1>8

\* What the chunks say is what the document says.
LEMMA ChunksSayTheDocument ==
    ASSUME WindowInv, at = "drafted"
    PROVE  /\ \A p \in DOMAIN pages : \A line \in Range(Cleaned(pages)[p]) \ {Blank} :
                \E c \in DOMAIN Chunks : line \in LinesOf(Chunks[c].content)
           /\ \A c \in DOMAIN Chunks :
                LinesOf(Chunks[c].content) \subseteq
                   UNION {Range(pages[p]) : p \in Chunks[c].page_start .. Chunks[c].page_end}
<1>1. LoopInv /\ pages \in Documents /\ segments = SegmentsOf(pages) /\ segments \in Seq(Segment)
  BY DEF WindowInv, LoopInv, Counters
<1>2. ASSUME NEW p \in DOMAIN pages, NEW line \in Range(Cleaned(pages)[p]) \ {Blank}
      PROVE  \E c \in DOMAIN Chunks : line \in LinesOf(Chunks[c].content)
  <2>1. line \in Lines \cup {Blank}
    <3>1. Cleaned(pages) \in Seq(Seq(Lines \cup {Blank})) /\ p \in 1 .. Len(Cleaned(pages))
      <4>1. pages \in Seq(Seq(Lines \cup {Blank}))
        BY <1>1, CleanedPages
      <4>2. p \in 1 .. Len(pages)
        BY <4>1
      <4> QED BY <1>1, <4>2, CleanedPages
    <3>2. Cleaned(pages)[p] \in Seq(Lines \cup {Blank})
      BY <3>1
    <3> QED BY <3>2 DEF Range
  <2>2. PICK s \in 1 .. Len(segments) : line \in Range(segments[s].text)
    BY <1>1, <1>2, <2>1, SegmentsOfADocument
  <2>3. PICK w \in DOMAIN windows : s \in Segs(w)
    BY <1>1 DEF LoopInv, Behind, Covered, n
  <2>4. line \in LinesOf(Content(w))
    BY <2>2, <2>3, LinesOfAWindow
  <2>5. PICK c \in DOMAIN Chunks : Chunks[c].content = Content(w)
    BY <1>1, TextIsKept
  <2> QED BY <2>4, <2>5
<1>3. ASSUME NEW c \in DOMAIN Chunks, NEW line \in LinesOf(Chunks[c].content)
      PROVE  \E p \in Chunks[c].page_start .. Chunks[c].page_end : line \in Range(pages[p])
  <2>1. PICK w \in Kept : Chunks[c] = ChunkOf(w)
    BY <1>1, ChunksAreListed
  <2>2. w \in DOMAIN windows
    BY <1>1, ChunksAreListed
  <2> DEFINE a == windows[w].first
             b == windows[w].last
  <2>3. /\ Chunks[c].content = Content(w) /\ Chunks[c].page_start = segments[a].page
        /\ Chunks[c].page_end = segments[b].page
    BY <2>1 DEF ChunkOf
  <2>4. a \in Nat /\ b \in Nat /\ 1 <= a /\ a <= b /\ b <= Len(segments) /\ Len(segments) \in Nat
    <3>1. windows \in Seq([first : Nat, last : Nat])
      BY <1>1 DEF LoopInv, Counters
    <3>2. windows[w] \in [first : Nat, last : Nat]
      BY <2>2, <3>1, ItemOfAList, Zenon
    <3>3. 1 <= a /\ a <= b /\ b <= Len(segments)
      BY <2>2 DEF WindowInv, Filled
    <3>4. Len(segments) \in Nat
      BY <1>1
    <3> QED BY <3>2, <3>3, <3>4
  <2>5. PICK s \in Segs(w) : line \in Range(segments[s].text)
    BY <1>3, <2>2, <2>3, LinesOfAWindow
  <2>6. s \in a .. b
    BY <2>5 DEF Segs
  <2> HIDE DEF a, b
  <2>7. s \in 1 .. Len(segments) /\ a \in 1 .. Len(segments) /\ b \in 1 .. Len(segments) /\ a <= s /\ s <= b
    BY <2>4, <2>6
  <2>8. /\ segments[a].page <= segments[s].page /\ segments[s].page <= segments[b].page
        /\ Range(segments[s].text) \subseteq Range(pages[segments[s].page])
    BY <1>1, <2>7, SegmentsOfADocument
  <2>9. segments[a].page \in Nat /\ segments[s].page \in Nat /\ segments[b].page \in Nat
    <3>1. segments[a] \in Segment /\ segments[s] \in Segment /\ segments[b] \in Segment
      BY <1>1, <2>7
    <3> QED BY <3>1 DEF Segment
  <2>10. segments[s].page \in segments[a].page .. segments[b].page
    BY <2>8, <2>9
  <2> QED BY <2>3, <2>5, <2>8, <2>10
<1> QED BY <1>2, <1>3

LEMMA NextBatch ==
    ASSUME NEW X, NEW s \in Seq(X), NEW m \in Nat, NEW e \in Nat, m <= e, e <= Len(s)
    PROVE  /\ SubSeq(s, 1, m) \o SubSeq(s, m + 1, e) = SubSeq(s, 1, e)
           /\ Len(SubSeq(s, 1, e)) = e
<1> DEFINE a == SubSeq(s, 1, m)
           b == SubSeq(s, m + 1, e)
           c == SubSeq(s, 1, e)
<1>1. Len(s) \in Nat /\ m <= Len(s)
  OBVIOUS
<1>2. a \in Seq(X) /\ Len(a) = m /\ \A q \in 1 .. m : a[q] = s[q]
  BY <1>1
<1>3. b \in Seq(X) /\ Len(b) = e - m /\ \A q \in 1 .. e - m : b[q] = s[m + q]
  BY <1>1
<1>4. c \in Seq(X) /\ Len(c) = e /\ \A q \in 1 .. e : c[q] = s[q]
  BY <1>1
<1> HIDE DEF a, b, c
<1>5. /\ a \o b \in Seq(X) /\ Len(a \o b) = m + (e - m)
      /\ \A q \in 1 .. m + (e - m) : (a \o b)[q] = IF q <= m THEN a[q] ELSE b[q - m]
  <2>1. /\ a \o b \in Seq(X) /\ Len(a \o b) = Len(a) + Len(b)
        /\ \A q \in 1 .. Len(a) + Len(b) : (a \o b)[q] = IF q <= Len(a) THEN a[q] ELSE b[q - Len(a)]
    BY <1>2, <1>3, ConcatProperties, Zenon
  <2>2. Len(a) = m /\ Len(b) = e - m
    BY <1>2, <1>3
  <2> QED BY <2>1, <2>2, Zenon
<1>6. m + (e - m) = e
  OBVIOUS
<1>7. \A q \in 1 .. e : (a \o b)[q] = s[q]
  <2> TAKE q \in 1 .. e
  <2>1. CASE q <= m
    <3>1. q \in 1 .. m /\ q \in 1 .. m + (e - m)
      BY <2>1
    <3>2. (a \o b)[q] = a[q] /\ a[q] = s[q]
      BY <1>2, <1>5, <2>1, <3>1, Zenon
    <3> QED BY <3>2, Zenon
  <2>2. CASE ~(q <= m)
    <3>1. q - m \in 1 .. e - m /\ m + (q - m) = q /\ q \in 1 .. m + (e - m)
      BY <2>2
    <3>2. (a \o b)[q] = b[q - m] /\ b[q - m] = s[m + (q - m)]
      BY <1>3, <1>5, <2>2, <3>1, Zenon
    <3> QED BY <3>1, <3>2, Zenon
  <2> QED BY <2>1, <2>2, Zenon
<1>8. a \o b = c
  <2>1. /\ c \in Seq(X) /\ Len(c) = Len(a \o b) /\ a \o b \in Seq(X)
        /\ Len(a \o b) = e /\ \A q \in 1 .. e : (a \o b)[q] = c[q]
    BY <1>4, <1>5, <1>6, <1>7, Zenon
  <2> QED BY <2>1, SeqEqual, Zenon
<1> QED BY <1>4, <1>8 DEF a, b, c

\* The vectors so far are those of the first texts, in order.
EmbedInv ==
    /\ WindowInv
    /\ embedding \in {"none", "trying", "done", "raised"}
    /\ embedding # "none" => at = "drafted"
    /\ embedding = "none" => vectors = <<>>
    /\ embedding = "trying" => \E m \in 0 .. Len(Texts) : vectors = SubSeq(Texts, 1, m)
    /\ embedding = "done" => vectors = Texts

LEMMA EmbedSteps ==
    ASSUME EmbedInv, [Document]_<<cvars, evars>>
    PROVE  EmbedInv'
<1>1. WindowInv' /\ WindowInv /\ LoopInv
  <2>1. [CNext]_cvars
    BY DEF Document, ENext, EmbedBegin, EmbedBatch, TransientError, OtherError, cvars
  <2> QED BY <2>1, WindowSteps DEF EmbedInv, WindowInv
<1>2. UNCHANGED cvars => Texts' = Texts /\ at' = at
  BY DEF Texts, Chunks, ChunkOf, Kept, Content, HeadingAt, IsHeading, cvars
<1> DEFINE X == {Chunks[c].content : c \in DOMAIN Chunks}
<1>3. Texts \in Seq(X) /\ Len(Texts) \in Nat
  <2>1. Texts \in Seq(X)
    BY <1>1, TextsAreListed
  <2> HIDE DEF X
  <2> QED BY <2>1
<1> HIDE DEF X
<1>4. CASE UNCHANGED <<cvars, evars>>
  BY <1>1, <1>2, <1>4 DEF EmbedInv, evars
<1>5. CASE CNext /\ UNCHANGED evars
  <2>1. at # "drafted"
    BY <1>5 DEF CNext, Split, Extend, Draft, StepBack, Advance
  <2> QED BY <1>1, <1>5, <2>1 DEF EmbedInv, evars
<1>6. CASE EmbedBegin
  <2>1. vectors' = <<>> /\ vectors = <<>> /\ UNCHANGED cvars /\ at = "drafted"
        /\ embedding' = IF Texts = <<>> THEN "done" ELSE "trying"
    BY <1>6 DEF EmbedBegin, EmbedInv
  <2>2. SubSeq(Texts, 1, 0) = <<>> /\ 0 \in 0 .. Len(Texts)
    BY <1>3
  <2>3. embedding' = "trying" => \E m \in 0 .. Len(Texts) : vectors' = SubSeq(Texts, 1, m)
    BY <2>1, <2>2
  <2> QED BY <1>1, <1>2, <2>1, <2>3 DEF EmbedInv
<1>7. CASE EmbedBatch
  <2>1. PICK m \in 0 .. Len(Texts) : vectors = SubSeq(Texts, 1, m)
    BY <1>7 DEF EmbedBatch, EmbedInv
  <2>2. Len(vectors) = m
    BY <1>3, <2>1
  <2> DEFINE e == IF m + BatchSize < Len(Texts) THEN m + BatchSize ELSE Len(Texts)
  <2>3. e \in Nat /\ m <= e /\ e <= Len(Texts)
    BY <1>3, EmbeddingsAssumption
  <2>4. Batch = SubSeq(Texts, m + 1, e)
    BY <2>2 DEF Batch
  <2> HIDE DEF e
  <2>5. vectors' = SubSeq(Texts, 1, e) /\ Len(vectors') = e
    <3>1. vectors' = SubSeq(Texts, 1, m) \o SubSeq(Texts, m + 1, e)
      BY <1>7, <2>1, <2>4 DEF EmbedBatch
    <3>2. m \in Nat
      BY <1>3
    <3> QED BY <1>3, <2>3, <3>1, <3>2, NextBatch
  <2>6. /\ UNCHANGED cvars /\ at = "drafted"
        /\ embedding' = IF Len(vectors') = Len(Texts) THEN "done" ELSE "trying"
    BY <1>7 DEF EmbedBatch, EmbedInv
  <2>7. embedding' = "done" => vectors' = Texts
    <3>1. embedding' = "done" => e = Len(Texts)
      BY <2>5, <2>6
    <3>2. SubSeq(Texts, 1, Len(Texts)) = Texts
      BY <1>3
    <3> QED BY <2>5, <3>1, <3>2
  <2>8. \E x \in 0 .. Len(Texts) : vectors' = SubSeq(Texts, 1, x)
    <3>1. e \in 0 .. Len(Texts)
      BY <1>3, <2>3
    <3> QED BY <2>5, <3>1
  <2> QED BY <1>1, <1>2, <2>6, <2>7, <2>8 DEF EmbedInv
<1>8. CASE TransientError
  <2>1. UNCHANGED <<cvars, vectors>> /\ embedding = "trying" /\ embedding' \in {"raised", "trying"}
    BY <1>8 DEF TransientError
  <2>2. UNCHANGED cvars
    BY <2>1
  <2> QED BY <1>1, <1>2, <2>1, <2>2 DEF EmbedInv
<1>9. CASE OtherError
  <2>1. UNCHANGED <<cvars, vectors>> /\ embedding = "trying" /\ embedding' = "raised"
    BY <1>9 DEF OtherError
  <2>2. UNCHANGED cvars
    BY <2>1
  <2> QED BY <1>1, <1>2, <2>1, <2>2 DEF EmbedInv
<1> QED BY <1>4, <1>5, <1>6, <1>7, <1>8, <1>9 DEF Document, ENext

\* For any document, batch size, target, overlap and failures, what is indexed
\* is the document: no line is lost, none is added, no window goes on beyond the
\* target, and each chunk has the vector of its own text.
THEOREM IndexHoldsTheText == DocumentSpec => []TextIsIndexed
<1>1. CInit /\ EInit => EmbedInv
  <2> SUFFICES ASSUME CInit, EInit
               PROVE  EmbedInv
    OBVIOUS
  <2>1. LoopInv
    BY LoopStarts
  <2> QED BY <2>1 DEF CInit, EInit, EmbedInv, WindowInv
<1>2. EmbedInv /\ [Document]_<<cvars, evars>> => EmbedInv'
  BY EmbedSteps
<1>3. EmbedInv => TextIsIndexed
  <2> SUFFICES ASSUME EmbedInv, embedding = "done"
               PROVE  /\ \A p \in DOMAIN pages : \A line \in Range(Cleaned(pages)[p]) \ {Blank} :
                           \E c \in DOMAIN Chunks : line \in LinesOf(Chunks[c].content)
                      /\ \A c \in DOMAIN Chunks :
                           LinesOf(Chunks[c].content) \subseteq
                              UNION {Range(pages[p]) : p \in Chunks[c].page_start .. Chunks[c].page_end}
                      /\ \A w \in DOMAIN windows : TokensOf(windows[w].first, windows[w].last) < TargetTokens
                      /\ vectors = Texts
    BY LoopCovers DEF TextIsIndexed, TokensOf, EmbedInv, WindowInv
  <2>1. WindowInv /\ at = "drafted" /\ vectors = Texts
    BY DEF EmbedInv
  <2>2. \A w \in DOMAIN windows : TokensOf(windows[w].first, windows[w].last) < TargetTokens
    BY <2>1 DEF WindowInv, Filled
  <2> QED BY <2>1, <2>2, ChunksSayTheDocument
<1> QED BY <1>1, <1>2, <1>3, PTL DEF DocumentSpec

-----------------------------------------------------------------------------
(* The login limiter *)

LimiterInv ==
    /\ clock \in Nat
    /\ hits \in [Keys -> [start : Nat, count : Nat]]
    /\ call \in [Threads -> [key : Keys \cup {"none"}, now : Nat]]
    /\ \A t \in Threads : call[t] # NoCall => call[t].key \in Keys
    /\ granted \in [Keys -> 0 .. MaxEvents]
    /\ \A key \in Keys : granted[key] <= hits[key].count

LEMMA LimiterSteps ==
    ASSUME LimiterInv, [RNext]_rvars
    PROVE  /\ LimiterInv'
           /\ \A key \in Keys :
                /\ granted'[key] <= MaxEvents
                /\ hits'[key].start = hits[key].start \/ hits[key].count = 0
                     \/ hits'[key].start >= hits[key].start + Window
<1> USE LimiterAssumption
<1>1. CASE UNCHANGED rvars
  BY <1>1 DEF LimiterInv, rvars
<1>2. CASE Tick
  BY <1>2 DEF LimiterInv, Tick
<1>3. ASSUME NEW t \in Threads, ReadClock(t)
      PROVE  LimiterInv' /\ UNCHANGED <<hits, granted>>
  <2>1. PICK key \in Keys : call' = [call EXCEPT ![t] = [key |-> key, now |-> clock]]
    BY <1>3 DEF ReadClock
  <2> QED BY <2>1, <1>3 DEF LimiterInv, ReadClock
<1>4. ASSUME NEW t \in Threads, Allow(t)
      PROVE  /\ LimiterInv'
             /\ \A key \in Keys :
                  /\ granted'[key] <= MaxEvents
                  /\ hits'[key].start = hits[key].start \/ hits[key].count = 0
                       \/ hits'[key].start >= hits[key].start + Window
  <2> DEFINE key == call[t].key
             now == call[t].now
             new == hits[key].count = 0 \/ Elapsed(hits[key], now)
             count == IF new THEN 1 ELSE hits[key].count + 1
             start == IF new THEN now ELSE hits[key].start
             allowed == (IF new THEN 0 ELSE granted[key])
                          + (IF count <= MaxEvents THEN 1 ELSE 0)
  <2>1. key \in Keys /\ now \in Nat /\ hits[key] \in [start : Nat, count : Nat]
    BY <1>4 DEF LimiterInv, Allow
  <2>2. count \in Nat /\ start \in Nat
    BY <2>1
  <2>3. allowed \in 0 .. MaxEvents /\ allowed <= count
    BY <2>1 DEF LimiterInv
  <2>4. start = hits[key].start \/ hits[key].count = 0 \/ start >= hits[key].start + Window
    BY <2>1 DEF Elapsed
  <2>5. /\ hits' = [hits EXCEPT ![key] = [start |-> start, count |-> count]]
        /\ granted' = [granted EXCEPT ![key] = allowed]
        /\ call' = [call EXCEPT ![t] = NoCall]
        /\ clock' = clock
    BY <1>4 DEF Allow
  <2>6. hits' \in [Keys -> [start : Nat, count : Nat]]
    BY <2>1, <2>2, <2>5 DEF LimiterInv
  <2>7. /\ granted' \in [Keys -> 0 .. MaxEvents]
        /\ \A x \in Keys : granted'[x] <= hits'[x].count
    BY <2>1, <2>3, <2>5, <2>6 DEF LimiterInv
  <2>8. /\ call' \in [Threads -> [key : Keys \cup {"none"}, now : Nat]]
        /\ \A u \in Threads : call'[u] # NoCall => call'[u].key \in Keys
    BY <2>5 DEF LimiterInv, NoCall
  <2>9. LimiterInv'
    BY <2>5, <2>6, <2>7, <2>8 DEF LimiterInv
  <2>10. \A x \in Keys :
           hits'[x].start = hits[x].start \/ hits[x].count = 0
             \/ hits'[x].start >= hits[x].start + Window
    BY <2>1, <2>4, <2>5 DEF LimiterInv
  <2> QED BY <2>7, <2>9, <2>10
<1> QED
  <2>1. CASE UNCHANGED rvars \/ Tick
    BY <2>1, <1>1, <1>2 DEF LimiterInv, rvars, Tick
  <2>2. CASE \E t \in Threads : ReadClock(t)
    BY <2>2, <1>3 DEF LimiterInv
  <2> QED BY <2>1, <2>2, <1>4 DEF RNext

\* However the threads read the clock and get at the lock, a window grants no more
\* than MaxEvents attempts on a key, and the next begins a full window later.
THEOREM LimiterHolds == RateSpec => LimitPerWindow
<1>1. RInit => LimiterInv
  BY LimiterAssumption DEF RInit, LimiterInv, NoCall
<1>2. LimiterInv /\ [RNext]_rvars => LimiterInv'
  BY LimiterSteps
<1>3. LimiterInv /\ [RNext]_rvars =>
        [\A key \in Keys :
           /\ granted'[key] <= MaxEvents
           /\ hits'[key].start = hits[key].start \/ hits[key].count = 0
                \/ hits'[key].start >= hits[key].start + Window]_rvars
  BY LimiterSteps
<1> QED BY <1>1, <1>2, <1>3, PTL DEF RateSpec, LimitPerWindow

-----------------------------------------------------------------------------
(* Retrieval and citations *)

\* The lists of a finite set are sequences of its elements, each once.
LEMMA ListsOfASet ==
    ASSUME NEW S, IsFiniteSet(S), NEW s \in SetToSeqs(S)
    PROVE  /\ s \in Seq(S)
           /\ \A q, r \in DOMAIN s : q # r => s[q] # s[r]
           /\ \A x \in S : \E q \in DOMAIN s : s[q] = x
<1>1. Cardinality(S) \in Nat
  BY FS_CardinalityType
<1>2. s \in [1 .. Cardinality(S) -> S]
  BY DEF SetToSeqs
<1>3. \A q, r \in DOMAIN s : q # r => s[q] # s[r]
  BY <1>2 DEF SetToSeqs
<1>4. s \in Injection(1 .. Cardinality(S), S)
  BY <1>2, <1>3 DEF Injection, IsInjective
<1>5. Cardinality(1 .. Cardinality(S)) = Cardinality(S)
  BY <1>1, FS_Interval
<1>6. s \in Surjection(1 .. Cardinality(S), S)
  BY <1>4, <1>5, FS_Injection
<1>7. \A x \in S : \E q \in DOMAIN s : s[q] = x
  BY <1>2, <1>6 DEF Surjection
<1> QED BY <1>1, <1>2, <1>3, <1>7

LEMMA ChunkSetsAreFinite ==
    ASSUME NEW S \in SUBSET ChunkIds
    PROVE  IsFiniteSet(S)
<1>1. IsFiniteSet(ChunkIds)
  BY RetrievalAssumption, FS_Interval DEF ChunkIds
<1> QED BY <1>1, FS_Subset

LEMMA RankingsAreLists ==
    ASSUME NEW limit, NEW s \in Rankings(limit)
    PROVE  s \in Seq(ChunkIds) /\ Len(s) <= limit
<1>1. PICK S \in SUBSET ChunkIds : s \in SetToSeqs(S)
  BY DEF Rankings, SetToAllKPermutations
<1>2. s \in Seq(S)
  BY <1>1, ChunkSetsAreFinite, ListsOfASet
<1> QED BY <1>2 DEF Rankings

LEMMA FirstOfAList ==
    ASSUME NEW S, NEW s \in Seq(S), NEW limit \in Nat
    PROVE  /\ First(s, limit) \in Seq(S)
           /\ DOMAIN First(s, limit) = 1 .. IF limit < Len(s) THEN limit ELSE Len(s)
           /\ \A q \in DOMAIN First(s, limit) : q \in DOMAIN s /\ First(s, limit)[q] = s[q]
BY DEF First

\* What is read of a chunk is read of one in rows, from the hydration on.
GroundInv ==
    /\ topK \in Nat
    /\ rows \subseteq ChunkIds
    /\ stage \in {"rerank", "select"} => ordered \in Seq(rows)
    /\ stage \in {"answer", "answered"} => selected \in Seq(rows)
    /\ CitationsAreGrounded

LEMMA StagesStayGrounded ==
    ASSUME GroundInv, QNext, UNCHANGED avars
    PROVE  GroundInv'
<1>1. CASE SearchLexical \/ SearchDense \/ Fuse
  BY <1>1 DEF GroundInv, SearchLexical, SearchDense, Fuse, CitationsAreGrounded
<1>2. CASE Hydrate
  <2>1. rows' \in SUBSET ChunkIds /\ Range(ordered) \cap rows' \in SUBSET ChunkIds
    BY <1>2 DEF Hydrate
  <2>2. ordered' \in Seq(Range(ordered) \cap rows')
    <3>1. ordered' \in SetToSeqs(Range(ordered) \cap rows')
      BY <1>2 DEF Hydrate
    <3> QED BY <2>1, <3>1, ChunkSetsAreFinite, ListsOfASet
  <2>3. ordered' \in Seq(rows')
    BY <2>2
  <2> QED BY <1>2, <2>1, <2>3 DEF GroundInv, Hydrate, CitationsAreGrounded
<1>3. CASE Rerank
  <2>1. ordered \in Seq(rows) /\ rows' = rows /\ rows \subseteq ChunkIds
    BY <1>3 DEF GroundInv, Rerank
  <2>2. Range(ordered) \in SUBSET ChunkIds /\ Range(ordered) \subseteq rows
    BY <2>1 DEF Range
  <2>3. ordered' \in Seq(rows)
    <3>1. CASE ordered' \in SetToSeqs(Range(ordered))
      <4>1. ordered' \in Seq(Range(ordered))
        BY <3>1, <2>2, ChunkSetsAreFinite, ListsOfASet
      <4> QED BY <4>1, <2>2
    <3> QED BY <1>3, <2>1, <3>1 DEF Rerank
  <2> QED BY <1>3, <2>3 DEF GroundInv, Rerank, CitationsAreGrounded
<1>4. CASE Select
  <2>1. ordered \in Seq(rows) /\ topK \in Nat
    BY <1>4 DEF GroundInv, Select
  <2>2. selected' \in Seq(rows)
    BY <1>4, <2>1, FirstOfAList DEF Select
  <2> QED BY <1>4, <2>2 DEF GroundInv, Select, CitationsAreGrounded
<1> QED BY <1>1, <1>2, <1>3, <1>4 DEF QNext

\* The labels shown are those of the evidence, or those cited of them.
LEMMA AnswersStayGrounded ==
    ASSUME GroundInv, AnswerNothing \/ GenerationFails \/ Generate
    PROVE  GroundInv'
<1>1. selected \in Seq(rows) /\ stage' = "answered" /\ UNCHANGED <<topK, rows, ordered, selected>>
  BY DEF GroundInv, AnswerNothing, GenerationFails, Generate, Settle
<1>2. \A labels \in SUBSET DOMAIN selected :
        \A label \in labels : SourcesOf(labels)[label] \in rows
  BY <1>1 DEF SourcesOf
<1>3. CitationsAreGrounded'
  <2>1. CASE AnswerNothing
    BY <2>1, <1>1, <1>2 DEF AnswerNothing, Settle, CitationsAreGrounded, SourcesOf
  <2>2. CASE GenerationFails
    BY <2>2, <1>1, <1>2 DEF GenerationFails, Settle, CitationsAreGrounded, SourcesOf
  <2>3. CASE Generate
    <3> DEFINE valid == reply'.labels \cap DOMAIN selected
    <3>1. CASE Evaluate(reply', DOMAIN selected) = "answered"
      <4>1. reply'.labels # {} /\ valid = reply'.labels
        BY <3>1 DEF Evaluate
      <4>2. status' = "answered" /\ cited' = valid /\ sources' = SourcesOf(valid)
        BY <2>3, <3>1 DEF Generate, Settle
      <4> QED BY <4>1, <4>2, <1>1 DEF CitationsAreGrounded, SourcesOf
    <3>2. CASE Evaluate(reply', DOMAIN selected) = "insufficient_evidence"
      <4>1. /\ status' = "insufficient_evidence" /\ cited' = {}
            /\ sources' = SourcesOf(DOMAIN selected)
        BY <2>3, <3>2 DEF Generate, Settle
      <4> QED BY <4>1, <1>1 DEF CitationsAreGrounded, SourcesOf
    <3> QED BY <3>1, <3>2 DEF Evaluate
  <2> QED BY <2>1, <2>2, <2>3
<1> QED BY <1>1, <1>3 DEF GroundInv

\* However the corpus and the user's documents change between the stages, and
\* whatever the model replies, an answer cites what it was given and shows only
\* chunks the user could see when they were read.
THEOREM AnswersAreGrounded == QuestionSpec => []CitationsAreGrounded
<1>1. QInit /\ AInit => GroundInv
  BY RetrievalAssumption DEF QInit, AInit, GroundInv, CitationsAreGrounded
<1>2. GroundInv /\ [ANext]_<<qvars, avars>> => GroundInv'
  <2>1. GroundInv /\ UNCHANGED <<qvars, avars>> => GroundInv'
    BY DEF GroundInv, CitationsAreGrounded, qvars, avars
  <2> QED BY <2>1, StagesStayGrounded, AnswersStayGrounded DEF ANext
<1>3. GroundInv => CitationsAreGrounded
  BY DEF GroundInv
<1> QED BY <1>1, <1>2, <1>3, PTL DEF QuestionSpec

-----------------------------------------------------------------------------
(* Fusion *)

\* Fractions with positive denominators add up monotonically.
LEMMA SumsCompare ==
    ASSUME NEW a \in Nat, NEW b \in Nat \ {0}, NEW c \in Nat, NEW d \in Nat \ {0},
           NEW p \in Nat, NEW q \in Nat \ {0}, NEW r \in Nat, NEW s \in Nat \ {0},
           a * d >= c * b, p * s >= r * q,
           a * d > c * b \/ p * s > r * q
    PROVE  (a * q + p * b) * (d * s) > (c * s + r * d) * (b * q)
<1> DEFINE x == a * d - c * b
           y == p * s - r * q
<1>1. x \in Nat /\ y \in Nat /\ (x > 0 \/ y > 0)
  OBVIOUS
<1>2. q * s \in Nat \ {0} /\ b * d \in Nat \ {0}
  OBVIOUS
<1>3. (a * q + p * b) * (d * s) - (c * s + r * d) * (b * q) = x * (q * s) + y * (b * d)
  OBVIOUS
<1>4. x * (q * s) \in Nat /\ y * (b * d) \in Nat
  BY <1>1, <1>2
<1>5. x * (q * s) > 0 \/ y * (b * d) > 0
  <2> HIDE DEF x, y
  <2>1. \A u \in Nat, v \in Nat : u > 0 /\ v > 0 => u * v > 0
    OBVIOUS
  <2> QED BY <1>1, <1>2, <2>1
<1> QED
  <2> HIDE DEF x, y
  <2>1. (a * q + p * b) * (d * s) \in Int /\ (c * s + r * d) * (b * q) \in Int
    OBVIOUS
  <2> QED BY <1>3, <1>4, <1>5, <2>1

\* The lists of the two searches.
List(list) == list \in Seq(ChunkIds) /\ Len(list) <= PerSource

LEMMA RanksOfAList ==
    ASSUME NEW list, List(list), NEW c \in Found(list)
    PROVE  RankIn(list, c) \in 1 .. PerSource /\ list[RankIn(list, c)] = c
<1>1. \E r \in DOMAIN list : list[r] = c
  BY DEF Found, Range
<1>2. RankIn(list, c) \in DOMAIN list /\ list[RankIn(list, c)] = c
  BY <1>1 DEF RankIn
<1> QED BY <1>2, RetrievalAssumption DEF List

\* The shares of two chunks compare as their places do.
LEMMA SharesCompare ==
    ASSUME NEW list, List(list), NEW c, NEW d
    PROVE  /\ Share(list, c)[1] \in Nat /\ Share(list, c)[2] \in Nat \ {0}
           /\ Place(list, c) \in 1 .. PerSource + 1
           /\ Place(list, c) <= Place(list, d) =>
                Share(list, c)[1] * Share(list, d)[2] >= Share(list, d)[1] * Share(list, c)[2]
           /\ Place(list, c) < Place(list, d) =>
                Share(list, c)[1] * Share(list, d)[2] > Share(list, d)[1] * Share(list, c)[2]
<1>1. CASE c \in Found(list) /\ d \in Found(list)
  BY <1>1, RanksOfAList, RetrievalAssumption DEF Share, Place
<1>2. CASE c \in Found(list) /\ d \notin Found(list)
  BY <1>2, RanksOfAList, RetrievalAssumption DEF Share, Place
<1>3. CASE c \notin Found(list) /\ d \in Found(list)
  BY <1>3, RanksOfAList, RetrievalAssumption DEF Share, Place
<1>4. CASE c \notin Found(list) /\ d \notin Found(list)
  BY <1>4, RanksOfAList, RetrievalAssumption DEF Share, Place
<1> QED BY <1>1, <1>2, <1>3, <1>4

\* A chunk that no list puts behind another, and one before it, scores higher.
LEMMA AgreementScores ==
    ASSUME List(lexical), List(dense), NEW c, NEW d, NotBehind(c, d), ~NotBehind(d, c)
    PROVE  Exceeds(Score(c), Score(d))
<1>1. /\ Place(lexical, c) \in Nat /\ Place(lexical, d) \in Nat
      /\ Place(dense, c) \in Nat /\ Place(dense, d) \in Nat
  BY SharesCompare, RetrievalAssumption
<1>2. /\ Place(lexical, c) <= Place(lexical, d) /\ Place(dense, c) <= Place(dense, d)
      /\ Place(lexical, c) < Place(lexical, d) \/ Place(dense, c) < Place(dense, d)
  BY <1>1 DEF NotBehind
<1> DEFINE lc == Share(lexical, c)  ld == Share(lexical, d)
           dc == Share(dense, c)    dd == Share(dense, d)
<1>3. /\ lc[1] \in Nat /\ lc[2] \in Nat \ {0} /\ ld[1] \in Nat /\ ld[2] \in Nat \ {0}
      /\ dc[1] \in Nat /\ dc[2] \in Nat \ {0} /\ dd[1] \in Nat /\ dd[2] \in Nat \ {0}
  BY SharesCompare
<1>4. /\ lc[1] * ld[2] >= ld[1] * lc[2] /\ dc[1] * dd[2] >= dd[1] * dc[2]
      /\ lc[1] * ld[2] > ld[1] * lc[2] \/ dc[1] * dd[2] > dd[1] * dc[2]
  BY <1>2, SharesCompare
<1>5. (lc[1] * dc[2] + dc[1] * lc[2]) * (ld[2] * dd[2])
        > (ld[1] * dd[2] + dd[1] * ld[2]) * (lc[2] * dc[2])
  <2> HIDE DEF lc, ld, dc, dd
  <2> QED BY <1>3, <1>4, SumsCompare
<1> QED BY <1>5 DEF Exceeds, Score

\* Two shares of 1 / (RrfK + PerSource) are more than one of 1 / (RrfK + 1).
LEMMA BothListsScore ==
    ASSUME List(lexical), List(dense), NEW c, NEW d, InBoth(c), ~InBoth(d),
           PerSource <= RrfK + 1
    PROVE  Exceeds(Score(c), Score(d))
<1>1. PICK l \in 1 .. PerSource, m \in 1 .. PerSource :
        Share(lexical, c) = <<1, RrfK + l>> /\ Share(dense, c) = <<1, RrfK + m>>
  BY RanksOfAList DEF InBoth, Share
<1>2. /\ RrfK + l \in Nat \ {0} /\ RrfK + m \in Nat \ {0}
      /\ RrfK + l <= 2 * RrfK + 1 /\ RrfK + m <= 2 * RrfK + 1
  BY RetrievalAssumption
<1>3. Score(c) = <<(RrfK + m) + (RrfK + l), (RrfK + l) * (RrfK + m)>>
  BY <1>1, <1>2 DEF Score
<1>4. Score(d) = <<0, 1>> \/ \E r \in 1 .. PerSource : Score(d) = <<1, RrfK + r>>
  <2>1. CASE d \notin Found(lexical) /\ d \notin Found(dense)
    BY <2>1 DEF Score, Share
  <2>2. CASE d \in Found(lexical) /\ d \notin Found(dense)
    BY <2>2, RanksOfAList, RetrievalAssumption DEF Score, Share
  <2>3. CASE d \notin Found(lexical) /\ d \in Found(dense)
    BY <2>3, RanksOfAList, RetrievalAssumption DEF Score, Share
  <2> QED BY <2>1, <2>2, <2>3 DEF InBoth
<1>5. CASE Score(d) = <<0, 1>>
  BY <1>2, <1>3, <1>5 DEF Exceeds
<1>6. CASE \E r \in 1 .. PerSource : Score(d) = <<1, RrfK + r>>
  <2>1. PICK r \in 1 .. PerSource : Score(d) = <<1, RrfK + r>>
    BY <1>6
  <2> DEFINE x == RrfK + l  y == RrfK + m  z == RrfK + r
  <2>2. x \in Nat /\ y \in Nat /\ z \in Nat
    BY RetrievalAssumption
  <2>3. x < 2 * z /\ y < 2 * z /\ x > 0 /\ y > 0 /\ z > 0
    BY RetrievalAssumption
  <2>4. (y + x) * z > x * y
    <3> HIDE DEF x, y, z
    <3>1. y * (2 * z - x) > 0 /\ x * (2 * z - y) > 0
      <4>1. \A u \in Nat, v \in Nat : u > 0 /\ v > 0 => u * v > 0
        OBVIOUS
      <4> QED BY <4>1, <2>2, <2>3
    <3>2. 2 * ((y + x) * z) - 2 * (x * y) = y * (2 * z - x) + x * (2 * z - y)
      BY <2>2
    <3> QED BY <2>2, <3>1, <3>2
  <2>5. Score(c)[1] = y + x /\ Score(c)[2] = x * y /\ Score(d)[1] = 1 /\ Score(d)[2] = z
    BY <2>1, <1>3
  <2>6. 1 * (x * y) = x * y
    BY <2>2
  <2>7. Score(c)[1] * Score(d)[2] > Score(d)[1] * Score(c)[2]
    <3> HIDE DEF x, y, z
    <3> QED BY <2>4, <2>5, <2>6
  <2> QED BY <2>7 DEF Exceeds
<1> QED BY <1>4, <1>5, <1>6

LEMMA ScoresAreFractions ==
    ASSUME List(lexical), List(dense), NEW c
    PROVE  Score(c)[1] \in Nat /\ Score(c)[2] \in Nat
<1>1. /\ Share(lexical, c)[1] \in Nat /\ Share(lexical, c)[2] \in Nat
      /\ Share(dense, c)[1] \in Nat /\ Share(dense, c)[2] \in Nat
  BY SharesCompare
<1> DEFINE l == Share(lexical, c)  m == Share(dense, c)
<1>2. Score(c) = <<l[1] * m[2] + m[1] * l[2], l[2] * m[2]>>
  BY DEF Score
<1>3. l[1] * m[2] + m[1] * l[2] \in Nat /\ l[2] * m[2] \in Nat
  <2> HIDE DEF l, m
  <2> QED BY <1>1 DEF l, m
<1> QED BY <1>2, <1>3

\* What scores higher is sorted before, and is kept when the other is.
LEMMA FusedInOrder ==
    ASSUME List(lexical), List(dense),
           NEW s \in Fused, NEW c \in Found(lexical) \cup Found(dense), NEW d,
           Exceeds(Score(c), Score(d)),
           NEW r \in DOMAIN First(s, FusionKeep), First(s, FusionKeep)[r] = d
    PROVE  \E q \in DOMAIN First(s, FusionKeep) : q < r /\ First(s, FusionKeep)[q] = c
<1> DEFINE S == Found(lexical) \cup Found(dense)
<1>1. IsFiniteSet(S)
  <2>1. S \in SUBSET ChunkIds
    BY DEF List, Found, Range
  <2> QED BY <2>1, ChunkSetsAreFinite
<1>2. s \in SetToSeqs(S) /\ \A q, p \in DOMAIN s : q < p => Precedes(s[q], s[p])
  BY DEF Fused
<1>3. s \in Seq(S) /\ \E q \in DOMAIN s : s[q] = c
  <2> HIDE DEF S
  <2>1. c \in S
    BY DEF S
  <2> QED BY <1>1, <1>2, <2>1, ListsOfASet
<1>4. PICK q \in DOMAIN s : s[q] = c
  BY <1>3
<1>5. r \in DOMAIN s /\ s[r] = d
  BY <1>3, FirstOfAList, RetrievalAssumption
<1>6. ~Exceeds(Score(d), Score(c))
  BY ScoresAreFractions DEF Exceeds
<1>7. ~(r < q)
  BY <1>2, <1>4, <1>5, <1>6 DEF Precedes
<1>8. q # r
  BY <1>4, <1>5, <1>6
<1>9. q < r
  BY <1>3, <1>4, <1>5, <1>7, <1>8
<1>10. q \in DOMAIN First(s, FusionKeep)
  <2>1. /\ DOMAIN First(s, FusionKeep)
             = 1 .. IF FusionKeep < Len(s) THEN FusionKeep ELSE Len(s)
        /\ Len(s) \in Nat /\ DOMAIN s = 1 .. Len(s)
    BY <1>3, FirstOfAList, RetrievalAssumption
  <2>2. PICK m \in Nat : DOMAIN First(s, FusionKeep) = 1 .. m
    BY <2>1, RetrievalAssumption
  <2>3. q \in 1 .. Len(s) /\ r \in 1 .. m /\ q < r
    BY <1>4, <1>9, <2>1, <2>2
  <2>4. q \in 1 .. m
    BY <2>1, <2>3
  <2> QED BY <2>2, <2>4
<1>11. First(s, FusionKeep)[q] = c
  <2>1. \A p \in DOMAIN First(s, FusionKeep) : First(s, FusionKeep)[p] = s[p]
    BY <1>3, FirstOfAList, RetrievalAssumption
  <2> QED BY <2>1, <1>4, <1>10
<1> QED BY <1>9, <1>10, <1>11

\* Until they are fused, the lists are what the searches returned.
FusionInv ==
    /\ mode \in HybridModes /\ stage \in {"dense", "fuse"} => List(lexical)
    /\ mode \in HybridModes /\ stage = "fuse" => List(dense)
    /\ FusionAgrees

LEMMA FuseAgrees ==
    ASSUME FusionInv, Fuse, PerSource <= RrfK + 1
    PROVE  FusionAgrees'
<1> SUFFICES ASSUME mode \in HybridModes,
                    NEW c \in Found(lexical) \cup Found(dense),
                    NEW d \in Found(lexical) \cup Found(dense),
                    d \in Range(ordered'),
                    (NotBehind(c, d) /\ ~NotBehind(d, c)) \/ (InBoth(c) /\ ~InBoth(d))
             PROVE  Before(c, d)'
  BY DEF Fuse, FusionAgrees, NotBehind, InBoth, Place, Before
<1>1. List(lexical) /\ List(dense)
  BY DEF FusionInv, Fuse
<1>2. Exceeds(Score(c), Score(d))
  BY <1>1, AgreementScores, BothListsScore
<1>3. PICK s \in Fused : ordered' = First(s, FusionKeep)
  BY DEF Fuse, HybridModes
<1>4. PICK r \in DOMAIN ordered' : ordered'[r] = d
  BY DEF Range
<1>5. \E q \in DOMAIN ordered' : q < r /\ ordered'[q] = c
  BY <1>1, <1>2, <1>3, <1>4, FusedInOrder
<1> QED BY <1>4, <1>5 DEF Before

\* For any lists, as long as RrfK damps the ranks of one list enough for a chunk
\* both found to come before one that only one of them found (60 and 30 in the
\* code), fusion respects what the lists agree on.
THEOREM FusionRespectsTheLists ==
    ASSUME PerSource <= RrfK + 1
    PROVE  QuestionSpec => []FusionAgrees
<1>1. QInit /\ AInit => FusionInv
  BY DEF QInit, FusionInv, FusionAgrees
<1>2. FusionInv /\ [ANext]_<<qvars, avars>> => FusionInv'
  <2> SUFFICES ASSUME FusionInv, [ANext]_<<qvars, avars>>
               PROVE  FusionInv'
    OBVIOUS
  <2>1. CASE SearchLexical
    <3>1. mode \in HybridModes => lexical' \in Rankings(PerSource)
      BY <2>1 DEF SearchLexical, HybridModes
    <3>2. mode \in HybridModes => List(lexical')
      BY <3>1, RankingsAreLists DEF List
    <3> QED BY <2>1, <3>2 DEF SearchLexical, FusionInv, FusionAgrees, List
  <2>2. CASE SearchDense
    <3>1. mode \in HybridModes => dense' \in Rankings(PerSource)
      BY <2>2 DEF SearchDense, HybridModes
    <3>2. mode \in HybridModes => List(dense')
      BY <3>1, RankingsAreLists DEF List
    <3> QED BY <2>2, <3>2 DEF SearchDense, FusionInv, FusionAgrees, List
  <2>3. CASE Fuse
    BY <2>3, FuseAgrees DEF Fuse, FusionInv
  <2>4. CASE stage' \in {"rerank", "select", "answer", "answered"}
    BY <2>4 DEF FusionInv, FusionAgrees
  <2>5. CASE UNCHANGED <<qvars, avars>>
    BY <2>5 DEF FusionInv, FusionAgrees, List, NotBehind, InBoth, Place, Before, qvars
  <2> QED
    BY <2>1, <2>2, <2>3, <2>4, <2>5 DEF ANext, QNext, Hydrate, Rerank, Select,
       AnswerNothing, GenerationFails, Generate, Settle
<1>3. FusionInv => FusionAgrees
  BY DEF FusionInv
<1> QED BY <1>1, <1>2, <1>3, PTL DEF QuestionSpec

-----------------------------------------------------------------------------
(* The metrics that count *)

\* A ranking is without repetition; a case judges some of the chunks.
CaseInv ==
    /\ ranking \in Seq(Judgeable)
    /\ \A q, r \in DOMAIN ranking : q # r => ranking[q] # ranking[r]
    /\ DOMAIN judgments \subseteq Judgeable
    /\ \A c \in DOMAIN judgments : judgments[c] \in 0 .. MaxGrade

LEMMA CasesBegin == MInit => CaseInv
<1> SUFFICES ASSUME MInit
             PROVE  CaseInv
  OBVIOUS
<1>1. PICK S \in SUBSET Judgeable : ranking \in SetToSeqs(S)
  BY DEF MInit, SetToAllKPermutations
<1>2. IsFiniteSet(S)
  BY MetricsAssumption, FS_Subset
<1>3. /\ ranking \in Seq(S)
      /\ \A q, r \in DOMAIN ranking : q # r => ranking[q] # ranking[r]
  BY <1>1, <1>2, ListsOfASet
<1>4. PICK J \in SUBSET Judgeable : judgments \in [J -> 0 .. MaxGrade]
  BY DEF MInit
<1> QED BY <1>3, <1>4, MetricsAssumption DEF CaseInv

\* The places of the relevant chunks in the top.
LEMMA RelevantPlaces ==
    ASSUME CaseInv, NEW top \in Nat
    PROVE  /\ RelevantIn(RankedRel, top) =
                {r \in DOMAIN ranking : r <= top /\ ranking[r] \in JudgedRelevant}
           /\ TopChunks(top) = {ranking[r] : r \in {q \in DOMAIN ranking : q <= top}}
<1>1. /\ ranking \in Seq(Judgeable) /\ Len(ranking) \in Nat
      /\ DOMAIN ranking = 1 .. Len(ranking)
  BY DEF CaseInv
<1>2. RankedRel \in Seq(Nat) /\ Len(RankedRel) = Len(ranking)
  <2>1. RankedRel \in [1 .. Len(ranking) -> Nat]
    BY <1>1, MetricsAssumption DEF CaseInv, RankedRel
  <2> QED BY <1>1, <2>1
<1>3. /\ DOMAIN Top(RankedRel, top) = {q \in DOMAIN ranking : q <= top}
      /\ DOMAIN Top(ranking, top) = {q \in DOMAIN ranking : q <= top}
      /\ \A q \in DOMAIN Top(ranking, top) : Top(ranking, top)[q] = ranking[q]
  BY <1>1, <1>2 DEF Top
<1>4. \A r \in DOMAIN ranking : RankedRel[r] >= 1 <=> ranking[r] \in JudgedRelevant
  BY <1>1 DEF RankedRel, JudgedRelevant
<1>5. RelevantIn(RankedRel, top) =
        {r \in DOMAIN ranking : r <= top /\ ranking[r] \in JudgedRelevant}
  BY <1>3, <1>4 DEF RelevantIn
<1>6. TopChunks(top) = {ranking[r] : r \in {q \in DOMAIN ranking : q <= top}}
  BY <1>3 DEF TopChunks, Range
<1> QED BY <1>5, <1>6

LEMMA RelevantMeets ==
    ASSUME CaseInv, NEW top \in Nat
    PROVE  RelevantIn(RankedRel, top) # {} <=> TopChunks(top) \cap JudgedRelevant # {}
BY RelevantPlaces

LEMMA RelevantCounts ==
    ASSUME CaseInv, NEW top \in Nat
    PROVE  /\ IsFiniteSet(RelevantIn(RankedRel, top)) /\ IsFiniteSet(JudgedRelevant)
           /\ Cardinality(RelevantIn(RankedRel, top)) \in Nat
           /\ Cardinality(JudgedRelevant) \in Nat
           /\ Cardinality(RelevantIn(RankedRel, top)) <= Cardinality(JudgedRelevant)
           /\ Cardinality(RelevantIn(RankedRel, top)) = Cardinality(JudgedRelevant)
                <=> JudgedRelevant \subseteq TopChunks(top)
<1> DEFINE R == RelevantIn(RankedRel, top)
           f == [r \in R |-> ranking[r]]
<1>1. IsFiniteSet(JudgedRelevant)
  <2>1. JudgedRelevant \in SUBSET Judgeable
    BY DEF CaseInv, JudgedRelevant
  <2> QED BY <2>1, MetricsAssumption, FS_Subset
<1>2. R = {r \in DOMAIN ranking : r <= top /\ ranking[r] \in JudgedRelevant}
  BY RelevantPlaces
<1>3. f \in Injection(R, JudgedRelevant)
  BY <1>2 DEF CaseInv, Injection, IsInjective
<1>4. /\ IsFiniteSet(R) /\ Cardinality(R) <= Cardinality(JudgedRelevant)
      /\ Cardinality(R) = Cardinality(JudgedRelevant) <=> f \in Surjection(R, JudgedRelevant)
  <2> HIDE DEF R, f
  <2> QED BY <1>1, <1>3, FS_Injection
<1>5. f \in Surjection(R, JudgedRelevant) <=> JudgedRelevant \subseteq TopChunks(top)
  <2>1. f \in [R -> JudgedRelevant]
    BY <1>2
  <2>2. ASSUME f \in Surjection(R, JudgedRelevant)
        PROVE  JudgedRelevant \subseteq TopChunks(top)
    <3>1. \A c \in JudgedRelevant : \E r \in R : f[r] = c
      BY <2>2 DEF Surjection
    <3>2. \A c \in JudgedRelevant : \E r \in R : ranking[r] = c
      BY <3>1
    <3> QED BY <1>2, <3>2, RelevantPlaces
  <2>3. ASSUME JudgedRelevant \subseteq TopChunks(top)
        PROVE  \A c \in JudgedRelevant : \E r \in R : f[r] = c
    BY <1>2, <2>3, RelevantPlaces
  <2> QED BY <2>1, <2>2, <2>3 DEF Surjection
<1>6. Cardinality(R) \in Nat /\ Cardinality(JudgedRelevant) \in Nat
  BY <1>1, <1>4, FS_CardinalityType
<1> QED BY <1>1, <1>4, <1>5, <1>6

\* The first relevant place, if there is one.
LEMMA FirstRelevant ==
    ASSUME CaseInv, NEW top \in Nat, RelevantIn(RankedRel, top) # {}
    PROVE  /\ reciprocal_rank(RankedRel, top)[1] = 1
           /\ reciprocal_rank(RankedRel, top)[2] \in RelevantIn(RankedRel, top)
           /\ \A q \in RelevantIn(RankedRel, top) : reciprocal_rank(RankedRel, top)[2] <= q
<1> DEFINE R == RelevantIn(RankedRel, top)
<1>1. R \subseteq Nat
  BY RelevantPlaces DEF CaseInv
<1>2. \E r \in R : \A q \in R : ~(<<q, r>> \in OpToRel(<, Nat))
  <2> HIDE DEF R
  <2>1. R # {}
    BY DEF R
  <2> QED BY <1>1, <2>1, NatLessThanWellFounded, WFMin
<1>3. \E r \in R : \A q \in R : r <= q
  <2>1. \A m, n0 \in Nat : m < n0 => <<m, n0>> \in OpToRel(<, Nat)
    BY DEF OpToRel
  <2> HIDE DEF R
  <2>2. PICK r \in R : \A q \in R : ~(<<q, r>> \in OpToRel(<, Nat))
    BY <1>2
  <2>3. \A q \in R : ~(q < r)
    BY <1>1, <2>1, <2>2
  <2> QED BY <1>1, <2>3
<1>4. reciprocal_rank(RankedRel, top) = <<1, CHOOSE r \in R : \A q \in R : r <= q>>
  BY DEF reciprocal_rank
<1> HIDE DEF R
<1> QED BY <1>3, <1>4 DEF R

LEMMA CountsAgreeOnce ==
    ASSUME CaseInv, ScoreCase
    PROVE  CountsAgree'
<1> USE MetricsAssumption
<1> DEFINE rel == JudgedRelevant
           places == RelevantIn(RankedRel, HitK)
           total == Cardinality(rel)
           rr == reciprocal_rank(RankedRel, RankK)
<1>1. /\ ranking' = ranking /\ judgments' = judgments
      /\ score'.hit = hit_at_k(RankedRel, HitK)
      /\ score'.recall = recall_at_k(RankedRel, total, HitK)
      /\ score'.rr = rr
      /\ score'.counted = (total > 0)
  BY DEF ScoreCase
<1>2. /\ JudgedRelevant' = rel
      /\ TopChunks(HitK)' = TopChunks(HitK) /\ TopChunks(RankK)' = TopChunks(RankK)
  BY <1>1 DEF JudgedRelevant, TopChunks, Top
<1>3. /\ IsFiniteSet(places) /\ Cardinality(places) \in Nat /\ total \in Nat
      /\ Cardinality(places) <= total
      /\ Cardinality(places) = total <=> rel \subseteq TopChunks(HitK)
      /\ Cardinality(places) = 0 <=> places = {}
  <2>1. \A S : IsFiniteSet(S) => (Cardinality(S) = 0 <=> S = {})
    BY FS_EmptySet
  <2> QED BY <2>1, RelevantCounts
<1>4. score'.hit = 1 <=> places # {}
  BY <1>1 DEF hit_at_k, RelevantIn
<1>5. places # {} <=> TopChunks(HitK) \cap rel # {}
  BY RelevantMeets
<1>6. score'.recall = IF total = 0 THEN <<0, 1>> ELSE <<Cardinality(places), total>>
  BY <1>1 DEF recall_at_k
<1>7. Fraction(score'.recall)
  <2> HIDE DEF places, total, rel, rr
  <2> QED BY <1>3, <1>6 DEF Fraction
<1>8. score'.recall[1] > 0 <=> places # {}
  <2> HIDE DEF places, total, rel, rr
  <2> QED BY <1>3, <1>6
<1>9. score'.counted => (score'.recall[1] = score'.recall[2] <=> rel \subseteq TopChunks(HitK))
  <2> HIDE DEF places, total, rel, rr
  <2>1. score'.counted => total > 0
    BY <1>1
  <2>2. total > 0 => score'.recall[1] = Cardinality(places) /\ score'.recall[2] = total
    BY <1>3, <1>6
  <2> QED BY <2>1, <2>2, <1>3
<1> DEFINE far == RelevantIn(RankedRel, RankK)
<1>10. far = {} => rr = <<0, 1>>
  BY DEF reciprocal_rank
<1>11. far # {} => rr[1] = 1 /\ rr[2] \in far /\ \A q \in far : rr[2] <= q
  BY FirstRelevant
<1>12. far # {} <=> TopChunks(RankK) \cap rel # {}
  BY RelevantMeets
<1>13. far \subseteq Nat \ {0} /\ places = {r \in far : r <= HitK}
  BY RelevantPlaces DEF CaseInv
<1>14. Fraction(rr) /\ (rr[1] = 0 <=> far = {})
  <2> HIDE DEF places, total, rel, rr, far
  <2>1. CASE far = {}
    BY <2>1, <1>10 DEF Fraction
  <2>2. CASE far # {}
    <3>1. rr[1] = 1 /\ rr[2] \in Nat \ {0}
      BY <2>2, <1>11, <1>13
    <3>2. rr[2] > 0 /\ rr[1] <= rr[2]
      BY <3>1
    <3> QED BY <2>2, <3>1, <3>2 DEF Fraction
  <2> QED BY <2>1, <2>2
<1>15. places # {} <=> rr[1] = 1 /\ rr[2] <= HitK
  <2> HIDE DEF places, total, rel, rr, far
  <2>1. CASE far = {}
    BY <2>1, <1>10, <1>13
  <2>2. CASE far # {}
    <3>1. rr[2] <= HitK => rr[2] \in places
      BY <2>2, <1>11, <1>13
    <3>2. \A q \in places : rr[2] <= q /\ q <= HitK /\ q \in Nat
      BY <2>2, <1>11, <1>13
    <3>3. rr[2] \in Nat /\ rr[1] = 1
      BY <2>2, <1>11, <1>13
    <3> QED BY <3>1, <3>2, <3>3
  <2> QED BY <2>1, <2>2
<1> HIDE DEF places, total, rel, rr, far
<1>16. Fraction(score.rr)' /\ Fraction(score.recall)'
  BY <1>1, <1>7, <1>14 DEF Fraction
<1> QED BY <1>1, <1>2, <1>4, <1>5, <1>8, <1>9, <1>12, <1>14, <1>15, <1>16 DEF CountsAgree

\* For any ranking and judgments and any sizes of the tops, the metrics that
\* count agree with the judgments and with each other.
THEOREM CountsAlwaysAgree == MetricsSpec => []CountsAgree
<1>1. MInit => CaseInv /\ CountsAgree
  BY CasesBegin DEF MInit, NoScore, CountsAgree
<1>2. CaseInv /\ CountsAgree /\ [ScoreCase]_mvars => CaseInv' /\ CountsAgree'
  <2>1. CaseInv /\ ScoreCase => CaseInv' /\ CountsAgree'
    BY CountsAgreeOnce DEF ScoreCase, CaseInv
  <2>2. CaseInv /\ CountsAgree /\ UNCHANGED mvars => CaseInv' /\ CountsAgree'
    BY DEF mvars, CaseInv, CountsAgree, TopChunks, Top, JudgedRelevant, Fraction
  <2> QED BY <2>1, <2>2
<1> QED BY <1>1, <1>2, PTL DEF MetricsSpec

-----------------------------------------------------------------------------
(* The discounts of some places *)

Marks(K, A) == [q \in 1 .. K |-> IF q \in A THEN 1 ELSE 0]
Weighed(K, D, A) == [q \in 1 .. K |-> IF q \in A THEN D[q] ELSE 0]

\* The discounts fall from place to place and none is 0.
Falling(K, D) ==
    /\ \A q \in 1 .. K : D[q] \in Nat \ {0}
    /\ \A q, r \in 1 .. K : q < r => D[r] < D[q]

LEMMA TotalOfMarks ==
    ASSUME NEW K \in Nat, NEW A \in SUBSET (1 .. K)
    PROVE  /\ Marks(K, A) \in Seq(Nat) /\ Len(Marks(K, A)) = K
           /\ IsFiniteSet(A) /\ Cardinality(A) \in Nat
           /\ Total(Marks(K, A)) = Cardinality(A)
<1> DEFINE s == Marks(K, A)
           upto(q) == {r \in A : r <= q}
           x == [q \in 0 .. K |-> Cardinality(upto(q))]
<1>1. s \in Seq(Nat) /\ Len(s) = K
  <2>1. s \in [1 .. K -> Nat]
    BY DEF Marks
  <2> HIDE DEF s
  <2> QED BY <2>1, FunctionsAreLists
<1>2. IsFiniteSet(A) /\ Cardinality(A) \in Nat
  <2>1. IsFiniteSet(1 .. K)
    BY FS_Interval
  <2> QED BY <2>1, FS_Subset, FS_CardinalityType
<1>3. \A q : IsFiniteSet(upto(q)) /\ Cardinality(upto(q)) \in Nat
  BY <1>2, FS_Subset, FS_CardinalityType
<1>0. \A r \in A : r \in Nat /\ 1 <= r /\ r <= K
  OBVIOUS
<1>4. x \in [0 .. K -> Nat]
  <2> HIDE DEF upto
  <2> QED BY <1>3
<1>5. x[0] = 0
  <2>1. upto(0) = {} /\ 0 \in 0 .. K
    <3>1. \A r \in A : ~(r <= 0)
      BY <1>0
    <3>2. upto(0) = {}
      BY <3>1, Zenon
    <3> QED BY <3>2
  <2>2. Cardinality(upto(0)) = 0
    <3> HIDE DEF upto
    <3> QED BY <2>1, FS_EmptySet
  <2> QED BY <2>1, <2>2
<1>6. ASSUME NEW q \in 1 .. K
      PROVE  x[q] = x[q - 1] + s[q]
  <2>1. x[q] = Cardinality(upto(q)) /\ x[q - 1] = Cardinality(upto(q - 1))
    OBVIOUS
  <2>2. CASE q \in A
    <3>1. upto(q) = upto(q - 1) \cup {q} /\ q \notin upto(q - 1)
      <4>1. \A r \in A : r <= q <=> r <= q - 1 \/ r = q
        BY <1>0
      <4>2. ~(q <= q - 1)
        OBVIOUS
      <4> QED BY <2>2, <4>1, <4>2, Zenon
    <3>2. s[q] = 1
      BY <2>2 DEF Marks
    <3> HIDE DEF upto, s, x
    <3>3. Cardinality(upto(q)) = Cardinality(upto(q - 1)) + 1
      BY <1>3, <3>1, FS_AddElement
    <3> QED BY <2>1, <3>2, <3>3
  <2>3. CASE q \notin A
    <3>1. upto(q) = upto(q - 1)
      <4>1. \A r \in A : r <= q <=> r <= q - 1
        BY <1>0, <2>3
      <4> QED BY <4>1, Zenon
    <3>2. s[q] = 0
      BY <2>3 DEF Marks
    <3> HIDE DEF upto, s, x
    <3> QED BY <1>3, <2>1, <3>1, <3>2
  <2> QED BY <2>2, <2>3
<1>7. x[K] = Cardinality(A)
  <2>1. upto(K) = A
    BY <1>0, Zenon
  <2>2. K \in 0 .. K
    OBVIOUS
  <2> QED BY <2>1, <2>2
<1> HIDE DEF s, x
<1>8. Sums(s, x)
  BY <1>1, <1>4, <1>5, <1>6 DEF Sums
<1>9. Total(s) = Cardinality(A)
  BY <1>1, <1>7, <1>8, TotalOfSums
<1> QED BY <1>1, <1>2, <1>9 DEF s

LEMMA WeighedIsAList ==
    ASSUME NEW K \in Nat, NEW D, Falling(K, D), NEW A
    PROVE  Weighed(K, D, A) \in Seq(Nat) /\ Len(Weighed(K, D, A)) = K
<1> DEFINE s == Weighed(K, D, A)
<1>1. s \in [1 .. K -> Nat]
  BY DEF Weighed, Falling
<1> HIDE DEF s
<1>2. s \in Seq(Nat) /\ Len(s) = K
  BY <1>1, FunctionsAreLists
<1> QED BY <1>2 DEF s

LEMMA FirstPlacesWeighMost ==
    ASSUME NEW K \in Nat, NEW D, Falling(K, D), NEW A \in SUBSET (1 .. K),
           NEW b \in 1 .. K, Cardinality(A) <= b
    PROVE  /\ Total(Weighed(K, D, A)) \in Nat /\ Total(Weighed(K, D, 1 .. b)) \in Nat
           /\ Total(Weighed(K, D, A)) <= Total(Weighed(K, D, 1 .. b))
           /\ Total(Weighed(K, D, A)) = Total(Weighed(K, D, 1 .. b)) => A = 1 .. b
<1> DEFINE B == 1 .. b
           wa == Weighed(K, D, A)  wb == Weighed(K, D, B)
           ma == Marks(K, A)       mb == Marks(K, B)
           d == D[b]
           s == [q \in 1 .. K |-> wa[q] + d * mb[q]]
           t == [q \in 1 .. K |-> wb[q] + d * ma[q]]
<1>1. /\ B \in SUBSET (1 .. K) /\ d \in Nat \ {0} /\ b \in Nat \ {0}
      /\ Cardinality(B) = b /\ IsFiniteSet(B)
  <2>1. B \in SUBSET (1 .. K) /\ b \in Nat \ {0}
    OBVIOUS
  <2>2. d \in Nat \ {0}
    BY DEF Falling
  <2>3. Cardinality(B) = b /\ IsFiniteSet(B)
    BY <2>1, FS_Interval
  <2> QED BY <2>1, <2>2, <2>3
<1> HIDE DEF B
<1>2. /\ wa \in Seq(Nat) /\ wb \in Seq(Nat) /\ ma \in Seq(Nat) /\ mb \in Seq(Nat)
      /\ Len(wa) = K /\ Len(wb) = K /\ Len(ma) = K /\ Len(mb) = K
      /\ Total(ma) = Cardinality(A) /\ Total(mb) = b
      /\ IsFiniteSet(A) /\ Cardinality(A) \in Nat
  BY <1>1, TotalOfMarks, WeighedIsAList
<1>3. ASSUME NEW q \in 1 .. K
      PROVE  /\ wa[q] = IF q \in A THEN D[q] ELSE 0
             /\ wb[q] = IF q \in B THEN D[q] ELSE 0
             /\ ma[q] = IF q \in A THEN 1 ELSE 0
             /\ mb[q] = IF q \in B THEN 1 ELSE 0
             /\ D[q] \in Nat
  BY DEF Weighed, Marks, Falling
<1> HIDE DEF d, wa, wb, ma, mb
<1>4. ASSUME NEW q \in 1 .. K
      PROVE  /\ s[q] = (IF q \in A THEN D[q] ELSE 0) + (IF q \in B THEN d ELSE 0)
             /\ t[q] = (IF q \in B THEN D[q] ELSE 0) + (IF q \in A THEN d ELSE 0)
             /\ s[q] \in Nat /\ t[q] \in Nat
  <2>1. \A m \in {0, 1} : d * m = IF m = 1 THEN d ELSE 0
    BY <1>1
  <2>2. /\ d * mb[q] = IF q \in B THEN d ELSE 0
        /\ d * ma[q] = IF q \in A THEN d ELSE 0
    BY <1>3, <2>1
  <2> QED BY <1>1, <1>3, <2>2
<1>5. ASSUME NEW q \in 1 .. K
      PROVE  /\ s[q] <= t[q]
             /\ q \in A /\ q \notin B => s[q] < t[q]
  <2>1. q \in B <=> q <= b
    BY DEF B
  <2>2. q = b \/ q < b \/ b < q
    OBVIOUS
  <2>3. (q < b => d < D[q]) /\ (b < q => D[q] < d) /\ (q = b => D[q] = d)
    BY DEF Falling, d
  <2> HIDE DEF s, t
  <2> QED BY <1>1, <1>3, <1>4, <2>1, <2>2, <2>3
<1>6. s \in Seq(Nat) /\ t \in Seq(Nat) /\ Len(s) = K /\ Len(t) = K
  <2>1. s \in [1 .. K -> Nat] /\ t \in [1 .. K -> Nat]
    BY <1>4
  <2> HIDE DEF s, t
  <2> QED BY <2>1, FunctionsAreLists
<1>7. Total(s) = Total(wa) + d * Total(mb) /\ Total(t) = Total(wb) + d * Total(ma)
  <2>1. /\ \A q \in 1 .. K : s[q] = wa[q] + d * mb[q]
        /\ \A q \in 1 .. K : t[q] = wb[q] + d * ma[q]
    OBVIOUS
  <2> HIDE DEF s, t
  <2>2. d \in Nat
    BY <1>1
  <2>3. Total(s) = Total(wa) + d * Total(mb)
    <3>1. Len(mb) = Len(wa) /\ Len(s) = Len(wa) /\ \A q \in 1 .. Len(wa) : s[q] = wa[q] + d * mb[q]
      BY <1>2, <1>6, <2>1, Zenon
    <3>2. wa \in Seq(Nat) /\ mb \in Seq(Nat) /\ s \in Seq(Nat)
      BY <1>2, <1>6, Zenon
    <3> QED BY <2>2, <3>1, <3>2, TotalIsLinear, Zenon
  <2>4. Total(t) = Total(wb) + d * Total(ma)
    <3>1. Len(ma) = Len(wb) /\ Len(t) = Len(wb) /\ \A q \in 1 .. Len(wb) : t[q] = wb[q] + d * ma[q]
      BY <1>2, <1>6, <2>1, Zenon
    <3>2. wb \in Seq(Nat) /\ ma \in Seq(Nat) /\ t \in Seq(Nat)
      BY <1>2, <1>6, Zenon
    <3> QED BY <2>2, <3>1, <3>2, TotalIsLinear, Zenon
  <2> QED BY <2>3, <2>4
<1> HIDE DEF s, t
<1>8. /\ Total(s) \in Nat /\ Total(t) \in Nat /\ Total(s) <= Total(t)
      /\ \A q \in 1 .. K : s[q] < t[q] => Total(s) < Total(t)
  BY <1>5, <1>6, TotalIsMonotone
<1>9. Total(wa) \in Nat /\ Total(wb) \in Nat
  BY <1>2, TotalIsTheLastSum, TotalOfSums
<1> DEFINE p == d * Cardinality(A)  r == d * b
<1>10. p \in Nat /\ r \in Nat /\ p <= r /\ (Cardinality(A) < b => p < r)
  <2>1. \A g \in Nat \ {0}, y, z \in Nat : /\ g * y \in Nat
                                           /\ y <= z => g * y <= g * z
                                           /\ y < z => g * y < g * z
    OBVIOUS
  <2> QED BY <1>1, <1>2, <2>1
<1>11. Total(s) = Total(wa) + r /\ Total(t) = Total(wb) + p
  BY <1>2, <1>7
<1> HIDE DEF p, r
<1>12. Total(wa) <= Total(wb)
  BY <1>8, <1>9, <1>10, <1>11
<1>13. ASSUME Total(wa) = Total(wb)
       PROVE  A = B
  <2>1. Total(s) = Total(t) /\ p = r
    BY <1>8, <1>9, <1>10, <1>11, <1>13
  <2>2. Cardinality(A) = b
    BY <1>1, <1>2, <1>10, <2>1
  <2>3. \A q \in 1 .. K : ~(s[q] < t[q])
    BY <1>8, <2>1
  <2>4. A \in SUBSET B
    BY <1>5, <2>3
  <2> QED BY <1>1, <2>2, <2>4, FS_Subset
<1> QED BY <1>9, <1>12, <1>13 DEF wa, wb, B

-----------------------------------------------------------------------------
(* The gain, grade by grade *)

LEMMA GainDoubles ==
    /\ \A g \in 0 .. MaxGrade : Gain[g] \in Nat
    /\ Gain[0] = 0
    /\ \A g \in 1 .. MaxGrade : Gain[g] = 2 * Gain[g - 1] + 1
<1> DEFINE F == [x \in (1 .. MaxGrade) \X Nat |-> 2 * x[2] + 1]
           Step(f) == [g \in 0 .. MaxGrade |-> IF g = 0 THEN 0 ELSE 2 * f[g - 1] + 1]
<1>1. MaxGrade \in Nat
  BY MetricsAssumption
<1>2. PICK f : Follows(f, MaxGrade, Nat, 0, F)
  <2>1. F \in Steps(MaxGrade, Nat) /\ 0 \in Nat
    BY DEF Steps
  <2> HIDE DEF F
  <2> QED BY <1>1, <2>1, Recursion
<1>3. \A g \in 1 .. MaxGrade : f[g] = 2 * f[g - 1] + 1
  <2> TAKE g \in 1 .. MaxGrade
  <2>1. g - 1 \in 0 .. MaxGrade
    BY <1>1
  <2>2. <<g, f[g - 1]>> \in (1 .. MaxGrade) \X Nat
    BY <2>1, <1>2 DEF Follows
  <2> QED BY <1>2, <2>2 DEF Follows
<1>4. f = Step(f)
  BY <1>2, <1>3 DEF Follows
<1>5. Gain = CHOOSE h : h = Step(h)
  BY DEF Gain
<1>6. Gain = Step(Gain)
  <2> HIDE DEF Step
  <2> QED BY <1>4, <1>5
<1>7. Gain[0] = 0 /\ \A g \in 1 .. MaxGrade : Gain[g] = 2 * Gain[g - 1] + 1
  <2>1. /\ Step(Gain)[0] = 0
        /\ \A g \in 1 .. MaxGrade : Step(Gain)[g] = 2 * Gain[g - 1] + 1
    BY <1>1
  <2> HIDE DEF Step
  <2> QED BY <1>6, <2>1
<1>8. \A g \in 0 .. MaxGrade : Gain[g] \in Nat
  <2> DEFINE T == {g \in 0 .. MaxGrade : Gain[g] \notin Nat}
  <2>1. SUFFICES ASSUME T # {}
                 PROVE  FALSE
    OBVIOUS
  <2>2. PICK m \in T : \A g \in T : m <= g
    <3>1. T \in SUBSET Nat
      OBVIOUS
    <3> HIDE DEF T
    <3> QED BY <2>1, <3>1, LeastNumber
  <2>3. m \in 1 .. MaxGrade
    BY <1>7, <2>2
  <2>4. m - 1 \in 0 .. MaxGrade /\ m - 1 \notin T
    BY <1>1, <2>2, <2>3
  <2>5. Gain[m - 1] \in Nat
    BY <2>4
  <2>6. Gain[m] = 2 * Gain[m - 1] + 1
    BY <1>7, <2>3
  <2>7. Gain[m] \in Nat
    BY <2>5, <2>6
  <2> QED BY <2>2, <2>7
<1> QED BY <1>7, <1>8

LEMMA DiscountFalls == Falling(RankK, Discount)
<1>1. \A q \in 1 .. RankK : q \in 1 .. 10
  BY MetricsAssumption
<1>2. \A q \in 1 .. 10 : q \in {1, 2, 3, 4, 5, 6, 7, 8, 9, 10}
  OBVIOUS
<1>3. /\ Discount[1] = 10000 /\ Discount[2] = 6309 /\ Discount[3] = 5000 /\ Discount[4] = 4307
      /\ Discount[5] = 3869 /\ Discount[6] = 3562 /\ Discount[7] = 3333 /\ Discount[8] = 3155
      /\ Discount[9] = 3010 /\ Discount[10] = 2891
  BY DEF Discount
<1>4. \A q \in {1, 2, 3, 4, 5, 6, 7, 8, 9, 10} : Discount[q] \in Nat \ {0}
  BY <1>3
<1>5. \A q, r \in {1, 2, 3, 4, 5, 6, 7, 8, 9, 10} : q < r => Discount[r] < Discount[q]
  BY <1>3
<1> QED BY <1>1, <1>2, <1>4, <1>5 DEF Falling

\* A grade for each place of the top, and the places of a grade or more.
Graded(s) == s \in [1 .. RankK -> 0 .. MaxGrade]
Level(s, t) == {r \in 1 .. RankK : s[r] >= t}

\* The discounted gain, a grade beyond t counted as t.
Upto(s, t) == [r \in 1 .. RankK |-> Gain[IF s[r] < t THEN s[r] ELSE t] * Discount[r]]

LEMMA UptoIsAList ==
    ASSUME NEW s, Graded(s), NEW t \in 0 .. MaxGrade
    PROVE  /\ Upto(s, t) \in Seq(Nat) /\ Len(Upto(s, t)) = RankK
           /\ Total(Upto(s, t)) \in Nat
<1> DEFINE u == Upto(s, t)
<1>1. RankK \in Nat
  BY MetricsAssumption
<1>2. u \in [1 .. RankK -> Nat]
  <2>1. ASSUME NEW r \in 1 .. RankK
        PROVE  Gain[IF s[r] < t THEN s[r] ELSE t] * Discount[r] \in Nat
    <3>1. (IF s[r] < t THEN s[r] ELSE t) \in 0 .. MaxGrade
      BY DEF Graded
    <3>2. Gain[IF s[r] < t THEN s[r] ELSE t] \in Nat
      BY <3>1, GainDoubles
    <3>3. Discount[r] \in Nat
      BY DiscountFalls DEF Falling
    <3>4. \A a, b \in Nat : a * b \in Nat
      OBVIOUS
    <3> QED BY <3>2, <3>3, <3>4, Zenon
  <2> QED BY <2>1 DEF Upto
<1> HIDE DEF u
<1>3. u \in Seq(Nat) /\ Len(u) = RankK
  BY <1>1, <1>2, FunctionsAreLists
<1>4. Total(u) \in Nat
  BY <1>3, TotalIsTheLastSum, TotalOfSums
<1> QED BY <1>3, <1>4 DEF u

LEMMA LevelAdds ==
    ASSUME NEW s, Graded(s), NEW t \in 1 .. MaxGrade
    PROVE  /\ Gain[t - 1] + 1 \in Nat \ {0}
           /\ Total(Upto(s, t)) = Total(Upto(s, t - 1))
                + (Gain[t - 1] + 1) * Total(Weighed(RankK, Discount, Level(s, t)))
<1> DEFINE g == Gain[t - 1] + 1
           u == Upto(s, t)
           v == Upto(s, t - 1)
           w == Weighed(RankK, Discount, Level(s, t))
<1>1. t - 1 \in 0 .. MaxGrade /\ t \in 0 .. MaxGrade /\ RankK \in Nat
  BY MetricsAssumption
<1>2. /\ Gain[t - 1] \in Nat /\ Gain[t] = 2 * Gain[t - 1] + 1
      /\ g \in Nat \ {0} /\ g \in Nat
  <2>1. Gain[t - 1] \in Nat /\ Gain[t] = 2 * Gain[t - 1] + 1
    BY <1>1, GainDoubles
  <2> QED BY <2>1
<1>3. ASSUME NEW r \in 1 .. RankK
      PROVE  u[r] = v[r] + g * w[r]
  <2>1. s[r] \in 0 .. MaxGrade /\ Discount[r] \in Nat
    BY DiscountFalls DEF Graded, Falling
  <2>2. /\ u[r] = Gain[IF s[r] < t THEN s[r] ELSE t] * Discount[r]
        /\ v[r] = Gain[IF s[r] < t - 1 THEN s[r] ELSE t - 1] * Discount[r]
        /\ w[r] = IF s[r] >= t THEN Discount[r] ELSE 0
    BY DEF Upto, Weighed, Level
  <2> HIDE DEF u, v, w
  <2>3. CASE s[r] >= t
    <3>1. u[r] = Gain[t] * Discount[r] /\ v[r] = Gain[t - 1] * Discount[r] /\ w[r] = Discount[r]
      BY <1>1, <2>1, <2>2, <2>3
    <3>2. \A x, y \in Nat : (2 * x + 1) * y = x * y + (x + 1) * y
      OBVIOUS
    <3> QED BY <1>2, <2>1, <3>1, <3>2
  <2>4. CASE s[r] < t
    <3>1. (IF s[r] < t - 1 THEN s[r] ELSE t - 1) = s[r]
      BY <1>1, <2>1, <2>4
    <3>2. u[r] = Gain[s[r]] * Discount[r] /\ v[r] = Gain[s[r]] * Discount[r] /\ w[r] = 0
      BY <1>1, <2>1, <2>2, <2>4, <3>1
    <3>3. Gain[s[r]] * Discount[r] \in Nat
      <4>1. \A a, b \in Nat : a * b \in Nat
        OBVIOUS
      <4>2. Gain[s[r]] \in Nat
        BY <2>1, GainDoubles
      <4> QED BY <2>1, <4>1, <4>2, Zenon
    <3>4. g * w[r] = 0
      BY <1>2, <3>2
    <3> HIDE DEF g
    <3> QED BY <3>2, <3>3, <3>4
  <2> QED BY <1>1, <2>1, <2>3, <2>4
<1>4. u \in Seq(Nat) /\ v \in Seq(Nat) /\ Len(u) = RankK /\ Len(v) = RankK
  BY <1>1, UptoIsAList
<1>5. w \in Seq(Nat) /\ Len(w) = RankK
  BY <1>1, DiscountFalls, WeighedIsAList
<1> HIDE DEF g, u, v, w
<1>6. Len(w) = Len(v) /\ Len(u) = Len(v) /\ \A r \in 1 .. Len(v) : u[r] = v[r] + g * w[r]
  BY <1>3, <1>4, <1>5, Zenon
<1>7. Total(u) = Total(v) + g * Total(w)
  BY <1>2, <1>4, <1>5, <1>6, TotalIsLinear, Zenon
<1> QED BY <1>2, <1>7 DEF g, u, v, w

\* No level of a gradation has more places than the first places that the same
\* level of the other one has.
Ahead(z, s) ==
    \A t \in 1 .. MaxGrade :
        \/ Level(z, t) = {} /\ Level(s, t) = {}
        \/ \E b \in 1 .. RankK : Level(z, t) = 1 .. b /\ Cardinality(Level(s, t)) <= b

SameUpto(s, z, t) == \A x \in 1 .. t : Level(s, x) = Level(z, x)

LEMMA LevelWeighs ==
    ASSUME NEW s, NEW z, Ahead(z, s), NEW t \in 1 .. MaxGrade
    PROVE  LET ws == Total(Weighed(RankK, Discount, Level(s, t)))
               wz == Total(Weighed(RankK, Discount, Level(z, t)))
           IN  /\ ws \in Nat /\ wz \in Nat /\ ws <= wz
               /\ ws = wz => Level(s, t) = Level(z, t)
<1> DEFINE ws == Total(Weighed(RankK, Discount, Level(s, t)))
           wz == Total(Weighed(RankK, Discount, Level(z, t)))
<1>1. RankK \in Nat /\ Level(s, t) \in SUBSET (1 .. RankK)
  BY MetricsAssumption DEF Level
<1>2. CASE Level(z, t) = {} /\ Level(s, t) = {}
  <2>1. ws = wz
    BY <1>2
  <2>2. ws \in Nat
    BY <1>1, DiscountFalls, WeighedIsAList, TotalIsTheLastSum, TotalOfSums
  <2> HIDE DEF ws, wz
  <2>3. ws \in Nat /\ wz \in Nat /\ ws <= wz
    BY <2>1, <2>2
  <2> QED BY <1>2, <2>3 DEF ws, wz
<1>3. CASE \E b \in 1 .. RankK : Level(z, t) = 1 .. b /\ Cardinality(Level(s, t)) <= b
  <2>1. PICK b \in 1 .. RankK : Level(z, t) = 1 .. b /\ Cardinality(Level(s, t)) <= b
    BY <1>3
  <2> QED BY <1>1, <2>1, DiscountFalls, FirstPlacesWeighMost
<1> QED BY <1>2, <1>3 DEF Ahead

LEMMA LevelsCompare ==
    ASSUME NEW s, Graded(s), NEW z, Graded(z), Ahead(z, s)
    PROVE  /\ Total(Upto(s, MaxGrade)) <= Total(Upto(z, MaxGrade))
           /\ Total(Upto(s, MaxGrade)) = Total(Upto(z, MaxGrade)) <=> SameUpto(s, z, MaxGrade)
<1> DEFINE us(t) == Total(Upto(s, t))
           uz(t) == Total(Upto(z, t))
           T == {t \in 0 .. MaxGrade : ~(us(t) <= uz(t) /\ (us(t) = uz(t) => SameUpto(s, z, t)))}
<1>1. MaxGrade \in Nat /\ MaxGrade \in 0 .. MaxGrade
  BY MetricsAssumption
<1>2. \A t \in 0 .. MaxGrade : us(t) \in Nat /\ uz(t) \in Nat
  BY UptoIsAList
<1>3. T = {}
  <2>1. SUFFICES ASSUME T # {}
                 PROVE  FALSE
    OBVIOUS
  <2>2. PICK m \in T : \A t \in T : m <= t
    <3>1. T \in SUBSET Nat
      OBVIOUS
    <3> HIDE DEF T
    <3> QED BY <2>1, <3>1, LeastNumber
  <2>3. m # 0
    <3>1. ASSUME NEW y, Graded(y)
          PROVE  Upto(y, 0) = [r \in 1 .. RankK |-> Gain[0] * Discount[r]]
      <4>1. \A r \in 1 .. RankK : (IF y[r] < 0 THEN y[r] ELSE 0) = 0
        BY <3>1 DEF Graded
      <4> QED BY <4>1 DEF Upto
    <3>2. us(0) = uz(0)
      BY <3>1
    <3>3. 0 \in 0 .. MaxGrade /\ 1 .. 0 = {}
      BY <1>1
    <3>4. SameUpto(s, z, 0)
      BY <3>3 DEF SameUpto
    <3>5. us(0) <= uz(0)
      <4> HIDE DEF us, uz
      <4> QED BY <1>2, <3>2, <3>3
    <3>6. 0 \notin T
      <4> HIDE DEF us, uz
      <4> QED BY <3>4, <3>5
    <3> HIDE DEF T
    <3> QED BY <2>2, <3>6
  <2>4. m \in 1 .. MaxGrade /\ m \in 0 .. MaxGrade /\ m - 1 \in 0 .. MaxGrade /\ m - 1 \notin T
    <3>1. m \in Nat /\ m \in 1 .. MaxGrade /\ m - 1 \in 0 .. MaxGrade /\ m - 1 < m
      BY <1>1, <2>2, <2>3
    <3>2. m - 1 \notin T
      <4>1. ~(m <= m - 1)
        BY <3>1
      <4> HIDE DEF T
      <4> QED BY <2>2, <4>1
    <3> QED BY <2>2, <3>1, <3>2
  <2>5. us(m - 1) <= uz(m - 1) /\ (us(m - 1) = uz(m - 1) => SameUpto(s, z, m - 1))
    <3> HIDE DEF us, uz
    <3> QED BY <2>4
  <2> DEFINE g == Gain[m - 1] + 1
             ws == Total(Weighed(RankK, Discount, Level(s, m)))
             wz == Total(Weighed(RankK, Discount, Level(z, m)))
  <2>6. /\ ws \in Nat /\ wz \in Nat /\ ws <= wz
        /\ ws = wz => Level(s, m) = Level(z, m)
    BY <2>4, LevelWeighs
  <2>7. /\ g \in Nat \ {0}
        /\ us(m) = us(m - 1) + g * ws
        /\ uz(m) = uz(m - 1) + g * wz
    BY <2>4, LevelAdds
  <2> HIDE DEF us, uz, g, ws, wz
  <2>8. g * ws \in Nat /\ g * wz \in Nat /\ g * ws <= g * wz /\ (ws < wz => g * ws < g * wz)
    <3>1. \A e \in Nat \ {0}, y, x \in Nat : /\ e * y \in Nat
                                             /\ y <= x => e * y <= e * x
                                             /\ y < x => e * y < e * x
      OBVIOUS
    <3> QED BY <2>6, <2>7, <3>1
  <2>9. us(m - 1) \in Nat /\ uz(m - 1) \in Nat
    BY <1>2, <2>4
  <2> DEFINE a == us(m - 1)  b == uz(m - 1)  p == g * ws  q == g * wz
  <2>10. /\ a \in Nat /\ b \in Nat /\ p \in Nat /\ q \in Nat /\ a <= b /\ p <= q
         /\ us(m) = a + p /\ uz(m) = b + q /\ (ws < wz => p < q)
    BY <2>5, <2>7, <2>8, <2>9
  <2>11. a = b => SameUpto(s, z, m - 1)
    BY <2>5
  <2> HIDE DEF a, b, p, q
  <2>12. us(m) <= uz(m)
    BY <2>10
  <2>13. ASSUME us(m) = uz(m)
         PROVE  SameUpto(s, z, m)
    <3>1. a = b /\ p = q
      BY <2>10, <2>13
    <3>2. ws = wz
      BY <2>6, <2>10, <3>1
    <3>3. Level(s, m) = Level(z, m) /\ SameUpto(s, z, m - 1)
      BY <2>6, <2>11, <3>1, <3>2
    <3>4. \A x \in 1 .. m : x = m \/ x \in 1 .. m - 1
      BY <2>4
    <3> QED BY <3>3, <3>4 DEF SameUpto
  <2> QED BY <2>2, <2>12, <2>13
<1>4. us(MaxGrade) <= uz(MaxGrade) /\ (us(MaxGrade) = uz(MaxGrade) => SameUpto(s, z, MaxGrade))
  <2> HIDE DEF us, uz
  <2> QED BY <1>1, <1>3
<1>5. ASSUME SameUpto(s, z, MaxGrade)
      PROVE  s = z
  <2>1. ASSUME NEW r \in 1 .. RankK
        PROVE  s[r] = z[r]
    <3>1. s[r] \in 0 .. MaxGrade /\ z[r] \in 0 .. MaxGrade
      BY DEF Graded
    <3>2. \A t \in 1 .. MaxGrade : s[r] >= t <=> z[r] >= t
      BY <1>5 DEF SameUpto, Level
    <3>3. s[r] >= 1 => z[r] >= s[r]
      BY <3>1, <3>2
    <3>4. z[r] >= 1 => s[r] >= z[r]
      BY <3>1, <3>2
    <3> QED BY <3>1, <3>3, <3>4
  <2>2. /\ s = [r \in 1 .. RankK |-> s[r]] /\ z = [r \in 1 .. RankK |-> z[r]]
    BY DEF Graded
  <2> QED BY <2>1, <2>2, Zenon
<1> QED BY <1>4, <1>5

\* The relevances of a list by place of the top, and 0 where it has ended.
Padded(rels) == [r \in 1 .. RankK |-> IF r <= Len(rels) THEN rels[r] ELSE 0]

LEMMA GainOfAList ==
    ASSUME NEW rels \in Seq(0 .. MaxGrade)
    PROVE  Graded(Padded(rels)) /\ dcg(rels, RankK) = Total(Upto(Padded(rels), MaxGrade))
<1> DEFINE s == Padded(rels)
           b == IF RankK < Len(rels) THEN RankK ELSE Len(rels)
           d == [r \in 1 .. b |-> Gain[rels[r]] * Discount[r]]
           u == Upto(s, MaxGrade)
<1>1. /\ MaxGrade \in Nat /\ RankK \in Nat /\ Len(rels) \in Nat /\ b \in Nat
      /\ b <= RankK /\ b <= Len(rels)
  BY MetricsAssumption
<1>2. \A r \in 1 .. Len(rels) : rels[r] \in 0 .. MaxGrade
  <2>1. DOMAIN rels = 1 .. Len(rels)
    OBVIOUS
  <2> QED BY <2>1, ItemOfAList, Zenon
<1>3. Graded(s)
  BY <1>1, <1>2 DEF Graded, Padded
<1>4. dcg(rels, RankK) = Total(d)
  <2>1. Top(rels, RankK) = SubSeq(rels, 1, b)
    BY DEF Top
  <2>2. DOMAIN SubSeq(rels, 1, b) = 1 .. b
    <3> HIDE DEF b
    <3> QED BY <1>1
  <2> HIDE DEF b
  <2> QED BY <2>1, <2>2 DEF dcg
<1>5. MaxGrade \in 0 .. MaxGrade
  BY <1>1
<1>6. u \in Seq(Nat) /\ Len(u) = RankK
  BY <1>3, <1>5, UptoIsAList
<1>7. ASSUME NEW r \in 1 .. RankK
      PROVE  u[r] = IF r <= b THEN Gain[rels[r]] * Discount[r] ELSE 0
  <2>1. s[r] \in 0 .. MaxGrade /\ s[r] = IF r <= b THEN rels[r] ELSE 0
    <3>1. r <= b <=> r <= Len(rels)
      BY <1>1
    <3>2. s[r] = IF r <= Len(rels) THEN rels[r] ELSE 0
      BY DEF Padded
    <3>3. s[r] \in 0 .. MaxGrade
      BY <1>3 DEF Graded
    <3> QED BY <3>1, <3>2, <3>3, Zenon
  <2>2. u[r] = Gain[IF s[r] < MaxGrade THEN s[r] ELSE MaxGrade] * Discount[r]
    BY DEF Upto
  <2>3. (IF s[r] < MaxGrade THEN s[r] ELSE MaxGrade) = s[r]
    <3> HIDE DEF s
    <3> QED BY <1>1, <2>1
  <2>4. u[r] = Gain[s[r]] * Discount[r]
    BY <2>2, <2>3, Zenon
  <2>5. Gain[0] * Discount[r] = 0
    <3>1. Discount[r] \in Nat
      BY DiscountFalls DEF Falling
    <3>2. Gain[0] = 0
      BY GainDoubles, Zenon
    <3> QED BY <3>1, <3>2
  <2> HIDE DEF s, u, b
  <2> QED BY <2>1, <2>4, <2>5, Zenon
<1> HIDE DEF b
<1>8. \A r \in 1 .. b : r \in 1 .. RankK /\ r <= b
  BY <1>1
<1>9. \A r \in 1 .. b : d[r] = u[r]
  BY <1>7, <1>8
<1>10. d \in Seq(Nat) /\ Len(d) = b
  <2>1. \A r \in 1 .. b : d[r] \in Nat
    <3>1. \A r \in 1 .. RankK : u[r] \in Nat
      <4> HIDE DEF u
      <4> QED BY <1>6
    <3> QED BY <1>8, <1>9, <3>1, Zenon
  <2>2. d \in [1 .. b -> Nat]
    BY <2>1
  <2> HIDE DEF d
  <2> QED BY <1>1, <2>2, FunctionsAreLists
<1> HIDE DEF d, u
<1>11. Len(d) <= Len(u) /\ (\A r \in 1 .. Len(d) : u[r] = d[r])
       /\ \A r \in 1 .. Len(u) : r > Len(d) => u[r] = 0
  <2>1. Len(d) <= Len(u)
    BY <1>1, <1>6, <1>10
  <2>2. \A r \in 1 .. Len(d) : u[r] = d[r]
    BY <1>9, <1>10
  <2>3. \A r \in 1 .. RankK : r > b => ~(r <= b)
    BY <1>1
  <2>4. \A r \in 1 .. RankK : r > b => u[r] = 0
    BY <1>7, <2>3
  <2> QED BY <1>6, <1>10, <2>1, <2>2, <2>4
<1>12. Total(u) = Total(d)
  BY <1>6, <1>10, <1>11, TotalOfPadded
<1> QED BY <1>3, <1>4, <1>12 DEF s, u

\* Of a higher grade there are no more judgments.
LEMMA FewerReach ==
    ASSUME CaseInv
    PROVE  /\ \A t \in Nat : /\ IsFiniteSet(Reaching(t)) /\ Cardinality(Reaching(t)) \in Nat
                             /\ Cardinality(Reaching(t)) <= Cardinality(DOMAIN judgments)
           /\ \A t, x \in Nat : t <= x => Cardinality(Reaching(x)) <= Cardinality(Reaching(t))
           /\ Reaching(0) = DOMAIN judgments /\ Reaching(MaxGrade + 1) = {}
           /\ Cardinality(DOMAIN judgments) \in Nat
<1>1. /\ MaxGrade \in Nat
      /\ \A c \in DOMAIN judgments : judgments[c] \in Nat /\ judgments[c] <= MaxGrade
  BY MetricsAssumption DEF CaseInv
<1>2. Reaching(0) = DOMAIN judgments /\ Reaching(MaxGrade + 1) = {}
  <2>1. \A c \in DOMAIN judgments : judgments[c] >= 0 /\ ~(judgments[c] >= MaxGrade + 1)
    BY <1>1
  <2> QED BY <2>1, Zenon DEF Reaching
<1>3. IsFiniteSet(DOMAIN judgments)
  BY MetricsAssumption, FS_Subset DEF CaseInv
<1>4. \A t, x \in Nat : t <= x => Reaching(x) \in SUBSET Reaching(t)
  <2>1. \A c \in DOMAIN judgments, t, x \in Nat : t <= x /\ judgments[c] >= x => judgments[c] >= t
    BY <1>1
  <2> QED BY <2>1 DEF Reaching
<1>5. \A t : Reaching(t) \in SUBSET DOMAIN judgments
  BY DEF Reaching
<1>6. \A t : /\ IsFiniteSet(Reaching(t)) /\ Cardinality(Reaching(t)) \in Nat
             /\ Cardinality(Reaching(t)) <= Cardinality(DOMAIN judgments)
  BY <1>3, <1>5, FS_Subset, FS_CardinalityType
<1>7. \A t, x \in Nat : t <= x => Cardinality(Reaching(x)) <= Cardinality(Reaching(t))
  BY <1>4, <1>6, FS_Subset
<1>8. Cardinality(DOMAIN judgments) \in Nat
  BY <1>3, FS_CardinalityType
<1> QED BY <1>2, <1>6, <1>7, <1>8

\* The ideal list has a grade or more at the places that as many judgments fill.
LEMMA IdealReaches ==
    ASSUME CaseInv
    PROVE  /\ Ideal \in Seq(0 .. MaxGrade) /\ Len(Ideal) = Cardinality(DOMAIN judgments)
           /\ \A r \in 1 .. Len(Ideal), t \in 1 .. MaxGrade :
                Ideal[r] >= t <=> r <= Cardinality(Reaching(t))
<1> DEFINE N == Cardinality(DOMAIN judgments)
           size(t) == Cardinality(Reaching(t))
<1>1. /\ MaxGrade \in Nat /\ N \in Nat
      /\ \A t \in Nat : size(t) \in Nat
      /\ \A t, x \in Nat : t <= x => size(x) <= size(t)
      /\ size(0) = N /\ size(MaxGrade + 1) = 0
  BY FewerReach, MetricsAssumption, FS_EmptySet
<1>2. ASSUME NEW r \in 1 .. N
      PROVE  Ideal[r] \in 0 .. MaxGrade /\ size(Ideal[r]) >= r /\ size(Ideal[r] + 1) < r
  <2> DEFINE T == {g \in 0 .. MaxGrade : size(g + 1) < r}
  <2>1. MaxGrade \in T
    <3> HIDE DEF size
    <3> QED BY <1>1
  <2>2. PICK m \in T : \A g \in T : m <= g
    <3>1. T \in SUBSET Nat
      OBVIOUS
    <3> HIDE DEF T
    <3> QED BY <2>1, <3>1, LeastNumber
  <2>3. size(m) >= r
    <3> HIDE DEF size
    <3>1. CASE m = 0
      BY <1>1, <3>1
    <3>2. CASE m # 0
      <4>1. m \in 0 .. MaxGrade /\ m - 1 \in 0 .. MaxGrade /\ (m - 1) + 1 = m /\ ~(m <= m - 1)
        BY <2>2, <3>2, <1>1
      <4>2. m - 1 \notin T
        <5> HIDE DEF T
        <5> QED BY <2>2, <4>1
      <4>3. ~(size((m - 1) + 1) < r)
        BY <4>1, <4>2
      <4>4. ~(size(m) < r)
        BY <4>1, <4>3
      <4>5. size(m) \in Nat
        BY <1>1, <4>1
      <4> QED BY <4>4, <4>5
    <3> QED BY <3>1, <3>2
  <2>4. m \in 0 .. MaxGrade /\ size(m + 1) < r
    BY <2>2
  <2>5. Ideal[r] = CHOOSE g \in 0 .. MaxGrade : size(g) >= r /\ size(g + 1) < r
    BY DEF Ideal
  <2> HIDE DEF size
  <2> QED BY <2>3, <2>4, <2>5
<1>3. Ideal \in Seq(0 .. MaxGrade) /\ Len(Ideal) = N
  <2>1. Ideal \in [1 .. N -> 0 .. MaxGrade]
    <3>1. DOMAIN Ideal = 1 .. N /\ Ideal = [r \in 1 .. N |-> Ideal[r]]
      BY DEF Ideal
    <3> HIDE DEF N, size
    <3> QED BY <1>2, <3>1
  <2> HIDE DEF N
  <2> QED BY <1>1, <2>1, FunctionsAreLists
<1>4. ASSUME NEW r \in 1 .. N, NEW t \in 1 .. MaxGrade
      PROVE  Ideal[r] >= t <=> r <= size(t)
  <2> DEFINE g == Ideal[r]
  <2> HIDE DEF size, g
  <2>1. g \in Nat /\ size(g) >= r /\ size(g + 1) < r /\ size(t) \in Nat /\ size(g) \in Nat /\ size(g + 1) \in Nat
    BY <1>1, <1>2 DEF g
  <2>2. g >= t => size(g) <= size(t)
    BY <1>1, <2>1
  <2>3. ~(g >= t) => size(t) <= size(g + 1)
    BY <1>1, <2>1
  <2>4. g >= t <=> r <= size(t)
    BY <2>1, <2>2, <2>3
  <2> QED BY <2>4 DEF g
<1> QED BY <1>3, <1>4

Ranked == Padded(RankedRel)
Best == Padded(Ideal)

LEMMA RankedIsGraded ==
    ASSUME CaseInv
    PROVE  RankedRel \in Seq(0 .. MaxGrade) /\ Len(RankedRel) = Len(ranking)
<1>1. Len(ranking) \in Nat /\ DOMAIN ranking = 1 .. Len(ranking) /\ 0 \in 0 .. MaxGrade
  BY MetricsAssumption DEF CaseInv
<1>2. RankedRel \in [1 .. Len(ranking) -> 0 .. MaxGrade]
  BY <1>1 DEF CaseInv, RankedRel
<1> QED BY <1>1, <1>2, FunctionsAreLists

\* The places of a grade or more: those of chunks that reach it in the ranking,
\* in the ideal the first ones.
LEMMA LevelsOfACase ==
    ASSUME CaseInv, NEW t \in 1 .. MaxGrade
    PROVE  /\ Level(Ranked, t) = {r \in 1 .. RankK : r \in DOMAIN ranking /\ ranking[r] \in Reaching(t)}
           /\ Level(Best, t) = {r \in 1 .. RankK : r <= Cardinality(Reaching(t))}
<1>1. /\ ranking \in Seq(Judgeable) /\ Len(ranking) \in Nat /\ DOMAIN ranking = 1 .. Len(ranking)
      /\ Len(RankedRel) = Len(ranking) /\ Len(Ideal) \in Nat /\ t \in Nat /\ t >= 1
  BY RankedIsGraded, IdealReaches DEF CaseInv
<1>2. ASSUME NEW r \in 1 .. RankK
      PROVE  Ranked[r] >= t <=> r \in DOMAIN ranking /\ ranking[r] \in Reaching(t)
  <2>1. Ranked[r] = IF r <= Len(ranking) THEN RankedRel[r] ELSE 0
    BY <1>1 DEF Ranked, Padded
  <2>2. r \in DOMAIN ranking <=> r <= Len(ranking)
    BY <1>1
  <2>3. CASE r \in DOMAIN ranking
    <3>1. RankedRel[r] = IF ranking[r] \in DOMAIN judgments THEN judgments[ranking[r]] ELSE 0
      BY <2>3 DEF RankedRel
    <3>2. RankedRel[r] >= t <=> ranking[r] \in Reaching(t)
      BY <1>1, <3>1 DEF Reaching
    <3> QED BY <2>1, <2>2, <2>3, <3>2
  <2>4. CASE r \notin DOMAIN ranking
    BY <1>1, <2>1, <2>2, <2>4
  <2> QED BY <2>3, <2>4
<1>3. ASSUME NEW r \in 1 .. RankK
      PROVE  Best[r] >= t <=> r <= Cardinality(Reaching(t))
  <2>1. Best[r] = IF r <= Len(Ideal) THEN Ideal[r] ELSE 0
    BY DEF Best, Padded
  <2>2. Cardinality(Reaching(t)) \in Nat /\ Cardinality(Reaching(t)) <= Len(Ideal)
    BY <1>1, FewerReach, IdealReaches
  <2>3. CASE r <= Len(Ideal)
    <3>1. r \in 1 .. Len(Ideal)
      BY <1>1, <2>3
    <3> QED BY <2>1, <2>3, <3>1, IdealReaches
  <2>4. CASE ~(r <= Len(Ideal))
    BY <1>1, <2>1, <2>2, <2>4
  <2> QED BY <2>3, <2>4
<1> QED BY <1>2, <1>3 DEF Level

\* A level of the ranking has no more places than judgments reach the grade.
LEMMA RankedFits ==
    ASSUME CaseInv, NEW t \in 1 .. MaxGrade
    PROVE  /\ IsFiniteSet(Level(Ranked, t)) /\ Cardinality(Level(Ranked, t)) \in Nat
           /\ Cardinality(Level(Ranked, t)) <= Cardinality(Reaching(t))
           /\ Cardinality(Level(Ranked, t)) <= RankK
           /\ Cardinality(Level(Ranked, t)) = Cardinality(Reaching(t)) =>
                \A c \in Reaching(t) : \E r \in Level(Ranked, t) : ranking[r] = c
<1> DEFINE A == Level(Ranked, t)
           f == [r \in A |-> ranking[r]]
<1>1. A = {r \in 1 .. RankK : r \in DOMAIN ranking /\ ranking[r] \in Reaching(t)}
  BY LevelsOfACase
<1>2. IsFiniteSet(Reaching(t)) /\ RankK \in Nat
  BY FewerReach, MetricsAssumption
<1>3. f \in Injection(A, Reaching(t))
  BY <1>1 DEF CaseInv, Injection, IsInjective
<1>4. /\ IsFiniteSet(A) /\ Cardinality(A) <= Cardinality(Reaching(t))
      /\ Cardinality(A) = Cardinality(Reaching(t)) <=> f \in Surjection(A, Reaching(t))
  <2> HIDE DEF A, f
  <2> QED BY <1>2, <1>3, FS_Injection
<1>5. Cardinality(A) \in Nat /\ Cardinality(A) <= RankK
  <2>1. A \in SUBSET (1 .. RankK) /\ IsFiniteSet(1 .. RankK) /\ Cardinality(1 .. RankK) = RankK
    <3>1. A \in SUBSET (1 .. RankK)
      BY <1>1
    <3>2. IsFiniteSet(1 .. RankK) /\ Cardinality(1 .. RankK) = RankK
      BY <1>2, FS_Interval
    <3> QED BY <3>1, <3>2
  <2> HIDE DEF A
  <2>2. Cardinality(A) <= Cardinality(1 .. RankK)
    BY <2>1, FS_Subset, Zenon
  <2>3. Cardinality(A) \in Nat
    BY <1>4, FS_CardinalityType
  <2> QED BY <2>1, <2>2, <2>3
<1>6. ASSUME f \in Surjection(A, Reaching(t)), NEW c \in Reaching(t)
      PROVE  \E r \in A : ranking[r] = c
  <2>1. \E r \in A : f[r] = c
    BY <1>6 DEF Surjection
  <2> QED BY <2>1
<1> QED BY <1>4, <1>5, <1>6

LEMMA BestIsAhead ==
    ASSUME CaseInv
    PROVE  Ahead(Best, Ranked)
<1> SUFFICES ASSUME NEW t \in 1 .. MaxGrade
             PROVE  \/ Level(Best, t) = {} /\ Level(Ranked, t) = {}
                    \/ \E b \in 1 .. RankK : Level(Best, t) = 1 .. b /\ Cardinality(Level(Ranked, t)) <= b
  BY DEF Ahead
<1> DEFINE N == Cardinality(Reaching(t))
           L == Cardinality(Level(Ranked, t))
           b == IF N < RankK THEN N ELSE RankK
<1>1. N \in Nat /\ RankK \in Nat /\ RankK >= 1 /\ t \in Nat
  BY FewerReach, MetricsAssumption
<1>2. Level(Best, t) = {r \in 1 .. RankK : r <= N}
  BY LevelsOfACase
<1>3. L \in Nat /\ L <= N /\ L <= RankK /\ IsFiniteSet(Level(Ranked, t))
  BY RankedFits
<1>4. L = 0 => Level(Ranked, t) = {}
  BY <1>3, FS_EmptySet
<1> HIDE DEF N, L
<1>5. CASE N = 0
  BY <1>2, <1>3, <1>4, <1>5
<1>6. CASE N > 0
  <2>1. b \in 1 .. RankK /\ L <= b
    BY <1>1, <1>3, <1>6
  <2>2. \A r \in 1 .. RankK : r <= N <=> r <= b
    BY <1>1
  <2>3. Level(Best, t) = 1 .. b
    BY <1>1, <1>2, <2>1, <2>2
  <2> HIDE DEF b
  <2> QED BY <2>1, <2>3 DEF L
<1> QED BY <1>1, <1>5, <1>6

\* No chunk that the top misses at a place has a higher grade than the one there.
Greedy ==
    \A r \in 1 .. RankK, c \in DOMAIN judgments :
        \/ c \in TopChunks(r)
        \/ judgments[c] = 0
        \/ r <= Len(ranking) /\ RankedRel[r] >= judgments[c]

LEMMA GreedyIsSame ==
    ASSUME CaseInv
    PROVE  SameUpto(Ranked, Best, MaxGrade) <=> Greedy
<1>1. /\ ranking \in Seq(Judgeable) /\ Len(ranking) \in Nat /\ DOMAIN ranking = 1 .. Len(ranking)
      /\ RankK \in Nat /\ MaxGrade \in Nat
  BY MetricsAssumption DEF CaseInv
<1>2. \A r \in 1 .. RankK : TopChunks(r) = {ranking[q] : q \in {x \in DOMAIN ranking : x <= r}}
  <2>1. \A r \in 1 .. RankK : r \in Nat
    OBVIOUS
  <2> QED BY <2>1, RelevantPlaces
<1>3. \A r \in 1 .. RankK : r <= Len(ranking) => Ranked[r] = RankedRel[r]
  BY RankedIsGraded DEF Ranked, Padded
<1>4. ASSUME SameUpto(Ranked, Best, MaxGrade), NEW r \in 1 .. RankK, NEW c \in DOMAIN judgments,
             c \notin TopChunks(r), judgments[c] # 0
      PROVE  r <= Len(ranking) /\ RankedRel[r] >= judgments[c]
  <2> DEFINE t == judgments[c]
             A == Level(Ranked, t)
             N == Cardinality(Reaching(t))
  <2>1. t \in 1 .. MaxGrade /\ t \in Nat /\ c \in Reaching(t)
    BY <1>1, <1>4 DEF CaseInv, Reaching
  <2>2. A = Level(Best, t)
    BY <1>4, <2>1 DEF SameUpto
  <2>3. A = {q \in 1 .. RankK : q <= N} /\ N \in Nat
    BY <2>1, <2>2, LevelsOfACase, FewerReach
  <2>4. r \in A
    <3>1. SUFFICES ASSUME r \notin A
                   PROVE  FALSE
      OBVIOUS
    <3> HIDE DEF A, N, t
    <3>2. N < r
      BY <2>3, <3>1
    <3>3. A = 1 .. N
      <4>1. r <= RankK
        BY <1>1
      <4>2. \A q : q \in 1 .. N <=> q \in 1 .. RankK /\ q <= N
        BY <1>1, <2>3, <3>2, <4>1
      <4> QED BY <2>3, <4>2, Zenon
    <3>4. Cardinality(A) = N
      BY <2>3, <3>3, FS_Interval
    <3>5. PICK q \in A : ranking[q] = c
      BY <2>1, <3>4, RankedFits DEF A, N
    <3>6. q <= r /\ q \in DOMAIN ranking
      <4>1. q \in DOMAIN ranking
        BY <2>1, <3>5, LevelsOfACase DEF A
      <4> QED BY <2>3, <3>2, <3>5, <4>1
    <3> QED BY <1>2, <1>4, <3>5, <3>6
  <2>5. r \in DOMAIN ranking /\ Ranked[r] >= t
    BY <2>1, <2>4, LevelsOfACase DEF Level
  <2> HIDE DEF t, A, N
  <2> QED BY <1>1, <1>3, <2>5 DEF t
<1>5. ASSUME Greedy, NEW t \in 1 .. MaxGrade
      PROVE  Level(Ranked, t) = Level(Best, t)
  <2> DEFINE A == Level(Ranked, t)
             B == Level(Best, t)
             N == Cardinality(Reaching(t))
  <2>1. /\ A \in SUBSET (1 .. RankK) /\ B = {r \in 1 .. RankK : r <= N} /\ N \in Nat
        /\ t \in Nat /\ t >= 1
    BY LevelsOfACase, FewerReach DEF Level
  <2>2. ASSUME NEW r \in B, r \notin A
        PROVE  FALSE
    <3> DEFINE P == 1 .. r - 1
               f == [q \in P |-> ranking[q]]
    <3>1. r \in 1 .. RankK /\ r <= N /\ r \in Nat /\ r >= 1 /\ r - 1 \in Nat
      BY <2>1, <2>2
    <3>2. ASSUME NEW c \in Reaching(t)
          PROVE  \E q \in P : q \in DOMAIN ranking /\ ranking[q] = c
      <4>1. c \in DOMAIN judgments /\ judgments[c] >= t /\ judgments[c] \in Nat /\ judgments[c] # 0
        BY <1>1, <2>1, <3>2 DEF Reaching, CaseInv
      <4>2. ~(r <= Len(ranking) /\ RankedRel[r] >= judgments[c])
        <5>1. SUFFICES ASSUME r <= Len(ranking), RankedRel[r] >= judgments[c]
                       PROVE  FALSE
          OBVIOUS
        <5>2. RankedRel[r] \in Nat
          <6>1. r \in DOMAIN RankedRel
            BY <1>1, <3>1, <5>1, RankedIsGraded
          <6>2. RankedRel[r] \in 0 .. MaxGrade
            BY <6>1, RankedIsGraded, ItemOfAList, Zenon
          <6> QED BY <1>1, <6>2
        <5>3. Ranked[r] >= t
          BY <1>3, <2>1, <3>1, <4>1, <5>1, <5>2
        <5> QED BY <2>2, <3>1, <5>3 DEF Level
      <4>3. c \in TopChunks(r)
        BY <1>5, <3>1, <4>1, <4>2 DEF Greedy
      <4>4. PICK q \in DOMAIN ranking : q <= r /\ ranking[q] = c
        BY <1>2, <3>1, <4>3
      <4>5. q # r
        <5>1. r \in DOMAIN ranking => ranking[r] \notin Reaching(t)
          BY <2>2, <3>1, LevelsOfACase
        <5> QED BY <3>2, <4>4, <5>1
      <4>6. q \in P
        BY <1>1, <3>1, <4>4, <4>5
      <4> QED BY <4>4, <4>6
    <3>3. IsFiniteSet(P) /\ Cardinality(P) = r - 1
      BY <3>1, FS_Interval
    <3>4. Reaching(t) \in SUBSET {ranking[q] : q \in P}
      BY <3>2
    <3>5. /\ IsFiniteSet({ranking[q] : q \in P}) /\ Cardinality({ranking[q] : q \in P}) <= Cardinality(P)
      <4>1. {ranking[q] : q \in P} = {f[q] : q \in P} /\ f \in [P -> {f[q] : q \in P}]
            /\ f \in Surjection(P, {f[q] : q \in P})
        BY DEF Surjection
      <4> HIDE DEF P, f
      <4> QED BY <3>3, <4>1, FS_Surjection
    <3>6. N <= Cardinality({ranking[q] : q \in P}) /\ Cardinality({ranking[q] : q \in P}) \in Nat
      <4> HIDE DEF P
      <4> QED BY <3>4, <3>5, FS_Subset, FS_CardinalityType
    <3> HIDE DEF P, N
    <3>7. N <= r - 1
      BY <2>1, <3>1, <3>3, <3>5, <3>6
    <3> QED BY <2>1, <3>1, <3>7
  <2>3. B \in SUBSET A
    BY <2>2
  <2>4. CASE B = {}
    <3>1. N = 0
      <4>1. 1 \in 1 .. RankK
        BY MetricsAssumption
      <4>2. ~(1 <= N)
        <5> HIDE DEF N
        <5> QED BY <2>1, <2>4, <4>1
      <4> HIDE DEF N
      <4> QED BY <2>1, <4>2
    <3>2. Cardinality(A) = 0 /\ IsFiniteSet(A)
      BY <3>1, RankedFits
    <3>3. A = {}
      <4> HIDE DEF A
      <4> QED BY <3>2, FS_EmptySet
    <3> QED BY <2>4, <3>3
  <2>5. CASE B # {}
    <3>1. PICK b \in 1 .. RankK : B = 1 .. b /\ Cardinality(A) <= b
      BY <2>5, BestIsAhead DEF Ahead
    <3>2. IsFiniteSet(A) /\ Cardinality(A) \in Nat
      BY RankedFits
    <3>3. Cardinality(B) = b /\ b \in Nat
      <4>1. b \in Nat /\ b >= 1
        OBVIOUS
      <4> HIDE DEF B
      <4> QED BY <3>1, <4>1, FS_Interval
    <3> HIDE DEF A, B
    <3>4. B = A
      <4>1. Cardinality(B) <= Cardinality(A)
        BY <2>3, <3>2, FS_Subset
      <4>2. Cardinality(B) = Cardinality(A)
        BY <3>1, <3>2, <3>3, <4>1
      <4> QED BY <2>3, <3>2, <4>2, FS_Subset
    <3> QED BY <3>4 DEF A, B
  <2> QED BY <2>4, <2>5
<1>6. SameUpto(Ranked, Best, MaxGrade) => Greedy
  BY <1>4 DEF Greedy
<1>7. Greedy => SameUpto(Ranked, Best, MaxGrade)
  BY <1>5 DEF SameUpto
<1> QED BY <1>6, <1>7

\* A list gains nothing exactly when no place of the top has a grade.
LEMMA NoGain ==
    ASSUME NEW s, Graded(s)
    PROVE  Total(Upto(s, MaxGrade)) = 0 <=> \A r \in 1 .. RankK : s[r] = 0
<1> DEFINE u == Upto(s, MaxGrade)
<1>1. MaxGrade \in 0 .. MaxGrade /\ MaxGrade \in Nat
  BY MetricsAssumption
<1>2. u \in Seq(Nat) /\ Len(u) = RankK
  BY <1>1, UptoIsAList
<1>3. ASSUME NEW r \in 1 .. RankK
      PROVE  u[r] = 0 <=> s[r] = 0
  <2>1. s[r] \in 0 .. MaxGrade /\ Discount[r] \in Nat \ {0}
    BY DiscountFalls DEF Graded, Falling
  <2>2. (IF s[r] < MaxGrade THEN s[r] ELSE MaxGrade) = s[r]
    BY <1>1, <2>1
  <2>3. u[r] = Gain[s[r]] * Discount[r]
    BY <2>2 DEF Upto
  <2>4. Gain[s[r]] \in Nat /\ (Gain[s[r]] = 0 <=> s[r] = 0)
    <3>1. CASE s[r] = 0
      BY <3>1, GainDoubles
    <3>2. CASE s[r] # 0
      <4>1. s[r] \in 1 .. MaxGrade /\ s[r] - 1 \in 0 .. MaxGrade
        BY <1>1, <2>1, <3>2
      <4>2. Gain[s[r]] = 2 * Gain[s[r] - 1] + 1 /\ Gain[s[r] - 1] \in Nat
        BY <4>1, GainDoubles
      <4> QED BY <3>2, <4>2
    <3> QED BY <3>1, <3>2
  <2>5. \A a \in Nat, b \in Nat \ {0} : a * b = 0 <=> a = 0
    OBVIOUS
  <2> HIDE DEF u
  <2> QED BY <2>1, <2>3, <2>4, <2>5
<1> HIDE DEF u
<1>4. Total(u) = 0 <=> \A r \in 1 .. Len(u) : u[r] = 0
  BY <1>2, TotalOfNoughts
<1> QED BY <1>2, <1>3, <1>4 DEF u

LEMMA GainsAgreeOnce ==
    ASSUME CaseInv, ScoreCase
    PROVE  GainsAgree'
<1> DEFINE mine == dcg(RankedRel, RankK)
           best == dcg(Ideal, RankK)
           rel == JudgedRelevant
           none == TopChunks(RankK) \cap rel = {}
<1>1. /\ ranking' = ranking /\ judgments' = judgments
      /\ score'.ndcg = IF best = 0 THEN <<0, 1>> ELSE <<mine, best>>
      /\ score'.counted = (Cardinality(rel) > 0)
  BY DEF ScoreCase, ndcg_at_k
<1>2. /\ ranking \in Seq(Judgeable) /\ Len(ranking) \in Nat /\ DOMAIN ranking = 1 .. Len(ranking)
      /\ RankK \in Nat /\ RankK >= 1 /\ MaxGrade \in Nat
  BY MetricsAssumption DEF CaseInv
<1>3. /\ Graded(Ranked) /\ mine = Total(Upto(Ranked, MaxGrade))
      /\ Graded(Best) /\ best = Total(Upto(Best, MaxGrade))
  BY RankedIsGraded, IdealReaches, GainOfAList DEF Ranked, Best
<1>4. mine \in Nat /\ best \in Nat
  <2>1. MaxGrade \in 0 .. MaxGrade
    BY <1>2
  <2> QED BY <1>3, <2>1, UptoIsAList
<1>5. mine <= best /\ (mine = best <=> Greedy)
  BY <1>3, BestIsAhead, LevelsCompare, GreedyIsSame
<1>6. mine = 0 <=> none
  <2>1. mine = 0 <=> \A r \in 1 .. RankK : Ranked[r] = 0
    BY <1>3, NoGain
  <2>2. none <=> RelevantIn(RankedRel, RankK) = {}
    BY <1>2, RelevantMeets
  <2>3. RelevantIn(RankedRel, RankK) = {r \in DOMAIN ranking : r <= RankK /\ ranking[r] \in JudgedRelevant}
    BY <1>2, RelevantPlaces
  <2>4. ASSUME NEW r \in 1 .. RankK
        PROVE  Ranked[r] # 0 <=> r \in DOMAIN ranking /\ ranking[r] \in JudgedRelevant
    <3>1. Ranked[r] = IF r <= Len(ranking) THEN RankedRel[r] ELSE 0
      BY RankedIsGraded DEF Ranked, Padded
    <3>2. CASE r \in DOMAIN ranking
      <4>1. RankedRel[r] = IF ranking[r] \in DOMAIN judgments THEN judgments[ranking[r]] ELSE 0
        BY <3>2 DEF RankedRel
      <4>2. \A c \in DOMAIN judgments : judgments[c] # 0 <=> judgments[c] >= 1
        BY <1>2 DEF CaseInv
      <4>3. RankedRel[r] # 0 <=> ranking[r] \in JudgedRelevant
        BY <4>1, <4>2 DEF JudgedRelevant
      <4> QED BY <1>2, <3>1, <3>2, <4>3
    <3>3. CASE r \notin DOMAIN ranking
      BY <1>2, <3>1, <3>3
    <3> QED BY <3>2, <3>3
  <2>5. \A r \in DOMAIN ranking : r <= RankK <=> r \in 1 .. RankK
    BY <1>2
  <2> QED BY <2>1, <2>2, <2>3, <2>4, <2>5
<1>7. Cardinality(rel) > 0 => best # 0
  <2>1. SUFFICES ASSUME Cardinality(rel) > 0, best = 0
                 PROVE  FALSE
    OBVIOUS
  <2>2. rel = Reaching(1)
    BY DEF JudgedRelevant, Reaching
  <2>3. MaxGrade >= 1
    <3>1. PICK c \in rel : TRUE
      <4> HIDE DEF rel
      <4>1. rel # {}
        BY <2>1, FS_EmptySet
      <4> QED BY <4>1
    <3> QED BY <1>2, <3>1 DEF JudgedRelevant, CaseInv
  <2>4. 1 \in 1 .. RankK /\ 1 \in 1 .. MaxGrade
    BY <1>2, <2>3
  <2>5. Best[1] = 0
    BY <1>3, <2>1, <2>4, NoGain
  <2>6. 1 \notin Level(Best, 1)
    BY <2>5 DEF Level
  <2>7. ~(1 <= Cardinality(Reaching(1)))
    BY <2>4, <2>6, LevelsOfACase
  <2>8. Cardinality(Reaching(1)) \in Nat
    BY FewerReach
  <2> HIDE DEF rel
  <2> QED BY <2>1, <2>2, <2>7, <2>8
<1>8. GainsAgree' =
        (score'.scored =>
           /\ Fraction(score'.ndcg)
           /\ score'.ndcg[1] = 0 <=> none
           /\ score'.counted => (score'.ndcg[1] = score'.ndcg[2] <=> Greedy))
  BY <1>1 DEF GainsAgree, Greedy, Fraction, TopChunks, Top, JudgedRelevant, RankedRel
<1> HIDE DEF mine, best, rel, none
<1>9. CASE best = 0
  <2>1. mine = 0 /\ score'.ndcg = <<0, 1>> /\ ~score'.counted
    <3>1. mine = 0
      BY <1>4, <1>5, <1>9
    <3>2. score'.ndcg = <<0, 1>>
      BY <1>1, <1>9, Zenon
    <3>3. ~score'.counted
      BY <1>1, <1>7, <1>9, Zenon
    <3> QED BY <3>1, <3>2, <3>3
  <2>2. Fraction(score'.ndcg) /\ score'.ndcg[1] = 0 /\ none
    BY <1>6, <2>1 DEF Fraction
  <2> QED BY <1>8, <2>1, <2>2
<1>10. CASE best # 0
  <2>1. score'.ndcg = <<mine, best>>
    BY <1>1, <1>10
  <2>2. Fraction(score'.ndcg) /\ score'.ndcg[1] = mine /\ score'.ndcg[2] = best
    BY <1>4, <1>5, <1>10, <2>1 DEF Fraction
  <2> QED BY <1>5, <1>6, <1>8, <2>2
<1> QED BY <1>9, <1>10

\* For any ranking, judgments and grades, and for a top of at most ten, the gain
\* agrees with the judgments.
THEOREM GainsAlwaysAgree == MetricsSpec => []GainsAgree
<1>1. MInit => CaseInv /\ GainsAgree
  BY CasesBegin DEF MInit, NoScore, GainsAgree
<1>2. CaseInv /\ GainsAgree /\ [ScoreCase]_mvars => CaseInv' /\ GainsAgree'
  <2>1. CaseInv /\ ScoreCase => CaseInv' /\ GainsAgree'
    BY GainsAgreeOnce DEF ScoreCase, CaseInv
  <2>2. CaseInv /\ GainsAgree /\ UNCHANGED mvars => CaseInv' /\ GainsAgree'
    BY DEF mvars, CaseInv, GainsAgree, TopChunks, Top, JudgedRelevant, RankedRel, Fraction
  <2> QED BY <2>1, <2>2
<1> QED BY <1>1, <1>2, PTL DEF MetricsSpec
=============================================================================
