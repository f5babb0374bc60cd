--------------------------- MODULE IdentityProofs ---------------------------
(***************************************************************************)
(* Proofs about profiles and the requests written with them, for any       *)
(* files, directories, orders, requests and spellings that Identity        *)
(* admits.                                                                 *)
(***************************************************************************)
EXTENDS Identity, FiniteSetTheorems, TLAPS

-----------------------------------------------------------------------------
(* Sorting.                                                                *)

\* R orders S strictly and leaves no two of its elements unordered.
Orders(R, S) ==
    /\ \A x \in S : <<x, x>> \notin R
    /\ \A x, y \in S : x # y => <<x, y>> \in R \/ <<y, x>> \in R
    /\ \A x, y, z \in S : <<x, y>> \in R /\ <<y, z>> \in R => <<x, z>> \in R

Below(x, S, R) == {y \in S : <<y, x>> \in R}

LEMMA BelowGrows ==
  ASSUME NEW S, IsFiniteSet(S), NEW R, Orders(R, S)
  PROVE  /\ Cardinality(S) \in Nat
         /\ \A x \in S : /\ Cardinality(Below(x, S, R)) \in Nat
                         /\ Cardinality(Below(x, S, R)) < Cardinality(S)
         /\ \A x, y \in S : <<x, y>> \in R
                => Cardinality(Below(x, S, R)) < Cardinality(Below(y, S, R))
<1>1. Cardinality(S) \in Nat  BY FS_CardinalityType
<1>2. ASSUME NEW x \in S
      PROVE  /\ IsFiniteSet(Below(x, S, R)) /\ Cardinality(Below(x, S, R)) \in Nat
             /\ Cardinality(Below(x, S, R)) < Cardinality(S)
  <2>1. Below(x, S, R) \in SUBSET S /\ x \notin Below(x, S, R)  BY DEF Below, Orders
  <2>2. /\ IsFiniteSet(Below(x, S, R)) /\ Cardinality(Below(x, S, R)) <= Cardinality(S)
        /\ Cardinality(S) = Cardinality(Below(x, S, R)) => S = Below(x, S, R)
    BY <2>1, FS_Subset
  <2>3. Cardinality(Below(x, S, R)) \in Nat  BY <2>2, FS_CardinalityType
  <2> QED BY <1>1, <2>1, <2>2, <2>3
<1>3. ASSUME NEW x \in S, NEW y \in S, <<x, y>> \in R
      PROVE  Cardinality(Below(x, S, R)) < Cardinality(Below(y, S, R))
  <2>1. Below(x, S, R) \in SUBSET Below(y, S, R)  BY <1>3 DEF Below, Orders
  <2>2. x \in Below(y, S, R) /\ x \notin Below(x, S, R)  BY <1>3 DEF Below, Orders
  <2>3. IsFiniteSet(Below(y, S, R))  BY <1>2
  <2>4. /\ Cardinality(Below(x, S, R)) <= Cardinality(Below(y, S, R))
        /\ Cardinality(Below(y, S, R)) = Cardinality(Below(x, S, R))
              => Below(y, S, R) = Below(x, S, R)
    BY <2>1, <2>3, FS_Subset
  <2>5. Cardinality(Below(x, S, R)) \in Nat /\ Cardinality(Below(y, S, R)) \in Nat  BY <1>2
  <2> QED BY <2>2, <2>4, <2>5
<1> QED BY <1>1, <1>2, <1>3

LEMMA ArrangedOnto ==
  ASSUME NEW S, IsFiniteSet(S), NEW R, Orders(R, S)
  PROVE  \A i \in 1..Cardinality(S) : \E x \in S : Cardinality(Below(x, S, R)) = i - 1
<1> DEFINE n == Cardinality(S)
           T == 0..(n - 1)
           rank == [x \in S |-> Cardinality(Below(x, S, R))]
<1>1. n \in Nat  BY BelowGrows
<1>2. rank \in [S -> T]  BY BelowGrows
<1>3. ASSUME NEW x \in S, NEW y \in S, rank[x] = rank[y]
      PROVE  x = y
  <2>1. Cardinality(Below(x, S, R)) = Cardinality(Below(y, S, R))  BY <1>3
  <2>2. /\ Cardinality(Below(x, S, R)) \in Nat
        /\ <<x, y>> \in R => Cardinality(Below(x, S, R)) < Cardinality(Below(y, S, R))
        /\ <<y, x>> \in R => Cardinality(Below(y, S, R)) < Cardinality(Below(x, S, R))
    BY BelowGrows
  <2>3. ~(<<x, y>> \in R) /\ ~(<<y, x>> \in R)  BY <2>1, <2>2
  <2> QED BY <2>3 DEF Orders
<1>4. rank \in Injection(S, T)  BY <1>2, <1>3 DEF Injection, IsInjective
<1>5. IsFiniteSet(T) /\ Cardinality(T) = n  BY <1>1, FS_Interval, SMTT(30)
<1>6. rank \in Surjection(S, T)  BY <1>4, <1>5, FS_Injection
<1>7. \A m \in T : \E x \in S : rank[x] = m  BY <1>6 DEF Surjection
<1> QED BY <1>1, <1>7

\* Arranged lists S without repetition, in the order of R.
LEMMA ArrangedIs ==
  ASSUME NEW S, IsFiniteSet(S), NEW R, Orders(R, S)
  PROVE  /\ Cardinality(S) \in Nat
         /\ Arranged(S, R) \in [1..Cardinality(S) -> S]
         /\ \A i, j \in 1..Cardinality(S) :
               i < j <=> <<Arranged(S, R)[i], Arranged(S, R)[j]>> \in R
         /\ \A x \in S : \E i \in 1..Cardinality(S) : Arranged(S, R)[i] = x
         /\ \A i \in 1..Cardinality(S) : Cardinality(Below(Arranged(S, R)[i], S, R)) = i - 1
<1> DEFINE n == Cardinality(S)
           a == Arranged(S, R)
           rank(x) == Cardinality(Below(x, S, R))
<1>1. n \in Nat /\ \A x \in S : rank(x) \in Nat /\ rank(x) < n  BY BelowGrows
<1>2. ASSUME NEW i \in 1..n
      PROVE  a[i] \in S /\ rank(a[i]) = i - 1
  <2>1. \E x \in S : Cardinality({y \in S : <<y, x>> \in R}) = i - 1
    BY ArrangedOnto DEF Below
  <2>2. a[i] = CHOOSE x \in S : Cardinality({y \in S : <<y, x>> \in R}) = i - 1
    BY DEF Arranged
  <2> QED BY <2>1, <2>2 DEF Below
<1>3. a \in [1..n -> S]  BY <1>2 DEF Arranged
<1>4. ASSUME NEW x \in S, NEW y \in S
      PROVE  rank(x) < rank(y) <=> <<x, y>> \in R
  <2>1. <<x, y>> \in R => rank(x) < rank(y)  BY BelowGrows
  <2>2. <<y, x>> \in R => rank(y) < rank(x)  BY BelowGrows
  <2>3. x = y \/ <<x, y>> \in R \/ <<y, x>> \in R  BY DEF Orders
  <2> HIDE DEF rank
  <2> QED BY <1>1, <2>1, <2>2, <2>3
<1>5. ASSUME NEW i \in 1..n, NEW j \in 1..n
      PROVE  i < j <=> <<a[i], a[j]>> \in R
  <2> HIDE DEF rank, a
  <2>1. rank(a[i]) < rank(a[j]) <=> <<a[i], a[j]>> \in R  BY <1>2, <1>4
  <2> QED BY <1>1, <1>2, <2>1
<1>6. ASSUME NEW x \in S
      PROVE  \E i \in 1..n : a[i] = x
  <2> HIDE DEF rank, a, n
  <2>1. rank(x) + 1 \in 1..n  BY <1>1
  <2>2. a[rank(x) + 1] \in S /\ rank(a[rank(x) + 1]) = rank(x)  BY <1>1, <1>2, <2>1
  <2>3. a[rank(x) + 1] = x \/ <<a[rank(x) + 1], x>> \in R \/ <<x, a[rank(x) + 1]>> \in R
    BY <2>2 DEF Orders
  <2>4. ~(<<a[rank(x) + 1], x>> \in R) /\ ~(<<x, a[rank(x) + 1]>> \in R)
    BY <1>1, <1>4, <2>2
  <2> QED BY <2>1, <2>3, <2>4
<1> QED BY <1>1, <1>2, <1>3, <1>5, <1>6

LEMMA AscendingIs ==
  ASSUME NEW S \in SUBSET Int, IsFiniteSet(S)
  PROVE  /\ Cardinality(S) \in Nat
         /\ Ascending(S) \in [1..Cardinality(S) -> S]
         /\ \A i, j \in 1..Cardinality(S) : i < j <=> Ascending(S)[i] < Ascending(S)[j]
         /\ \A x \in S : \E i \in 1..Cardinality(S) : Ascending(S)[i] = x
         /\ \A i \in 1..Cardinality(S) : Cardinality({y \in S : y < Ascending(S)[i]}) = i - 1
<1> DEFINE R == {r \in S \X S : r[1] < r[2]}
<1>1. \A x, y \in S : <<x, y>> \in R <=> x < y  OBVIOUS
<1>2. Orders(R, S)
  <2> HIDE DEF R
  <2> QED BY <1>1 DEF Orders
<1>3. Ascending(S) = Arranged(S, R)  BY DEF Ascending
<1> HIDE DEF R
<1>4. /\ Cardinality(S) \in Nat
      /\ Arranged(S, R) \in [1..Cardinality(S) -> S]
      /\ \A i, j \in 1..Cardinality(S) :
            i < j <=> <<Arranged(S, R)[i], Arranged(S, R)[j]>> \in R
      /\ \A x \in S : \E i \in 1..Cardinality(S) : Arranged(S, R)[i] = x
      /\ \A i \in 1..Cardinality(S) : Cardinality(Below(Arranged(S, R)[i], S, R)) = i - 1
  BY <1>2, ArrangedIs
<1>5. \A i, j \in 1..Cardinality(S) : Ascending(S)[i] \in S /\ Ascending(S)[j] \in S
  BY <1>3, <1>4
<1>6. \A x \in S : Below(x, S, R) = {y \in S : y < x}  BY <1>1 DEF Below
<1> QED BY <1>1, <1>3, <1>4, <1>5, <1>6

\* Keep passes over seq once, from its first place to its last.
LEMMA KeepIs ==
  ASSUME NEW seq, NEW I \in SUBSET Int, IsFiniteSet(I)
  PROVE  /\ Cardinality(I) \in Nat
         /\ DOMAIN Keep(seq, I) = 1..Cardinality(I)
         /\ \A T : (\A i \in I : seq[i] \in T) => Keep(seq, I) \in [1..Cardinality(I) -> T]
         /\ \A i \in 1..Cardinality(I) : Keep(seq, I)[i] = seq[Ascending(I)[i]]
<1>1. Cardinality(I) \in Nat /\ DOMAIN Keep(seq, I) = 1..Cardinality(I)
  BY AscendingIs DEF Keep
<1>2. Ascending(I) \in [1..Cardinality(I) -> I]  BY AscendingIs
<1>3. \A i \in 1..Cardinality(I) : Keep(seq, I)[i] = seq[Ascending(I)[i]]  BY DEF Keep
<1>4. ASSUME NEW T, \A i \in I : seq[i] \in T
      PROVE  Keep(seq, I) \in [1..Cardinality(I) -> T]
  BY <1>2, <1>4 DEF Keep
<1> QED BY <1>1, <1>3, <1>4

-----------------------------------------------------------------------------
(* The order of the header keys.                                           *)

\* What is selected is a file, but for the template of its ClientHello and
\* the order its settings were decoded in.
Chosen(f) ==
    /\ selected.id = f.id /\ selected.order = f.order /\ selected.pseudo = f.pseudo
    /\ selected.set = f.set /\ selected.settings \in UnmarshalSettings(f.settings)

SelectedOK ==
    phase \in {"connect", "request", "sent"} => \E f \in AllFiles : Chosen(f)

LEMMA RankIs ==
  ASSUME NEW k, selected.order \in Seq(DOMAIN Lower), Ranked(k)
  PROVE  /\ Rank(k) \in DOMAIN selected.order /\ Rank(k) \in Int
         /\ Lower[selected.order[Rank(k)]] = Lower[k]
         /\ \A i \in Ranks(k) : i <= Rank(k)
<1> DEFINE S == Ranks(k)
           n == Cardinality(S)
<1>1. S \in SUBSET (1..Len(selected.order)) /\ S # {} /\ Len(selected.order) \in Nat
  BY DEF Ranked, Ranks
<1>2. IsFiniteSet(1..Len(selected.order))  BY <1>1, FS_Interval
<1>3. IsFiniteSet(S)  BY <1>1, <1>2, FS_Subset
<1> HIDE DEF S
<1>4. S \in SUBSET Int  BY <1>1
<1>5. n \in Nat /\ n # 0  BY <1>1, <1>3, FS_EmptySet, FS_CardinalityType
<1>6. PICK at \in [1..n -> S] : /\ \A i, j \in 1..n : i < j <=> at[i] < at[j]
                                /\ \A x \in S : \E i \in 1..n : at[i] = x
  BY <1>3, <1>4, AscendingIs
<1>7. n \in 1..n /\ at[n] \in S  BY <1>5, <1>6
<1>8. ASSUME NEW j \in S
      PROVE  j <= at[n]
  <2>1. PICK i \in 1..n : at[i] = j  BY <1>6
  <2>2. ~(at[n] < at[i])  BY <1>5, <1>6, <1>7
  <2>3. at[n] \in Int /\ at[i] \in Int  BY <1>4, <1>7, <2>1
  <2> QED BY <2>1, <2>2, <2>3
<1>9. Rank(k) \in S /\ \A j \in S : j <= Rank(k)  BY <1>7, <1>8 DEF Rank, S
<1> QED BY <1>1, <1>9 DEF S, Ranks

\* Two keys have different ranks, so Less leaves no tie to the sort.
LEMMA LessOrders ==
  ASSUME selected.order \in Seq(DOMAIN Lower)
  PROVE  \A a, b, c \in HeaderKeys :
           /\ ~Less(a, a)
           /\ a # b => Less(a, b) \/ Less(b, a)
           /\ Less(a, b) /\ Less(b, c) => Less(a, c)
<1>1. \A k \in HeaderKeys : Alphabet[k] \in Int  BY RequestAssumption
<1>2. \A k, l \in HeaderKeys : Alphabet[k] = Alphabet[l] => k = l  BY RequestAssumption
<1>3. \A k \in HeaderKeys : Ranked(k) => Rank(k) \in Int  BY RankIs
<1>4. ASSUME NEW k \in HeaderKeys, NEW l \in HeaderKeys, Ranked(k), Ranked(l), Rank(k) = Rank(l)
      PROVE  k = l
  BY <1>4, RankIs, RequestAssumption
<1>5. \A a, b \in HeaderKeys :
        Less(a, b) <=> \/ Ranked(a) /\ Ranked(b) /\ Rank(a) < Rank(b)
                       \/ Ranked(a) /\ ~Ranked(b)
                       \/ ~Ranked(a) /\ ~Ranked(b) /\ Alphabet[a] < Alphabet[b]
  <2> SUFFICES ASSUME NEW a \in HeaderKeys, NEW b \in HeaderKeys
               PROVE  Less(a, b) <=> \/ Ranked(a) /\ Ranked(b) /\ Rank(a) < Rank(b)
                                     \/ Ranked(a) /\ ~Ranked(b)
                                     \/ ~Ranked(a) /\ ~Ranked(b) /\ Alphabet[a] < Alphabet[b]
    OBVIOUS
  <2>1. CASE Ranked(a) /\ Ranked(b)  BY <2>1 DEF Less
  <2>2. CASE Ranked(a) /\ ~Ranked(b)  BY <2>2 DEF Less
  <2>3. CASE ~Ranked(a) /\ Ranked(b)  BY <2>3 DEF Less
  <2>4. CASE ~Ranked(a) /\ ~Ranked(b)  BY <2>4 DEF Less
  <2> QED BY <2>1, <2>2, <2>3, <2>4
<1>6. ASSUME NEW a \in HeaderKeys
      PROVE  ~Less(a, a)
  BY <1>1, <1>3, <1>5
<1>7. ASSUME NEW a \in HeaderKeys, NEW b \in HeaderKeys, a # b
      PROVE  Less(a, b) \/ Less(b, a)
  BY <1>1, <1>2, <1>3, <1>4, <1>5, <1>7 DEF Ranked
<1>8. ASSUME NEW a \in HeaderKeys, NEW b \in HeaderKeys, NEW c \in HeaderKeys,
             Less(a, b), Less(b, c)
      PROVE  Less(a, c)
  BY <1>1, <1>3, <1>5, <1>8 DEF Ranked
<1> QED BY <1>6, <1>7, <1>8

-----------------------------------------------------------------------------
(* The header fields.                                                      *)

\* What a header is: finitely many keys, a sequence of values for each.
Header(h) ==
    /\ IsFiniteSet(DOMAIN h) /\ DOMAIN h \subseteq HeaderKeys
    /\ \A k \in DOMAIN h : h[k] \in Seq({"client", "profile", "proxy"})

LEMMA PlacesAre ==
  ASSUME NEW h, Header(h)
  PROVE  /\ IsFiniteSet(Places(h))
         /\ \A k, j : <<k, j>> \in Places(h) <=> k \in DOMAIN h /\ j \in DOMAIN h[k]
         /\ \A x \in Places(h) : /\ x = <<x[1], x[2]>> /\ x[1] \in DOMAIN h
                                 /\ x[2] \in DOMAIN h[x[1]] /\ x[2] \in Int
<1> DEFINE f == [k \in DOMAIN h |-> {k} \X DOMAIN h[k]]
           F == {{k} \X DOMAIN h[k] : k \in DOMAIN h}
<1>1. f \in Surjection(DOMAIN h, F)  BY DEF Surjection
<1>2. IsFiniteSet(F)  BY <1>1, FS_Surjection DEF Header
<1>3. ASSUME NEW k \in DOMAIN h
      PROVE  IsFiniteSet({k} \X DOMAIN h[k]) /\ DOMAIN h[k] \subseteq Int
  <2>1. Len(h[k]) \in Nat /\ DOMAIN h[k] = 1..Len(h[k])  BY DEF Header
  <2>2. IsFiniteSet(DOMAIN h[k])  BY <2>1, FS_Interval
  <2>3. IsFiniteSet({k})  BY FS_Singleton
  <2> QED BY <2>1, <2>2, <2>3, FS_Product
<1>4. IsFiniteSet(UNION F)  BY <1>2, <1>3, FS_UNION
<1>5. Places(h) = UNION F  BY DEF Places
<1>6. \A k, j : <<k, j>> \in Places(h) <=> k \in DOMAIN h /\ j \in DOMAIN h[k]
  BY DEF Places
<1>7. \A x \in Places(h) : /\ x = <<x[1], x[2]>> /\ x[1] \in DOMAIN h
                           /\ x[2] \in DOMAIN h[x[1]]
  BY DEF Places
<1> QED BY <1>3, <1>4, <1>5, <1>6, <1>7

LEMMA PlacesOrdered ==
  ASSUME selected.order \in Seq(DOMAIN Lower), NEW h, Header(h)
  PROVE  /\ Orders(OrderHeaders(h), Places(h))
         /\ \A x, y \in Places(h) : <<x, y>> \in OrderHeaders(h)
                <=> Less(x[1], y[1]) \/ (x[1] = y[1] /\ x[2] < y[2])
<1>1. \A x, y \in Places(h) : <<x, y>> \in OrderHeaders(h)
                <=> Less(x[1], y[1]) \/ (x[1] = y[1] /\ x[2] < y[2])
  BY DEF OrderHeaders
<1>2. \A x \in Places(h) : x = <<x[1], x[2]>> /\ x[1] \in HeaderKeys /\ x[2] \in Int
  BY PlacesAre DEF Header
<1>3. \A a, b, c \in HeaderKeys :
           /\ ~Less(a, a)
           /\ a # b => Less(a, b) \/ Less(b, a)
           /\ Less(a, b) /\ Less(b, c) => Less(a, c)
  BY LessOrders
<1>4. ASSUME NEW x \in Places(h)
      PROVE  ~(<<x, x>> \in OrderHeaders(h))
  BY <1>1, <1>2, <1>3
<1>5. ASSUME NEW x \in Places(h), NEW y \in Places(h), x # y
      PROVE  <<x, y>> \in OrderHeaders(h) \/ <<y, x>> \in OrderHeaders(h)
  <2>1. CASE x[1] # y[1]  BY <2>1, <1>1, <1>2, <1>3
  <2>2. CASE x[1] = y[1]
    <3>1. x[2] # y[2]  BY <2>2, <1>5, <1>2
    <3> QED BY <3>1, <2>2, <1>1, <1>2
  <2> QED BY <2>1, <2>2
<1>6. ASSUME NEW x \in Places(h), NEW y \in Places(h), NEW z \in Places(h),
             <<x, y>> \in OrderHeaders(h), <<y, z>> \in OrderHeaders(h)
      PROVE  <<x, z>> \in OrderHeaders(h)
  <2>1. /\ Less(x[1], y[1]) \/ (x[1] = y[1] /\ x[2] < y[2])
        /\ Less(y[1], z[1]) \/ (y[1] = z[1] /\ y[2] < z[2])
    BY <1>1, <1>6
  <2>2. Less(x[1], z[1]) \/ (x[1] = z[1] /\ x[2] < z[2])
    <3>1. CASE Less(x[1], y[1]) /\ Less(y[1], z[1])  BY <3>1, <1>2, <1>3
    <3>2. CASE x[1] = y[1] \/ y[1] = z[1]  BY <3>2, <2>1, <1>2
    <3> QED BY <2>1, <3>1, <3>2
  <2> QED BY <2>2, <1>1
<1> QED BY <1>1, <1>4, <1>5, <1>6 DEF Orders

\* Where the fields come from, and how many they are.
Sorted(h) == Arranged(Places(h), OrderHeaders(h))
Count(h) == Cardinality(Places(h))

\* The fields are all values of all keys, each once, in order.
LEMMA FieldsAre ==
  ASSUME selected.order \in Seq(DOMAIN Lower), NEW h, Header(h)
  PROVE  /\ Count(h) \in Nat /\ DOMAIN Fields(h) = 1..Count(h)
         /\ \A i \in 1..Count(h) : /\ Sorted(h)[i] \in Places(h)
                                   /\ Fields(h)[i].key = Sorted(h)[i][1]
                                   /\ Fields(h)[i].value = h[Sorted(h)[i][1]][Sorted(h)[i][2]]
         /\ \A i, j \in 1..Count(h) :
               i < j <=> \/ Less(Sorted(h)[i][1], Sorted(h)[j][1])
                         \/ /\ Sorted(h)[i][1] = Sorted(h)[j][1]
                            /\ Sorted(h)[i][2] < Sorted(h)[j][2]
         /\ \A x \in Places(h) : \E i \in 1..Count(h) : Sorted(h)[i] = x
<1> DEFINE S == Places(h)
           R == OrderHeaders(h)
           n == Count(h)
           at == Sorted(h)
<1>1. IsFiniteSet(S) /\ Orders(R, S)  BY PlacesAre, PlacesOrdered
<1>2. n = Cardinality(S) /\ at = Arranged(S, R)  BY DEF Count, Sorted
<1> HIDE DEF S, R
<1>3. /\ n \in Nat /\ at \in [1..n -> S]
      /\ \A i, j \in 1..n : i < j <=> <<at[i], at[j]>> \in R
      /\ \A x \in S : \E i \in 1..n : at[i] = x
  BY <1>1, <1>2, ArrangedIs
<1>4. \A x, y \in S : <<x, y>> \in R <=> Less(x[1], y[1]) \/ (x[1] = y[1] /\ x[2] < y[2])
  BY PlacesOrdered DEF S, R
<1>5. Fields(h) = [i \in 1..n |-> [key |-> at[i][1], value |-> h[at[i][1]][at[i][2]]]]
  BY <1>2, <1>3 DEF Fields, S, R
<1> HIDE DEF n, at
<1>6. \A i, j \in 1..n : i < j <=> \/ Less(at[i][1], at[j][1])
                                   \/ at[i][1] = at[j][1] /\ at[i][2] < at[j][2]
  <2> TAKE i, j \in 1..n
  <2>1. at[i] \in S /\ at[j] \in S  BY <1>3
  <2>2. i < j <=> <<at[i], at[j]>> \in R  BY <1>3
  <2> QED BY <2>1, <2>2, <1>4
<1>7. /\ DOMAIN Fields(h) = 1..n
      /\ \A i \in 1..n : /\ at[i] \in S /\ Fields(h)[i].key = at[i][1]
                         /\ Fields(h)[i].value = h[at[i][1]][at[i][2]]
  BY <1>3, <1>5
<1> QED BY <1>3, <1>6, <1>7 DEF S, n, at

-----------------------------------------------------------------------------
(* Loading and merging.                                                    *)

Inputs == /\ input.builtin \in Files /\ input.user \in UserDirs
          /\ input.request \in Requests

\* What decoding may make of file f.
Entries(f) == {[f EXCEPT !.settings = s] : s \in UnmarshalSettings(f.settings)}

\* No two of the first n files claim a name, t has exactly their names, and
\* under each the profile of its file.
Apart(files, n) ==
    \A i, j \in 1..n : \A k : k \in Keys(files[i]) /\ k \in Keys(files[j]) => i = j
Claimed(files, n) == UNION {Keys(files[i]) : i \in 1..n}
Stands(t, files, n) ==
    /\ Apart(files, n) /\ DOMAIN t = Claimed(files, n)
    /\ \A i \in 1..n : \A k \in Keys(files[i]) : t[k] \in Entries(files[i])

Loading == IF phase = "builtin" THEN input.builtin ELSE input.user

LoadOK ==
    phase \in {"builtin", "user"} =>
        /\ todo \in Seq(AllFiles)
        /\ \E n \in Nat :
              /\ Len(Loading) = n + Len(todo) /\ Stands(out, Loading, n)
              /\ \A i \in 1..Len(todo) : todo[i] = Loading[n + i]

TableOK ==
    /\ phase = "builtin" => DOMAIN table = {}
    /\ phase = "user" => Stands(table, input.builtin, Len(input.builtin))
    /\ phase \in {"select", "connect", "request", "sent"} =>
          /\ Apart(input.builtin, Len(input.builtin)) /\ Apart(input.user, Len(input.user))
          /\ DOMAIN table = Claimed(input.builtin, Len(input.builtin))
                            \cup Claimed(input.user, Len(input.user))
          /\ \A i \in DOMAIN input.user : \A k \in Keys(input.user[i]) :
                table[k] \in Entries(input.user[i])
          /\ \A i \in DOMAIN input.builtin : \A k \in Keys(input.builtin[i]) :
                \/ k \in Claimed(input.user, Len(input.user))
                \/ table[k] \in Entries(input.builtin[i])

FileInv == Inputs /\ LoadOK /\ TableOK /\ SelectedOK

LEMMA DirectoriesAre ==
  ASSUME Inputs
  PROVE  /\ input.builtin \in Seq(AllFiles) /\ input.user \in Seq(AllFiles)
         /\ Len(input.builtin) \in Nat /\ DOMAIN input.builtin = 1..Len(input.builtin)
         /\ Len(input.user) \in Nat /\ DOMAIN input.user = 1..Len(input.user)
BY FileAssumption DEF Inputs

LEMMA FileInit == Init => FileInv
<1> SUFFICES ASSUME Init PROVE FileInv  OBVIOUS
<1>1. Inputs  BY DEF Init, Inputs
<1>2. LoadOK
  <2>1. todo = input.builtin /\ Loading = input.builtin /\ todo \in Seq(AllFiles)
    BY <1>1, DirectoriesAre DEF Init, Loading
  <2>2. Stands(out, Loading, 0)
    <3>1. DOMAIN out = {}  BY DEF Init
    <3>2. Claimed(Loading, 0) = {}  BY DEF Claimed
    <3> QED BY <3>1, <3>2 DEF Stands, Apart
  <2>3. Len(todo) \in Nat /\ \A i \in 1..Len(todo) : todo[i] = Loading[0 + i]
    BY <2>1
  <2> QED BY <2>1, <2>2, <2>3 DEF LoadOK
<1>3. TableOK /\ SelectedOK  BY DEF Init, TableOK, SelectedOK
<1> QED BY <1>1, <1>2, <1>3 DEF FileInv

LEMMA OverIs ==
  ASSUME NEW f, NEW g
  PROVE  /\ DOMAIN Over(f, g) = DOMAIN f \cup DOMAIN g
         /\ \A k \in DOMAIN f : Over(f, g)[k] = f[k]
         /\ \A k \in DOMAIN g : k \notin DOMAIN f => Over(f, g)[k] = g[k]
BY DEF Over

\* The next file takes names that none before it has.
LEMMA OneMoreStands ==
  ASSUME NEW t, NEW files, NEW n \in Nat, Stands(t, files, n),
         NEW e \in Entries(files[n + 1]), Keys(files[n + 1]) \cap DOMAIN t = {}
  PROVE  Stands(Over([k \in Keys(files[n + 1]) |-> e], t), files, n + 1)
<1> DEFINE new == [k \in Keys(files[n + 1]) |-> e]
           u == Over(new, t)
<1>1. /\ DOMAIN new = Keys(files[n + 1]) /\ \A k \in Keys(files[n + 1]) : new[k] = e
  OBVIOUS
<1> HIDE DEF new
<1>2. /\ DOMAIN u = Keys(files[n + 1]) \cup DOMAIN t
      /\ \A k \in Keys(files[n + 1]) : u[k] = e
      /\ \A k \in DOMAIN t : u[k] = t[k]
  <2>1. \A k \in DOMAIN t : k \notin DOMAIN new  BY <1>1
  <2>2. /\ DOMAIN u = DOMAIN new \cup DOMAIN t
        /\ \A k \in DOMAIN new : u[k] = new[k]
        /\ \A k \in DOMAIN t : k \notin DOMAIN new => u[k] = t[k]
    BY OverIs, Zenon
  <2> QED BY <1>1, <2>1, <2>2
<1> HIDE DEF u
<1>3. \A i \in 1..(n + 1) : i \in 1..n \/ i = n + 1  OBVIOUS
<1>4. 1..n \subseteq 1..(n + 1) /\ n + 1 \in 1..(n + 1)  OBVIOUS
<1>5. DOMAIN t = Claimed(files, n)  BY DEF Stands
<1>6. \A i \in 1..n : Keys(files[i]) \subseteq DOMAIN t  BY <1>5 DEF Claimed
<1>7. Apart(files, n + 1)
  <2> SUFFICES ASSUME NEW i \in 1..(n + 1), NEW j \in 1..(n + 1), NEW k,
                      k \in Keys(files[i]), k \in Keys(files[j])
               PROVE  i = j
    BY Zenon DEF Apart
  <2>1. CASE i \in 1..n /\ j \in 1..n  BY <2>1 DEF Stands, Apart
  <2>2. CASE i = n + 1 /\ j \in 1..n  BY <2>2, <1>6
  <2>3. CASE i \in 1..n /\ j = n + 1  BY <2>3, <1>6
  <2>4. CASE i = n + 1 /\ j = n + 1  BY <2>4
  <2> QED BY <2>1, <2>2, <2>3, <2>4, <1>3
<1>8. Claimed(files, n + 1) = Keys(files[n + 1]) \cup Claimed(files, n)
  BY <1>3, <1>4 DEF Claimed
<1>9. \A i \in 1..(n + 1) : \A k \in Keys(files[i]) : u[k] \in Entries(files[i])
  <2> SUFFICES ASSUME NEW i \in 1..(n + 1), NEW k \in Keys(files[i])
               PROVE  u[k] \in Entries(files[i])
    OBVIOUS
  <2>1. CASE i \in 1..n  BY <2>1, <1>2, <1>6 DEF Stands
  <2>2. CASE i = n + 1  BY <2>2, <1>2
  <2> QED BY <2>1, <2>2, <1>3
<1> QED BY <1>2, <1>5, <1>7, <1>8, <1>9 DEF Stands, u, new

LEMMA LoadFileInd == Inputs /\ LoadOK /\ TableOK /\ LoadFile => FileInv'
<1> SUFFICES ASSUME Inputs, LoadOK, TableOK, LoadFile PROVE FileInv'  OBVIOUS
<1>1. Inputs' /\ input' = input  BY DEF LoadFile, Inputs
<1>2. CASE Error
  BY <1>1, <1>2 DEF FileInv, Error, LoadOK, TableOK, SelectedOK
<1>3. CASE ~Error
  <2> DEFINE p == Head(todo)
  <2>1. PICK s \in UnmarshalSettings(p.settings) :
          out' = Over([k \in Keys(p) |-> [p EXCEPT !.settings = s]], out)
    BY <1>3 DEF LoadFile
  <2>2. /\ phase \in {"builtin", "user"} /\ todo # <<>> /\ Unclaimed(p) /\ todo' = Tail(todo)
        /\ UNCHANGED <<phase, table>>
    BY <1>3 DEF LoadFile
  <2>3. PICK n \in Nat :
          /\ Len(Loading) = n + Len(todo) /\ Stands(out, Loading, n)
          /\ \A i \in 1..Len(todo) : todo[i] = Loading[n + i]
    BY <2>2 DEF LoadOK
  <2>4. todo \in Seq(AllFiles)  BY <2>2 DEF LoadOK
  <2>5. /\ todo' \in Seq(AllFiles) /\ Len(todo) \in Nat \ {0} /\ Len(todo') = Len(todo) - 1
        /\ \A i \in 1..Len(todo') : todo'[i] = todo[i + 1]
        /\ p = todo[1]
    BY <2>2, <2>4
  <2>6. p = Loading[n + 1]  BY <2>3, <2>5
  <2>7. Stands(out', Loading, n + 1)
    <3>1. [p EXCEPT !.settings = s] \in Entries(Loading[n + 1])  BY <2>6 DEF Entries
    <3>2. Keys(Loading[n + 1]) \cap DOMAIN out = {}  BY <2>2, <2>6 DEF Unclaimed
    <3> QED BY <2>1, <2>3, <2>6, <3>1, <3>2, OneMoreStands
  <2>8. Len(Loading) = (n + 1) + Len(todo')  BY <2>3, <2>5
  <2>9. \A i \in 1..Len(todo') : todo'[i] = Loading[(n + 1) + i]
    <3> TAKE i \in 1..Len(todo')
    <3>1. i + 1 \in 1..Len(todo) /\ n + (i + 1) = (n + 1) + i  BY <2>5
    <3> QED BY <2>3, <2>5, <3>1
  <2>10. Loading' = Loading  BY <1>1, <2>2 DEF Loading
  <2>11. LoadOK'
    <3> QED BY <2>5, <2>7, <2>8, <2>9, <2>10 DEF LoadOK
  <2>12. TableOK'  BY <1>1, <2>2 DEF TableOK
  <2>13. SelectedOK'  BY <2>2 DEF SelectedOK
  <2> QED BY <1>1, <2>11, <2>12, <2>13 DEF FileInv
<1> QED BY <1>2, <1>3

LEMMA StandsForNone ==
  ASSUME NEW t, DOMAIN t = {}, NEW files
  PROVE  Stands(t, files, 0)
<1>1. Claimed(files, 0) = {}  BY DEF Claimed
<1> QED BY <1>1 DEF Stands, Apart

LEMMA LoadedInd == Inputs /\ LoadOK /\ TableOK /\ Loaded => FileInv'
<1> SUFFICES ASSUME Inputs, LoadOK, TableOK, Loaded PROVE FileInv'  OBVIOUS
<1>1. Inputs' /\ input' = input  BY DEF Loaded, Inputs
<1>2. /\ table' = Over(out, table) /\ DOMAIN out' = {} /\ phase \in {"builtin", "user"}
      /\ todo = <<>>
  BY DEF Loaded, Overlay
<1>3. Stands(out, Loading, Len(Loading))
  <2>1. PICK n \in Nat : Len(Loading) = n + Len(todo) /\ Stands(out, Loading, n)
    BY <1>2 DEF LoadOK
  <2>2. Len(Loading) = n  BY <1>2, <2>1
  <2> QED BY <2>1, <2>2
<1>4. /\ DOMAIN table' = DOMAIN out \cup DOMAIN table
      /\ \A k \in DOMAIN out : table'[k] = out[k]
      /\ \A k \in DOMAIN table : k \notin DOMAIN out => table'[k] = table[k]
  <2>1. /\ DOMAIN Over(out, table) = DOMAIN out \cup DOMAIN table
        /\ \A k \in DOMAIN out : Over(out, table)[k] = out[k]
        /\ \A k \in DOMAIN table : k \notin DOMAIN out => Over(out, table)[k] = table[k]
    BY OverIs
  <2> QED BY <1>2, <2>1
<1>5. CASE phase = "builtin"
  <2>1. phase' = "user" /\ todo' = input.user  BY <1>5 DEF Loaded
  <2>2. Loading = input.builtin /\ Loading' = input.user  BY <1>1, <1>5, <2>1 DEF Loading
  <2>3. DOMAIN table = {}  BY <1>5 DEF TableOK
  <2>4. Stands(table', input.builtin, Len(input.builtin))
    <3>1. \A i \in 1..Len(input.builtin) : Keys(input.builtin[i]) \subseteq DOMAIN out
      BY <1>3, <2>2 DEF Stands, Claimed
    <3> QED BY <1>3, <1>4, <2>2, <2>3, <3>1 DEF Stands
  <2>5. TableOK'  BY <1>1, <2>1, <2>4 DEF TableOK
  <2>6. LoadOK'
    <3>1. Stands(out', Loading', 0)  BY <1>2, StandsForNone
    <3>2. todo' \in Seq(AllFiles) /\ Len(todo') \in Nat  BY <2>1, DirectoriesAre
    <3>3. Len(Loading') = 0 + Len(todo') /\ \A i \in 1..Len(todo') : todo'[i] = Loading'[0 + i]
      BY <2>1, <2>2, <3>2
    <3> QED BY <3>1, <3>2, <3>3 DEF LoadOK
  <2>7. SelectedOK'  BY <2>1 DEF SelectedOK
  <2> QED BY <1>1, <2>5, <2>6, <2>7 DEF FileInv
<1>6. CASE phase = "user"
  <2>1. phase' = "select"  BY <1>6 DEF Loaded
  <2>2. Loading = input.user  BY <1>6 DEF Loading
  <2>3. Stands(table, input.builtin, Len(input.builtin))  BY <1>6 DEF TableOK
  <2>4. DOMAIN out = Claimed(input.user, Len(input.user))  BY <1>3, <2>2 DEF Stands
  <2>5. /\ DOMAIN input.user = 1..Len(input.user)
        /\ DOMAIN input.builtin = 1..Len(input.builtin)
    BY DirectoriesAre
  <2>6. \A i \in DOMAIN input.user : \A k \in Keys(input.user[i]) :
          table'[k] \in Entries(input.user[i])
    <3>1. \A i \in DOMAIN input.user : Keys(input.user[i]) \subseteq DOMAIN out
      BY <2>4, <2>5 DEF Claimed
    <3> QED BY <1>3, <1>4, <2>2, <2>5, <3>1 DEF Stands
  <2>7. \A i \in DOMAIN input.builtin : \A k \in Keys(input.builtin[i]) :
          \/ k \in Claimed(input.user, Len(input.user))
          \/ table'[k] \in Entries(input.builtin[i])
    <3>1. \A i \in DOMAIN input.builtin : Keys(input.builtin[i]) \subseteq DOMAIN table
      BY <2>3, <2>5 DEF Stands, Claimed
    <3> QED BY <1>4, <2>3, <2>4, <2>5, <3>1 DEF Stands
  <2>8. /\ Apart(input.builtin, Len(input.builtin)) /\ Apart(input.user, Len(input.user))
        /\ DOMAIN table' = Claimed(input.builtin, Len(input.builtin))
                           \cup Claimed(input.user, Len(input.user))
    BY <1>3, <1>4, <2>2, <2>3 DEF Stands
  <2>9. TableOK'  BY <1>1, <2>1, <2>6, <2>7, <2>8 DEF TableOK
  <2> QED BY <1>1, <2>1, <2>9 DEF FileInv, LoadOK, SelectedOK
<1> QED BY <1>2, <1>5, <1>6

LEMMA EntryIs ==
  ASSUME NEW f \in AllFiles, NEW e \in Entries(f)
  PROVE  /\ e.id = f.id /\ e.order = f.order /\ e.pseudo = f.pseudo /\ e.set = f.set
         /\ e.settings \in UnmarshalSettings(f.settings)
         /\ DOMAIN e = DOMAIN f
<1>1. DOMAIN f = {"id", "name", "aliases", "complete", "hello", "set", "order",
                  "pseudo", "settings"}
  BY FileAssumption
<1> QED BY <1>1 DEF Entries

\* Whatever stands in the table was decoded from a file.
LEMMA TableHasFiles ==
  ASSUME Inputs, TableOK, phase \in {"select", "connect", "request", "sent"},
         NEW k \in DOMAIN table
  PROVE  \E f \in AllFiles : table[k] \in Entries(f)
<1>1. /\ \A i \in 1..Len(input.user) : input.user[i] \in AllFiles
      /\ \A i \in 1..Len(input.builtin) : input.builtin[i] \in AllFiles
      /\ DOMAIN input.user = 1..Len(input.user)
      /\ DOMAIN input.builtin = 1..Len(input.builtin)
  BY DirectoriesAre
<1>2. CASE k \in Claimed(input.user, Len(input.user))
  BY <1>1, <1>2 DEF Claimed, TableOK
<1>3. CASE k \notin Claimed(input.user, Len(input.user))
  <2>1. k \in Claimed(input.builtin, Len(input.builtin))  BY <1>3 DEF TableOK
  <2> QED BY <1>1, <1>3, <2>1 DEF Claimed, TableOK
<1> QED BY <1>2, <1>3

LEMMA SelectInd == FileInv /\ Select => FileInv'
<1> SUFFICES ASSUME FileInv, Select PROVE FileInv'  OBVIOUS
<1>1. Inputs' /\ input' = input /\ phase = "select"  BY DEF FileInv, Select, Inputs
<1>2. CASE Error
  BY <1>1, <1>2 DEF FileInv, Error, LoadOK, TableOK, SelectedOK
<1>3. CASE ~Error
  <2>1. /\ input.asked \in DOMAIN table /\ phase' = "connect" /\ UNCHANGED table
        /\ selected' = IF input.tls = None THEN table[input.asked]
                       ELSE [table[input.asked] EXCEPT !.hello = input.tls]
    BY <1>3 DEF Select
  <2>2. PICK f \in AllFiles : table[input.asked] \in Entries(f)
    BY <1>1, <2>1, TableHasFiles DEF FileInv
  <2>3. DOMAIN f = {"id", "name", "aliases", "complete", "hello", "set", "order",
                    "pseudo", "settings"}
    BY FileAssumption
  <2> DEFINE e == table[input.asked]
  <2>4. /\ e.id = f.id /\ e.order = f.order /\ e.pseudo = f.pseudo /\ e.set = f.set
        /\ e.settings \in UnmarshalSettings(f.settings) /\ DOMAIN e = DOMAIN f
    BY <2>2, EntryIs
  <2> HIDE DEF e
  <2>5. /\ selected'.id = e.id /\ selected'.order = e.order /\ selected'.pseudo = e.pseudo
        /\ selected'.set = e.set /\ selected'.settings = e.settings
    BY <2>1, <2>3, <2>4 DEF e
  <2>6. Chosen(f)'  BY <2>4, <2>5 DEF Chosen
  <2>7. SelectedOK'  BY <2>6 DEF SelectedOK
  <2>8. TableOK'  BY <1>1, <2>1 DEF FileInv, TableOK
  <2> QED BY <1>1, <2>1, <2>7, <2>8 DEF FileInv, LoadOK
<1> QED BY <1>2, <1>3

LEMMA FileInductive == Spec => []FileInv
<1>1. FileInv /\ [Next]_vars => FileInv'
  <2> SUFFICES ASSUME FileInv, [Next]_vars PROVE FileInv'  OBVIOUS
  <2>1. CASE LoadFile  BY <2>1, LoadFileInd DEF FileInv
  <2>2. CASE Loaded  BY <2>2, LoadedInd DEF FileInv
  <2>3. CASE Select  BY <2>3, SelectInd
  <2>4. CASE Connect
    BY <2>4 DEF FileInv, Connect, Error, Inputs, LoadOK, TableOK, SelectedOK, Chosen
  <2>5. CASE WriteRequest
    BY <2>5 DEF FileInv, WriteRequest, Inputs, LoadOK, TableOK, SelectedOK, Chosen
  <2>6. CASE UNCHANGED vars
    BY <2>6 DEF vars, FileInv, Inputs, LoadOK, TableOK, SelectedOK, Chosen, Loading
  <2> QED BY <2>1, <2>2, <2>3, <2>4, <2>5, <2>6 DEF Next, Done
<1> QED BY <1>1, FileInit, PTL DEF Spec

LEMMA OneClaimant ==
  ASSUME NEW files, Len(files) \in Nat, DOMAIN files = 1..Len(files), Apart(files, Len(files)),
         NEW k, k \in Claimed(files, Len(files))
  PROVE  \E i \in DOMAIN files : Claimants(files, k) = {i} /\ k \in Keys(files[i])
<1>1. PICK i \in 1..Len(files) : k \in Keys(files[i])  BY DEF Claimed
<1>2. \A j \in 1..Len(files) : k \in Keys(files[j]) => j = i  BY <1>1 DEF Apart
<1>3. Claimants(files, k) = {i}  BY <1>1, <1>2 DEF Claimants
<1> QED BY <1>1, <1>3

(* A name means the profile of one file of the user's directory, or else   *)
(* of one built-in file, and every name of every file means something,     *)
(* whatever the files are (profile.go, lines 221-230; main.go, lines       *)
(* 428-450).                                                               *)
THEOREM OverlayIsRight == Spec => []TableIsOverlay
<1>1. FileInv => TableIsOverlay
  <2> SUFFICES ASSUME FileInv, phase \in {"select", "connect", "request", "sent"}
               PROVE  TableIsOverlay
    BY DEF TableIsOverlay
  <2> DEFINE b == input.builtin
             u == input.user
  <2>1. /\ \A i \in 1..Len(u) : u[i] \in AllFiles
        /\ \A i \in 1..Len(b) : b[i] \in AllFiles
        /\ Len(u) \in Nat /\ DOMAIN u = 1..Len(u)
        /\ Len(b) \in Nat /\ DOMAIN b = 1..Len(b)
    BY DirectoriesAre DEF FileInv
  <2>2. /\ Apart(b, Len(b)) /\ Apart(u, Len(u))
        /\ DOMAIN table = Claimed(b, Len(b)) \cup Claimed(u, Len(u))
        /\ \A i \in DOMAIN u : \A k \in Keys(u[i]) : table[k] \in Entries(u[i])
        /\ \A i \in DOMAIN b : \A k \in Keys(b[i]) :
              k \in Claimed(u, Len(u)) \/ table[k] \in Entries(b[i])
    BY DEF FileInv, TableOK
  <2> HIDE DEF b, u
  <2>3. DOMAIN table = UNION {Keys(p) : p \in ToSet(b) \cup ToSet(u)}
    BY <2>1, <2>2 DEF Claimed, ToSet
  <2>4. ASSUME NEW k \in DOMAIN table
        PROVE  LET files == IF Claimants(u, k) # {} THEN u ELSE b
               IN  /\ Cardinality(Claimants(files, k)) = 1
                   /\ \A i \in Claimants(files, k) : table[k].id = files[i].id
    <3>1. CASE k \in Claimed(u, Len(u))
      <4>1. PICK i \in DOMAIN u : Claimants(u, k) = {i} /\ k \in Keys(u[i])
        BY <2>1, <2>2, <3>1, OneClaimant
      <4>2. table[k].id = u[i].id  BY <2>1, <2>2, <4>1, EntryIs
      <4> QED BY <4>1, <4>2, FS_Singleton
    <3>2. CASE k \notin Claimed(u, Len(u))
      <4>1. PICK i \in DOMAIN b : Claimants(b, k) = {i} /\ k \in Keys(b[i])
        BY <2>1, <2>2, <3>2, OneClaimant
      <4>2. table[k].id = b[i].id  BY <2>1, <2>2, <3>2, <4>1, EntryIs
      <4>3. Claimants(u, k) = {}  BY <2>1, <3>2 DEF Claimants, Claimed
      <4> QED BY <4>1, <4>2, <4>3, FS_Singleton
    <3> QED BY <3>1, <3>2
  <2> QED BY <2>3, <2>4 DEF TableIsOverlay, b, u
<1> QED BY <1>1, FileInductive, PTL

-----------------------------------------------------------------------------
(* SETTINGS.                                                               *)

LEMMA KnownAre ==
  /\ DOMAIN KnownSettings = 1..6
  /\ \A i, j \in 1..6 : KnownSettings[i] = KnownSettings[j] => i = j
  /\ \A i \in 1..6 : Upper[KnownSettings[i]] = KnownSettings[i]
<1>1. DOMAIN KnownSettings = 1..6  BY DEF KnownSettings
<1>2. \A i, j \in 1..6 : KnownSettings[i] = KnownSettings[j] => i = j  BY DEF KnownSettings
<1> QED BY <1>1, <1>2, SpellingAssumption

LEMMA FirstOrSecond ==
  ASSUME NEW n \in Nat, NEW m \in Nat, NEW i \in 1..(n + m)
  PROVE  i \in 1..n \/ \E j \in 1..m : i = n + j
<1>1. CASE i <= n  BY <1>1
<1>2. CASE i > n
  <2>1. i - n \in 1..m /\ i = n + (i - n)  BY <1>2
  <2> QED BY <2>1
<1> QED BY <1>1, <1>2

\* The older form: every name, the known ones first and in the protocol's order.
LEMMA ObjectDecoded ==
  ASSUME NEW S, S.form = "object", IsFiniteSet(S.names), NEW s \in UnmarshalSettings(S)
  PROVE  /\ DOMAIN s = 1..Cardinality(S.names)
         /\ S.names = {} => s = <<>>
         /\ S.names = {s[y] : y \in DOMAIN s}
         /\ LET exact == {i \in DOMAIN KnownSettings : KnownSettings[i] \in S.names}
            IN  \A i \in exact : LET y == Cardinality({j \in exact : j < i}) + 1
                               IN  y \in DOMAIN s /\ s[y] = KnownSettings[i]
<1> DEFINE I == {i \in DOMAIN KnownSettings : KnownSettings[i] \in S.names}
           D == S.names \ ToSet(KnownSettings)
           n == Cardinality(I)
           m == Cardinality(D)
           known == Keep(KnownSettings, I)
<1>1. PICK rest \in SetToSeqs(D) : s = known \o rest  BY DEF UnmarshalSettings
<1>2. I \in SUBSET (1..6) /\ IsFiniteSet(I)
  <2>1. IsFiniteSet(1..6)
    <3>1. 1 \in Int /\ 6 \in Int  OBVIOUS
    <3> QED BY <3>1, FS_Interval, Zenon
  <2>2. I \in SUBSET (1..6)  BY KnownAre
  <2> QED BY <2>1, <2>2, FS_Subset
<1>3. D \in SUBSET S.names  OBVIOUS
<1>4. IsFiniteSet(D)  BY <1>3, FS_Subset
<1>5. m \in Nat  BY <1>4, FS_CardinalityType
<1>6. rest \in [1..m -> D] /\ \A x \in D : \E i \in 1..m : rest[i] = x
  <2>1. rest \in Injection(1..m, D)  BY <1>1 DEF SetToSeqs, Injection, IsInjective
  <2>2. Cardinality(1..m) = m  BY <1>5, FS_Interval
  <2>3. rest \in Surjection(1..m, D)  BY <1>4, <2>1, <2>2, FS_Injection
  <2> QED BY <2>3 DEF Surjection
<1>7. I \in SUBSET Int /\ \A i \in I : KnownSettings[i] \in S.names  BY <1>2
<1>8. n \in Nat /\ known \in [1..n -> S.names]
  <2> HIDE DEF I
  <2> QED BY <1>2, <1>7, KeepIs
<1> DEFINE at == Ascending(I)
<1>9. /\ at \in [1..n -> I]
      /\ \A i \in 1..n : known[i] = KnownSettings[at[i]]
      /\ \A i, j \in 1..n : i < j <=> at[i] < at[j]
      /\ \A x \in I : \E i \in 1..n : at[i] = x
      /\ \A i \in 1..n : Cardinality({j \in I : j < at[i]}) = i - 1
  <2> HIDE DEF I
  <2> QED BY <1>2, <1>7, AscendingIs, KeepIs
<1>18. n + m = Cardinality(S.names)
  <2> DEFINE K == S.names \cap ToSet(KnownSettings)
             map == [i \in I |-> KnownSettings[i]]
  <2>1. \A i \in I : i \in 1..6 /\ i \in DOMAIN KnownSettings /\ KnownSettings[i] \in S.names
    BY <1>2
  <2>2. map \in Bijection(I, K)
    <3>1. map \in [I -> K]  BY <2>1 DEF ToSet
    <3>2. \A i, j \in I : map[i] = map[j] => i = j
      <4> HIDE DEF I
      <4> QED BY <2>1, KnownAre
    <3>3. \A x \in K : \E i \in I : map[i] = x  BY DEF ToSet
    <3> HIDE DEF map, K, I
    <3> QED BY <3>1, <3>2, <3>3 DEF Bijection, Injection, Surjection, IsInjective
  <2>3. IsFiniteSet(K) /\ Cardinality(K) = n
    <3>1. ExistsBijection(I, K)  BY <2>2 DEF ExistsBijection
    <3> HIDE DEF K, I
    <3> QED BY <1>2, <3>1, FS_Bijection DEF n
  <2>4. K \cup D = S.names /\ K \cap D = {}  OBVIOUS
  <2> HIDE DEF K, D
  <2>5. Cardinality(K \cup D) = Cardinality(K) + Cardinality(D) - Cardinality(K \cap D)
    BY <1>4, <2>3, FS_Union
  <2>6. Cardinality(K \cap D) = 0  BY <2>4, FS_EmptySet
  <2>7. Cardinality(S.names) = Cardinality(K) + Cardinality(D) - 0
    BY <2>4, <2>5, <2>6, Zenon
  <2>8. Cardinality(D) = m /\ Cardinality(K) = n  BY <2>3
  <2> HIDE DEF m, n
  <2> QED BY <1>5, <1>8, <2>7, <2>8
<1>10. rest \in [1..m -> S.names]  BY <1>3, <1>6
<1> HIDE DEF n, m, known, at
<1>11. /\ DOMAIN s = 1..(n + m)
       /\ \A i \in 1..n : s[i] = known[i]
       /\ \A i \in 1..m : s[n + i] = rest[i]
       /\ \A i \in 1..(n + m) : i \in 1..n \/ \E j \in 1..m : i = n + j
  <2>1. known \in Seq(S.names) /\ Len(known) = n  BY ONLY <1>8
  <2>2. rest \in Seq(S.names) /\ Len(rest) = m  BY ONLY <1>5, <1>10
  <2>3. /\ DOMAIN (known \o rest) = 1..(n + m)
        /\ \A i \in 1..n : (known \o rest)[i] = known[i]
        /\ \A i \in 1..m : (known \o rest)[n + i] = rest[i]
    <3>1. DOMAIN (known \o rest) = 1..(n + m)  BY ONLY <2>1, <2>2
    <3>2. \A i \in 1..n : (known \o rest)[i] = known[i]  BY ONLY <2>1, <2>2
    <3>3. \A i \in 1..m : (known \o rest)[n + i] = rest[i]  BY ONLY <2>1, <2>2
    <3> QED BY ONLY <3>1, <3>2, <3>3
  <2>4. \A i \in 1..(n + m) : i \in 1..n \/ \E j \in 1..m : i = n + j
    BY ONLY <1>5, <1>8, FirstOrSecond
  <2> QED BY ONLY <1>1, <2>3, <2>4
<1>12. \A y \in DOMAIN s : s[y] \in S.names
  <2> TAKE y \in DOMAIN s
  <2>1. CASE y \in 1..n  BY <2>1, <1>8, <1>11
  <2>2. CASE \E j \in 1..m : y = n + j  BY <2>2, <1>10, <1>11
  <2> QED BY <2>1, <2>2, <1>11
<1>13. \A x \in S.names : \E y \in DOMAIN s : s[y] = x
  <2> TAKE x \in S.names
  <2>1. CASE x \in D
    <3>1. PICK i \in 1..m : rest[i] = x  BY <2>1, <1>6
    <3>2. n + i \in 1..(n + m)  BY <1>5, <1>8
    <3> QED BY <3>1, <3>2, <1>11
  <2>2. CASE x \notin D
    <3>1. PICK i \in I : KnownSettings[i] = x  BY <2>2 DEF ToSet
    <3>2. PICK y \in 1..n : at[y] = i  BY <1>9
    <3>3. y \in 1..(n + m)  BY <1>5, <1>8
    <3> QED BY <3>1, <3>2, <3>3, <1>9, <1>11
  <2> QED BY <2>1, <2>2
<1>14. ASSUME NEW i \in I
       PROVE  LET y == Cardinality({j \in I : j < i}) + 1
              IN  y \in DOMAIN s /\ s[y] = KnownSettings[i]
  <2>1. PICK x \in 1..n : at[x] = i  BY <1>9
  <2>2. Cardinality({j \in I : j < i}) + 1 = x
    <3>1. Cardinality({j \in I : j < at[x]}) = x - 1  BY <1>9
    <3> HIDE DEF I
    <3> QED BY <1>8, <2>1, <3>1
  <2>3. s[x] = KnownSettings[i]  BY <2>1, <1>9, <1>11
  <2>4. x \in 1..(n + m)  BY <1>5, <1>8
  <2> HIDE DEF I
  <2> QED BY <2>2, <2>3, <2>4, <1>11
<1>15. S.names = {} => s = <<>>
  <2> SUFFICES ASSUME S.names = {} PROVE s = <<>>  OBVIOUS
  <2>1. n = 0 /\ m = 0
    <3>1. I = {} /\ D = {}  OBVIOUS
    <3> QED BY <3>1, FS_EmptySet DEF n, m
  <2>2. known = <<>> /\ rest = <<>>  BY <2>1, <1>8, <1>10
  <2> QED BY <2>2, <1>1
<1>16. S.names = {s[y] : y \in DOMAIN s}  BY <1>12, <1>13
<1>17. DOMAIN s = 1..Cardinality(S.names)  BY <1>11, <1>18
<1> QED BY <1>14, <1>15, <1>16, <1>17

SettingsOK ==
    (phase \in {"request", "sent"} /\ input.request.path = "h2") =>
        /\ DOMAIN settings = DOMAIN SettingsOf(selected)
        /\ settings = [i \in DOMAIN SettingsOf(selected) |-> Upper[SettingsOf(selected)[i]]]

LEMMA SettingsInductive == Spec => []SettingsOK
<1>1. Init => SettingsOK  BY DEF Init, SettingsOK
<1>2. SettingsOK /\ [Next]_vars => SettingsOK'
  <2> SUFFICES ASSUME SettingsOK, [Next]_vars PROVE SettingsOK'  OBVIOUS
  <2>1. CASE LoadFile  BY <2>1 DEF LoadFile, Error, SettingsOK
  <2>2. CASE Loaded  BY <2>2 DEF Loaded, SettingsOK
  <2>3. CASE Select  BY <2>3 DEF Select, Error, SettingsOK
  <2>4. CASE Connect
    <3>1. CASE phase' = "error"  BY <3>1 DEF SettingsOK
    <3>2. CASE phase' # "error"
      <4>1. UNCHANGED <<input, selected>>  BY <2>4, <3>2 DEF Connect, Error
      <4>2. settings' = IF input.request.path # "h2" THEN <<>>
                       ELSE [i \in DOMAIN SettingsOf(selected) |-> Upper[SettingsOf(selected)[i]]]
        BY <2>4, <3>2 DEF Connect, Error
      <4> QED BY <4>1, <4>2 DEF SettingsOK, SettingsOf
    <3> QED BY <3>1, <3>2
  <2>5. CASE WriteRequest  BY <2>5 DEF WriteRequest, SettingsOK, SettingsOf
  <2>6. CASE UNCHANGED vars  BY <2>6 DEF vars, SettingsOK, SettingsOf
  <2> QED BY <2>1, <2>2, <2>3, <2>4, <2>5, <2>6 DEF Next, Done
<1> QED BY <1>1, <1>2, PTL DEF Spec

LEMMA DefaultsAre ==
  [i \in DOMAIN DefaultSettings |-> Upper[DefaultSettings[i]]] = DefaultSettings
<1>1. DOMAIN DefaultSettings = 1..4 /\ DefaultSettings = [i \in 1..4 |-> DefaultSettings[i]]
  BY DEF DefaultSettings
<1>2. \A i \in 1..4 : Upper[DefaultSettings[i]] = DefaultSettings[i]
  <2>1. \A i \in 1..4 : \E j \in 1..6 : DefaultSettings[i] = KnownSettings[j]
    <3>1. /\ DefaultSettings[1] = KnownSettings[2] /\ DefaultSettings[2] = KnownSettings[4]
          /\ DefaultSettings[3] = KnownSettings[5] /\ DefaultSettings[4] = KnownSettings[6]
      BY DEF DefaultSettings, KnownSettings
    <3>2. \A i \in 1..4 : i = 1 \/ i = 2 \/ i = 3 \/ i = 4  OBVIOUS
    <3> QED BY <3>1, <3>2
  <2> QED BY <2>1, KnownAre
<1> QED BY <1>1, <1>2

(* The server sees every setting of the file the profile was loaded from  *)
(* once: a list as it is; of the older object the settings spelt as the    *)
(* protocol spells them first and in its order, those spelt otherwise      *)
(* behind them in an order that the file does not determine (profile.go,   *)
(* lines 75-117; h2profile.go, lines 11-24).                               *)
THEOREM SettingsAsInFile == Spec => []SettingsInOrder
<1>1. FileInv /\ SettingsOK => SettingsInOrder
  <2> SUFFICES ASSUME FileInv, SettingsOK, phase = "sent", input.request.path = "h2",
                      NEW f \in ToSet(input.builtin) \cup ToSet(input.user), selected.id = f.id
               PROVE  CASE f.settings.names = IF f.settings.form = "object" THEN {} ELSE <<>> ->
                             settings = DefaultSettings
                       [] f.settings.form # "object" /\ f.settings.names # <<>> -> settings =
                             [i \in DOMAIN f.settings.names |-> Upper[f.settings.names[i]]]
                       [] f.settings.form = "object" /\ f.settings.names # {} ->
                             LET exact == {i \in DOMAIN KnownSettings :
                                             KnownSettings[i] \in f.settings.names}
                             IN  /\ DOMAIN settings = 1..Cardinality(f.settings.names)
                                 /\ ToSet(settings) = {Upper[n] : n \in f.settings.names}
                                 /\ \A i \in exact :
                                       settings[Cardinality({j \in exact : j < i}) + 1]
                                          = KnownSettings[i]
    BY DEF SettingsInOrder
  <2>1. f \in AllFiles
    <3>1. input.builtin \in Seq(AllFiles) /\ input.user \in Seq(AllFiles)
      BY DirectoriesAre DEF FileInv
    <3> QED BY <3>1 DEF ToSet
  <2>2. PICK g \in AllFiles : Chosen(g)  BY DEF FileInv, SelectedOK
  <2>3. g = f  BY <2>1, <2>2, FileAssumption DEF Chosen
  <2> DEFINE s == selected.settings
             names == f.settings.names
  <2>4. s \in UnmarshalSettings(f.settings)  BY <2>2, <2>3 DEF Chosen
  <2>5. settings = [i \in DOMAIN SettingsOf(selected) |-> Upper[SettingsOf(selected)[i]]]
    BY DEF SettingsOK
  <2>6. s = <<>> => settings = DefaultSettings  BY <2>5, DefaultsAre DEF SettingsOf
  <2>7. s # <<>> => settings = [i \in DOMAIN s |-> Upper[s[i]]]  BY <2>5 DEF SettingsOf
  <2>8. CASE f.settings.form # "object"
    <3>1. s = names  BY <2>4, <2>8 DEF UnmarshalSettings
    <3> HIDE DEF s, names
    <3> QED BY <2>6, <2>7, <2>8, <3>1 DEF names
  <2>9. CASE f.settings.form = "object"
    <3> DEFINE exact == {i \in DOMAIN KnownSettings : KnownSettings[i] \in names}
               place(i) == Cardinality({j \in exact : j < i}) + 1
    <3>1. IsFiniteSet(names)  BY <2>1, <2>9, FileAssumption
    <3>2. /\ DOMAIN s = 1..Cardinality(names)
          /\ names = {} => s = <<>>
          /\ names = {s[y] : y \in DOMAIN s}
          /\ \A i \in exact : place(i) \in DOMAIN s /\ s[place(i)] = KnownSettings[i]
      BY <2>4, <2>9, <3>1, ObjectDecoded
    <3>3. \A i \in exact : i \in DOMAIN KnownSettings  OBVIOUS
    <3>4. CASE names = {}
      <4> HIDE DEF s, names, place, exact
      <4> QED BY <2>6, <2>9, <3>2, <3>4 DEF names
    <3>5. CASE names # {}
      <4> HIDE DEF s, names, place, exact
      <4>1. s # <<>>
        <5>1. names = {s[y] : y \in DOMAIN s}  BY <3>2
        <5> QED BY <3>5, <5>1
      <4>2. DOMAIN settings = DOMAIN s /\ \A i \in DOMAIN s : settings[i] = Upper[s[i]]
        BY <2>7, <4>1
      <4>3. ToSet(settings) = {Upper[n] : n \in names}
        <5>1. names = {s[y] : y \in DOMAIN s}  BY <3>2
        <5> QED BY <4>2, <5>1 DEF ToSet
      <4>4. \A i \in exact : settings[place(i)] = KnownSettings[i]
        BY <3>2, <3>3, <4>2, SpellingAssumption
      <4> QED BY <2>9, <3>2, <3>5, <4>2, <4>3, <4>4 DEF names, place, exact
    <3> QED BY <3>4, <3>5
  <2> QED BY <2>8, <2>9
<1> QED BY <1>1, FileInductive, SettingsInductive, PTL

-----------------------------------------------------------------------------
(* What is sent.                                                           *)

Spelt == {Canonical[n] : n \in selected.set}

LEMMA HeaderFrom ==
  ASSUME NEW h, Header(h), NEW extra, IsFiniteSet(extra), extra \subseteq HeaderKeys,
         NEW o, DOMAIN o \subseteq extra \cup DOMAIN h,
         \A k \in DOMAIN o : \/ o[k] = <<"profile">> \/ o[k] = <<"proxy">>
                             \/ k \in DOMAIN h /\ o[k] = h[k]
  PROVE  Header(o)
<1>1. IsFiniteSet(extra \cup DOMAIN h)  BY FS_Union DEF Header
<1>2. IsFiniteSet(DOMAIN o)
  <2>1. DOMAIN o \in SUBSET (extra \cup DOMAIN h)  OBVIOUS
  <2> QED BY <1>1, <2>1, FS_Subset
<1>3. DOMAIN o \subseteq HeaderKeys  BY DEF Header
<1>4. /\ <<"profile">> \in Seq({"client", "profile", "proxy"})
      /\ <<"proxy">> \in Seq({"client", "profile", "proxy"})
  OBVIOUS
<1>5. \A k \in DOMAIN o : o[k] \in Seq({"client", "profile", "proxy"})  BY <1>4 DEF Header
<1> QED BY <1>2, <1>3, <1>5 DEF Header

LEMMA SelectedIs ==
  ASSUME Inputs, SelectedOK, phase \in {"connect", "request", "sent"}
  PROVE  /\ selected.order \in Seq(DOMAIN Lower) /\ selected.pseudo \in Seq(STRING)
         /\ IsFiniteSet(Spelt) /\ Spelt \subseteq HeaderKeys
         /\ \A k \in HeaderKeys : k \in Spelt <=> Named(k)
         /\ Header(input.request.headers)
         /\ \A k \in DOMAIN input.request.headers : input.request.headers[k] \in Seq({"client"})
<1>1. PICK f \in AllFiles : Chosen(f)  BY DEF SelectedOK
<1>2. /\ selected.order \in Seq(DOMAIN Lower) /\ selected.pseudo \in Seq(STRING)
      /\ IsFiniteSet(selected.set)
  BY <1>1, FileAssumption DEF Chosen
<1>3. Spelt \subseteq HeaderKeys
  <2>1. Spelt \in {{Canonical[n] : n \in g.set} : g \in AllFiles}  BY <1>1 DEF Chosen, Spelt
  <2> HIDE DEF Spelt
  <2> QED BY <2>1 DEF HeaderKeys
<1>8. IsFiniteSet(Spelt)
  <2> DEFINE map == [n \in selected.set |-> Canonical[n]]
  <2>1. map \in Surjection(selected.set, Spelt)  BY DEF Spelt, Surjection
  <2> HIDE DEF map
  <2> QED BY <1>2, <2>1, FS_Surjection
<1>9. \A k \in HeaderKeys : k \in Spelt <=> Named(k)
  <2>1. \A n \in selected.set : Canonical[n] \in Spelt /\ Lower[Canonical[n]] = Lower[n]
    BY <1>1, FileAssumption DEF Chosen, Spelt
  <2>2. \A k \in Spelt : \E n \in selected.set : k = Canonical[n]  BY DEF Spelt
  <2>3. \A k, l \in HeaderKeys : Lower[k] = Lower[l] => k = l  BY RequestAssumption
  <2>4. ASSUME NEW k \in Spelt PROVE Named(k)  BY <2>1, <2>2 DEF Named
  <2>5. ASSUME NEW k \in HeaderKeys, Named(k) PROVE k \in Spelt
    <3>1. PICK n \in selected.set : Lower[n] = Lower[k]  BY <2>5 DEF Named
    <3>2. Canonical[n] \in HeaderKeys /\ Lower[Canonical[n]] = Lower[k]  BY <1>3, <2>1, <3>1
    <3>3. Canonical[n] = k  BY <2>3, <3>2
    <3> QED BY <2>1, <3>3
  <2> QED BY <2>4, <2>5
<1> DEFINE h == input.request.headers
<1>4. input.request \in Requests  BY DEF Inputs
<1>5. IsFiniteSet(DOMAIN h) /\ \A k \in DOMAIN h : h[k] \in Seq({"client"})
  BY <1>4, RequestAssumption
<1>6. DOMAIN h \subseteq HeaderKeys
  <2>1. DOMAIN h \in {DOMAIN r.headers : r \in Requests}  BY <1>4
  <2> HIDE DEF h
  <2> QED BY <2>1 DEF HeaderKeys
<1>7. \A k \in DOMAIN h : h[k] \in Seq({"client", "profile", "proxy"})
  <2> TAKE k \in DOMAIN h
  <2> HIDE DEF h
  <2>1. h[k] \in Seq({"client"})  BY <1>5
  <2> QED BY <2>1
<1> QED BY <1>2, <1>3, <1>5, <1>6, <1>7, <1>8, <1>9 DEF Header

LEMMA OutgoingIs ==
  ASSUME Inputs, SelectedOK, phase \in {"connect", "request", "sent"},
         NEW c, c = input.request.headers
  PROVE  /\ Header(Outgoing(c))
         /\ \A k \in DOMAIN Outgoing(c) :
               \/ Rewritten(k) /\ Outgoing(c)[k] = <<"profile">>
               \/ /\ ~Rewritten(k) /\ k \in DOMAIN c \ Withheld
                  /\ Outgoing(c)[k] = c[k]
         /\ \A k \in HeaderKeys :
               Rewritten(k) \/ k \in DOMAIN c \ Withheld => k \in DOMAIN Outgoing(c)
<1> DEFINE base == Del(c, Withheld)
           set == {"User-Agent"} \cup (IF input.request.path = "websocket" THEN {} ELSE Spelt)
           o == Outgoing(c)
<1>1. o = IF ~input.rewrite THEN base ELSE SetAll(base, set, <<"profile">>)
  BY DEF Outgoing, Apply, Given, Spelt, Withheld
<1>2. /\ Header(c) /\ IsFiniteSet(Spelt) /\ Spelt \subseteq HeaderKeys
      /\ \A k \in HeaderKeys : k \in Spelt <=> Named(k)
  BY SelectedIs
<1>3. /\ DOMAIN base = DOMAIN c \ Withheld
      /\ \A k \in DOMAIN c \ Withheld : base[k] = c[k]
  BY DEF Del
<1>4. IsFiniteSet(set) /\ set \subseteq HeaderKeys
  <2>1. IsFiniteSet({"User-Agent"}) /\ IsFiniteSet({})  BY FS_Singleton, FS_EmptySet
  <2>2. "User-Agent" \in HeaderKeys  BY DEF HeaderKeys
  <2>3. IsFiniteSet(IF input.request.path = "websocket" THEN {} ELSE Spelt)
    BY <1>2, <2>1
  <2> QED BY <1>2, <2>1, <2>2, <2>3, FS_Union
<1>5. \A k \in HeaderKeys : input.rewrite /\ k \in set <=> Rewritten(k)
  BY <1>2 DEF Rewritten
<1> HIDE DEF base, set
<1>6. /\ \A k \in DOMAIN o : \/ Rewritten(k) /\ o[k] = <<"profile">>
                             \/ ~Rewritten(k) /\ k \in DOMAIN c \ Withheld /\ o[k] = c[k]
      /\ \A k \in HeaderKeys : Rewritten(k) \/ k \in DOMAIN c \ Withheld => k \in DOMAIN o
      /\ DOMAIN o \subseteq set \cup DOMAIN c
  <2>1. CASE ~input.rewrite
    <3>1. o = base /\ \A k : ~Rewritten(k)  BY <1>1, <2>1 DEF Rewritten
    <3> HIDE DEF o
    <3> QED BY <1>3, <3>1
  <2>2. CASE input.rewrite
    <3>1. o = SetAll(base, set, <<"profile">>)  BY <1>1, <2>2
    <3> HIDE DEF o
    <3>2. /\ DOMAIN o = set \cup DOMAIN base
          /\ \A k \in set : o[k] = <<"profile">>
          /\ \A k \in DOMAIN base : k \notin set => o[k] = base[k]
      BY <3>1 DEF SetAll, Over
    <3>3. \A k \in HeaderKeys : k \in set <=> Rewritten(k)  BY <1>5, <2>2
    <3>4. DOMAIN o \subseteq HeaderKeys  BY <1>2, <1>3, <1>4, <3>2 DEF Header
    <3> QED BY <1>3, <3>2, <3>3, <3>4
  <2> QED BY <2>1, <2>2
<1> HIDE DEF o
<1>7. Header(o)  BY <1>2, <1>4, <1>6, HeaderFrom
<1> QED BY <1>6, <1>7 DEF o

\* What the writers compute themselves or leave out.
Computed ==
    {"Host", "Content-Length"} \cup (IF input.request.path = "h2" THEN {"Connection"} ELSE {})

LEMMA FramedIs ==
  ASSUME NEW h, Header(h)
  PROVE  /\ Header(Framed(h))
         /\ \A k \in DOMAIN Framed(h) : \/ Framed(h)[k] = <<"proxy">>
                                        \/ k \in DOMAIN h /\ Framed(h)[k] = h[k]
         /\ \A k \in DOMAIN h \ Computed :
               k \in DOMAIN Framed(h) /\ Framed(h)[k] = h[k]
<1> DEFINE own == {"Host", "Content-Length"}
           kept == Del(h, {"Host", "Connection"})
           set == {"Host"} \cup (IF input.request.body THEN {"Content-Length"} ELSE {})
           f == Framed(h)
<1>1. /\ DOMAIN kept = DOMAIN h \ {"Host", "Connection"}
      /\ \A k \in DOMAIN kept : kept[k] = h[k]
  BY DEF Del
<1>2. f = IF input.request.path = "h2"
          THEN IF input.request.body THEN SetAll(kept, {"Content-Length"}, <<"proxy">>) ELSE kept
          ELSE SetAll(h, set, <<"proxy">>)
  BY DEF Framed
<1>3. set \subseteq own /\ {"Content-Length"} \subseteq own  OBVIOUS
<1>4. IsFiniteSet(own) /\ own \subseteq HeaderKeys
  <2>1. own = {"Host"} \cup {"Content-Length"}  OBVIOUS
  <2>2. IsFiniteSet({"Host"}) /\ IsFiniteSet({"Content-Length"})  BY FS_Singleton
  <2> QED BY <2>1, <2>2, FS_Union DEF HeaderKeys
<1>5. "Host" \in own /\ "Content-Length" \in own  OBVIOUS
<1> HIDE DEF own, kept, set, f
<1>6. /\ DOMAIN f \subseteq own \cup DOMAIN h
      /\ \A k \in DOMAIN f : f[k] = <<"proxy">> \/ (k \in DOMAIN h /\ f[k] = h[k])
      /\ \A k \in DOMAIN h : k \notin Computed => k \in DOMAIN f /\ f[k] = h[k]
  <2>0. /\ own \subseteq Computed
        /\ input.request.path = "h2" => "Connection" \in Computed
    BY DEF own, Computed
  <2>1. CASE input.request.path = "h2" /\ f = SetAll(kept, {"Content-Length"}, <<"proxy">>)
    <3>1. /\ DOMAIN f = {"Content-Length"} \cup DOMAIN kept
          /\ f["Content-Length"] = <<"proxy">>
          /\ \A k \in DOMAIN kept : k # "Content-Length" => f[k] = kept[k]
      BY <2>1 DEF SetAll, Over
    <3> QED BY <1>1, <1>5, <2>0, <2>1, <3>1
  <2>2. CASE input.request.path = "h2" /\ f = kept  BY <1>1, <1>5, <2>0, <2>2
  <2>3. CASE f = SetAll(h, set, <<"proxy">>)
    <3>1. /\ DOMAIN f = set \cup DOMAIN h
          /\ \A k \in set : f[k] = <<"proxy">>
          /\ \A k \in DOMAIN h : k \notin set => f[k] = h[k]
      BY <2>3 DEF SetAll, Over
    <3> QED BY <1>3, <2>0, <3>1
  <2> QED BY <1>2, <2>1, <2>2, <2>3
<1>7. Header(f)  BY <1>4, <1>6, HeaderFrom
<1> QED BY <1>6, <1>7 DEF f, own

\* Nothing of the client's own, for a single value.
LEMMA ClientsOwn ==
  ASSUME Inputs, SelectedOK, phase \in {"connect", "request", "sent"},
         NEW f, f = Framed(Outgoing(input.request.headers)),
         NEW k \in DOMAIN f, NEW j \in DOMAIN f[k], f[k][j] = "client"
  PROVE  k \notin Withheld /\ ~Rewritten(k)
<1> DEFINE c == input.request.headers
           o == Outgoing(c)
<1>1. /\ Header(o)
      /\ \A l \in DOMAIN o : \/ Rewritten(l) /\ o[l] = <<"profile">>
                             \/ ~Rewritten(l) /\ l \in DOMAIN c \ Withheld /\ o[l] = c[l]
  BY OutgoingIs
<1>2. \A l \in DOMAIN f : f[l] = <<"proxy">> \/ (l \in DOMAIN o /\ f[l] = o[l])
  BY <1>1, FramedIs
<1> HIDE DEF c, o
<1>3. CASE f[k] = <<"proxy">>  BY <1>3
<1>4. CASE k \in DOMAIN o /\ f[k] = o[k]
  <2>1. o[k] # <<"profile">>  BY <1>4
  <2> QED BY <1>1, <1>4, <2>1
<1> QED BY <1>2, <1>3, <1>4

\* The fields at the places in sent are the values, in their order, each once.
Lists(fields, sent, values, at) ==
    /\ at \in [DOMAIN values -> sent]
    /\ sent = {at[j] : j \in DOMAIN values}
    /\ \A j \in DOMAIN values : fields[at[j]].value = values[j]
    /\ \A i, j \in DOMAIN values : i < j => at[i] < at[j]

LEMMA SentOnce ==
  ASSUME selected.order \in Seq(DOMAIN Lower), NEW h, Header(h), NEW k \in DOMAIN h,
         NEW sent, sent = {p \in DOMAIN Fields(h) : Fields(h)[p].key = k}
  PROVE  \E at : Lists(Fields(h), sent, h[k], at)
<1> DEFINE n == Count(h)
           src == Sorted(h)
           fields == Fields(h)
           J == DOMAIN h[k]
           at == [j \in J |-> CHOOSE p \in 1..n : src[p] = <<k, j>>]
<1>1. /\ n \in Nat /\ DOMAIN fields = 1..n
      /\ \A p \in 1..n : /\ src[p] \in Places(h)
                         /\ fields[p].key = src[p][1]
                         /\ fields[p].value = h[src[p][1]][src[p][2]]
      /\ \A x \in Places(h) : \E p \in 1..n : src[p] = x
  BY FieldsAre
<1>2. \A p, q \in 1..n : p < q <=> Less(src[p][1], src[q][1])
                               \/ (src[p][1] = src[q][1] /\ src[p][2] < src[q][2])
  BY FieldsAre
<1>3. ~Less(k, k)  BY LessOrders DEF Header
<1>4. J \subseteq Int
  <2>1. \A j \in J : <<k, j>> \in Places(h)  BY PlacesAre
  <2>2. \A x \in Places(h) : x[2] \in Int  BY PlacesAre
  <2> QED BY <2>1, <2>2
<1>5. ASSUME NEW j \in J
      PROVE  at[j] \in 1..n /\ src[at[j]] = <<k, j>>
  <2>1. <<k, j>> \in Places(h)  BY PlacesAre
  <2>2. \E p \in 1..n : src[p] = <<k, j>>  BY <1>1, <2>1
  <2> QED BY <2>2
<1>6. DOMAIN at = J /\ at = [j \in J |-> at[j]]  OBVIOUS
<1> HIDE DEF n, src, fields, at
<1>7. \A p \in sent : /\ p \in 1..n /\ src[p][1] = k /\ src[p][2] \in J
                      /\ src[p] = <<k, src[p][2]>>
  <2> TAKE p \in sent
  <2>1. p \in 1..n /\ fields[p].key = k  BY <1>1 DEF fields
  <2>2. src[p] \in Places(h) /\ src[p][1] = k  BY <1>1, <2>1
  <2>3. src[p] = <<src[p][1], src[p][2]>> /\ src[p][2] \in DOMAIN h[src[p][1]]
    BY <2>2, PlacesAre
  <2> QED BY <2>1, <2>2, <2>3
<1>8. \A j \in J : at[j] \in 1..n /\ src[at[j]][1] = k /\ src[at[j]][2] = j
  BY <1>5
<1>9. \A j \in J : at[j] \in sent /\ fields[at[j]].value = h[k][j]
  <2> TAKE j \in J
  <2>1. at[j] \in 1..n /\ src[at[j]][1] = k /\ src[at[j]][2] = j  BY <1>8
  <2>2. fields[at[j]].key = k /\ fields[at[j]].value = h[k][j]  BY <1>1, <2>1
  <2> QED BY <1>1, <2>1, <2>2 DEF fields
<1>10. \A i, j \in J : i < j => at[i] < at[j]
  BY <1>2, <1>8
<1>11. ASSUME NEW p \in sent
       PROVE  \E j \in J : at[j] = p
  <2> DEFINE j == src[p][2]
  <2>1. p \in 1..n /\ src[p][1] = k /\ j \in J /\ src[p] = <<k, j>>  BY <1>7
  <2> HIDE DEF j
  <2>2. at[j] \in 1..n /\ src[at[j]] = src[p]  BY <1>5, <2>1
  <2>3. ~(at[j] < p) /\ ~(p < at[j])
    <3>1. src[p][2] \in Int /\ src[at[j]][1] = k /\ src[at[j]][2] = src[p][2]
      BY <1>4, <1>7, <2>1, <2>2
    <3>2. ~(src[p][2] < src[p][2])  BY <3>1
    <3> QED BY <1>2, <1>3, <2>1, <2>2, <3>1, <3>2
  <2>4. at[j] = p  BY <1>1, <2>1, <2>2, <2>3
  <2> QED BY <2>1, <2>4
<1>12. at \in [J -> sent]  BY <1>6, <1>9
<1>13. sent = {at[j] : j \in J}  BY <1>9, <1>11
<1>14. Lists(fields, sent, h[k], at)  BY <1>9, <1>10, <1>12, <1>13 DEF Lists
<1> QED BY <1>14 DEF fields

\* The keys that the profile ranks come first, in its order, and then the others.
LEMMA KeysInOrder ==
  ASSUME selected.order \in Seq(DOMAIN Lower), NEW h, Header(h),
         NEW i \in DOMAIN Fields(h), NEW j \in 1..(i - 1),
         NEW k, k = Fields(h)[i].key, NEW l, l = Fields(h)[j].key
  PROVE  \/ k = l
         \/ Ranks(k) = {} /\ Ranks(l) # {}
         \/ \E n \in Ranks(k) : \A m \in Ranks(l) : m < n
         \/ Ranks(k) = {} /\ Ranks(l) = {} /\ Alphabet[l] < Alphabet[k]
<1> DEFINE N == Count(h)
           src == Sorted(h)
<1>1. N \in Nat /\ DOMAIN Fields(h) = 1..N  BY FieldsAre
<1>2. \A p \in 1..N : Fields(h)[p].key = src[p][1]  BY FieldsAre
<1>3. \A p, q \in 1..N : p < q <=> Less(src[p][1], src[q][1])
                               \/ (src[p][1] = src[q][1] /\ src[p][2] < src[q][2])
  BY FieldsAre
<1> HIDE DEF N, src
<1>4. i \in 1..N /\ j \in 1..N /\ j < i  BY <1>1
<1>5. k = src[i][1] /\ l = src[j][1]  BY <1>2, <1>4
<1>6. Less(l, k) \/ k = l  BY <1>3, <1>4, <1>5
<1>7. CASE Ranked(l) /\ Ranked(k)
  <2>1. Rank(l) < Rank(k) \/ k = l  BY <1>6, <1>7 DEF Less
  <2>2. Rank(k) \in Ranks(k) /\ Rank(k) \in Int  BY <1>7, RankIs DEF Ranks
  <2>3. Rank(l) \in Int /\ \A m \in Ranks(l) : m <= Rank(l) /\ m \in Int
    BY <1>7, RankIs DEF Ranks
  <2> QED BY <2>1, <2>2, <2>3
<1>8. CASE Ranked(l) /\ ~Ranked(k)  BY <1>8 DEF Ranked
<1>9. CASE ~Ranked(l) /\ Ranked(k)  BY <1>6, <1>9 DEF Less
<1>10. CASE ~Ranked(l) /\ ~Ranked(k)
  <2>1. Alphabet[l] < Alphabet[k] \/ k = l  BY <1>6, <1>10 DEF Less
  <2> QED BY <2>1, <1>10 DEF Ranked
<1> QED BY <1>7, <1>8, <1>9, <1>10

-----------------------------------------------------------------------------
(* Pseudo-headers.                                                         *)

LEMMA LeastIs ==
  ASSUME NEW n \in Nat, NEW S \in SUBSET (1..n), S # {}
  PROVE  \E x \in S : \A y \in S : x <= y
<1> DEFINE m == Cardinality(S)
           at == Ascending(S)
<1>1. IsFiniteSet(S)
  <2>1. IsFiniteSet(1..n)  BY FS_Interval
  <2> QED BY <2>1, FS_Subset
<1>2. S \in SUBSET Int  OBVIOUS
<1>3. m \in Nat /\ m # 0  BY <1>1, FS_EmptySet, FS_CardinalityType
<1>4. /\ at \in [1..m -> S] /\ \A i, j \in 1..m : i < j <=> at[i] < at[j]
      /\ \A x \in S : \E i \in 1..m : at[i] = x
  BY <1>1, <1>2, AscendingIs
<1> HIDE DEF m, at
<1>5. 1 \in 1..m /\ at[1] \in S  BY <1>3, <1>4
<1>6. \A y \in S : at[1] <= y
  <2> TAKE y \in S
  <2>1. PICK i \in 1..m : at[i] = y  BY <1>4
  <2>2. ~(y < at[1])  BY <1>3, <1>4, <1>5, <2>1
  <2>3. y \in Int /\ at[1] \in Int  BY <1>2, <1>5
  <2> QED BY <2>2, <2>3
<1> QED BY <1>5, <1>6

Firsts(order) ==
    {i \in DOMAIN order : order[i] \in Valued /\ \A j \in 1..(i - 1) : order[j] # order[i]}

\* Every name of order that has a value, once, by its first place.
LEMMA OnceIs ==
  ASSUME NEW L \in Nat, NEW order, DOMAIN order = 1..L
  PROVE  LET n == Cardinality(Firsts(order))
             at == Ascending(Firsts(order))
         IN  /\ n \in Nat /\ Once(order) \in [1..n -> Valued]
             /\ \A i \in 1..n : at[i] \in 1..L /\ Once(order)[i] = order[at[i]]
             /\ \A i, j \in 1..n : i < j <=> at[i] < at[j]
             /\ \A i \in 1..n : \A x \in 1..L : order[x] = Once(order)[i] => at[i] <= x
             /\ \A x \in 1..L : order[x] \in Valued => \E i \in 1..n : Once(order)[i] = order[x]
             /\ \A i, j \in 1..n : Once(order)[i] = Once(order)[j] => i = j
<1> DEFINE I == Firsts(order)
           n == Cardinality(I)
           at == Ascending(I)
           o == Once(order)
<1>1. I \in SUBSET (1..L) /\ \A i \in I : order[i] \in Valued  BY DEF Firsts
<1>2. IsFiniteSet(I) /\ I \in SUBSET Int
  <2>1. IsFiniteSet(1..L)  BY FS_Interval
  <2> QED BY <1>1, <2>1, FS_Subset
<1>3. o = Keep(order, I)  BY DEF Once, Firsts
<1> HIDE DEF I
<1>4. /\ n \in Nat /\ at \in [1..n -> I] /\ \A i, j \in 1..n : i < j <=> at[i] < at[j]
      /\ \A x \in I : \E i \in 1..n : at[i] = x
  BY <1>2, AscendingIs
<1>5. o \in [1..n -> Valued] /\ \A i \in 1..n : o[i] = order[at[i]]
  BY <1>1, <1>2, <1>3, KeepIs
<1> HIDE DEF n, at, o
<1>6. \A i \in 1..n : at[i] \in I /\ at[i] \in 1..L  BY <1>1, <1>4
<1>7. \A i \in 1..n : \A x \in 1..L : order[x] = o[i] => at[i] <= x
  <2> TAKE i \in 1..n
  <2> TAKE x \in 1..L
  <2>1. at[i] \in I /\ at[i] \in 1..L /\ o[i] = order[at[i]]  BY <1>5, <1>6
  <2>2. \A j \in 1..(at[i] - 1) : order[j] # order[at[i]]  BY <2>1 DEF I, Firsts
  <2>3. x < at[i] => x \in 1..(at[i] - 1)  BY <2>1
  <2> QED BY <2>1, <2>2, <2>3
<1>8. ASSUME NEW x \in 1..L, order[x] \in Valued
      PROVE  \E i \in 1..n : o[i] = order[x]
  <2> DEFINE S == {y \in 1..L : order[y] = order[x]}
  <2>1. PICK y \in S : \A z \in S : y <= z
    <3>1. S \in SUBSET (1..L) /\ S # {}  OBVIOUS
    <3> HIDE DEF S
    <3> QED BY <3>1, LeastIs
  <2>2. y \in 1..L /\ order[y] = order[x]  OBVIOUS
  <2>3. \A j \in 1..(y - 1) : order[j] # order[y]
    <3> TAKE j \in 1..(y - 1)
    <3>1. j \in 1..L /\ ~(y <= j)  BY <2>2
    <3> QED BY <2>1, <2>2, <3>1
  <2>4. y \in I  BY <1>8, <2>2, <2>3 DEF I, Firsts
  <2>5. PICK i \in 1..n : at[i] = y  BY <1>4, <2>4
  <2> QED BY <1>5, <2>2, <2>5
<1>9. ASSUME NEW i \in 1..n, NEW j \in 1..n, o[i] = o[j]
      PROVE  i = j
  <2>1. at[i] <= at[j] /\ at[j] <= at[i]  BY <1>5, <1>6, <1>7, <1>9
  <2>2. at[i] \in Int /\ at[j] \in Int  BY <1>6
  <2>3. ~(i < j) /\ ~(j < i)  BY <1>4, <2>1, <2>2
  <2> QED BY <1>4, <2>3
<1> QED BY <1>4, <1>5, <1>6, <1>7, <1>8, <1>9 DEF n, at, o, I

\* The names of the fixed order that the profile's order leaves out.
LEMMA RestIs ==
  ASSUME NEW named
  PROVE  LET I == {i \in DOMAIN DefaultPseudo : DefaultPseudo[i] \in Valued \ named}
             m == Cardinality(I)
             rest == Keep(DefaultPseudo, I)
         IN  /\ m \in Nat /\ rest \in [1..m -> Valued]
             /\ \A i \in 1..m : rest[i] \notin named
             /\ \A x \in Valued : x \notin named => \E i \in 1..m : rest[i] = x
             /\ \A i, j \in 1..m : rest[i] = rest[j] => i = j
<1> DEFINE I == {i \in DOMAIN DefaultPseudo : DefaultPseudo[i] \in Valued \ named}
           m == Cardinality(I)
           at == Ascending(I)
           rest == Keep(DefaultPseudo, I)
<1>1. DOMAIN DefaultPseudo = 1..4  BY DEF DefaultPseudo
<1>2. \A i, j \in 1..4 : DefaultPseudo[i] = DefaultPseudo[j] => i = j  BY DEF DefaultPseudo
<1>3. \A x \in Valued : \E i \in 1..4 : DefaultPseudo[i] = x
  <2>1. /\ DefaultPseudo[1] = ":method" /\ DefaultPseudo[2] = ":authority"
        /\ DefaultPseudo[3] = ":scheme" /\ DefaultPseudo[4] = ":path"
    BY DEF DefaultPseudo
  <2>2. Valued \subseteq {":method", ":scheme", ":path", ":authority"}  BY DEF Valued
  <2>3. 1 \in 1..4 /\ 2 \in 1..4 /\ 3 \in 1..4 /\ 4 \in 1..4  OBVIOUS
  <2> QED BY <2>1, <2>2, <2>3
<1>4. I \in SUBSET (1..4) /\ \A i \in I : DefaultPseudo[i] \in Valued \ named  BY <1>1
<1>5. IsFiniteSet(I) /\ I \in SUBSET Int
  <2>1. 1 \in Int /\ 4 \in Int  OBVIOUS
  <2>2. IsFiniteSet(1..4)  BY <2>1, FS_Interval, Zenon
  <2> QED BY <1>4, <2>2, FS_Subset
<1>6. \A x \in Valued : x \notin named => \E i \in I : DefaultPseudo[i] = x  BY <1>1, <1>3
<1> HIDE DEF I
<1>7. /\ m \in Nat /\ at \in [1..m -> I] /\ \A i, j \in 1..m : i < j <=> at[i] < at[j]
      /\ \A x \in I : \E i \in 1..m : at[i] = x
  BY <1>5, AscendingIs
<1>8. rest \in [1..m -> Valued \ named] /\ \A i \in 1..m : rest[i] = DefaultPseudo[at[i]]
  BY <1>4, <1>5, KeepIs
<1> HIDE DEF m, at, rest
<1>9. \A x \in Valued : x \notin named => \E i \in 1..m : rest[i] = x
  <2> TAKE x \in Valued
  <2> SUFFICES ASSUME x \notin named PROVE \E i \in 1..m : rest[i] = x  OBVIOUS
  <2>1. PICK y \in I : DefaultPseudo[y] = x  BY <1>6
  <2>2. PICK i \in 1..m : at[i] = y  BY <1>7
  <2> QED BY <1>8, <2>1, <2>2
<1>10. ASSUME NEW i \in 1..m, NEW j \in 1..m, rest[i] = rest[j]
       PROVE  i = j
  <2>1. at[i] \in 1..4 /\ at[j] \in 1..4  BY <1>4, <1>7
  <2>2. at[i] = at[j]  BY <1>2, <1>8, <1>10, <2>1
  <2>3. ~(i < j) /\ ~(j < i)  BY <1>7, <2>1, <2>2
  <2> QED BY <1>7, <2>3
<1> QED BY <1>7, <1>8, <1>9, <1>10 DEF m, rest, I

\* What is sent: the names the profile asks for, and then the rest.
LEMMA PseudoIs ==
  ASSUME selected.pseudo \in Seq(STRING)
  PROVE  /\ ToSet(PseudoHeaders) = Valued /\ Len(PseudoHeaders) = Cardinality(Valued)
         /\ \A i, j \in DOMAIN PseudoHeaders : \A y \in DOMAIN selected.pseudo :
               (/\ selected.pseudo[y] = PseudoHeaders[j]
                /\ \A x \in DOMAIN selected.pseudo :
                      selected.pseudo[x] = PseudoHeaders[i] => y < x) => j < i
<1> DEFINE order == IF selected.pseudo = <<>> THEN DefaultPseudo ELSE selected.pseudo
           L == Len(order)
           asked == Once(order)
           n == Cardinality(Firsts(order))
           at == Ascending(Firsts(order))
           I == {i \in DOMAIN DefaultPseudo : DefaultPseudo[i] \in Valued \ ToSet(asked)}
           m == Cardinality(I)
           rest == Keep(DefaultPseudo, I)
           ps == PseudoHeaders
<1>1. L \in Nat /\ DOMAIN order = 1..L
  <2>1. CASE selected.pseudo = <<>>  BY <2>1 DEF DefaultPseudo
  <2>2. CASE selected.pseudo # <<>>  BY <2>2
  <2> QED BY <2>1, <2>2
<1>2. \A y \in DOMAIN selected.pseudo :
        selected.pseudo # <<>> /\ order = selected.pseudo /\ y \in 1..L
  BY <1>1
<1>3. ps = asked \o rest  BY DEF PseudoHeaders
<1> HIDE DEF order, L
<1>4. /\ n \in Nat /\ asked \in [1..n -> Valued]
      /\ \A i \in 1..n : at[i] \in 1..L /\ asked[i] = order[at[i]]
      /\ \A i, j \in 1..n : i < j <=> at[i] < at[j]
      /\ \A i \in 1..n : \A x \in 1..L : order[x] = asked[i] => at[i] <= x
      /\ \A x \in 1..L : order[x] \in Valued => \E i \in 1..n : asked[i] = order[x]
      /\ \A i, j \in 1..n : asked[i] = asked[j] => i = j
  BY <1>1, OnceIs
<1> HIDE DEF asked, n, at
<1>5. /\ m \in Nat /\ rest \in [1..m -> Valued]
      /\ \A i \in 1..m : rest[i] \notin ToSet(asked)
      /\ \A x \in Valued : x \notin ToSet(asked) => \E i \in 1..m : rest[i] = x
      /\ \A i, j \in 1..m : rest[i] = rest[j] => i = j
  BY RestIs
<1> HIDE DEF m, rest, I, ps
<1>6. \A x : x \in ToSet(asked) <=> \E i \in 1..n : asked[i] = x  BY <1>4 DEF ToSet
<1>7. /\ DOMAIN ps = 1..(n + m) /\ Len(ps) = n + m
      /\ \A i \in 1..n : ps[i] = asked[i]
      /\ \A i \in 1..m : ps[n + i] = rest[i]
      /\ \A i \in 1..(n + m) : i \in 1..n \/ \E j \in 1..m : i = n + j
  <2>1. asked \in Seq(Valued) /\ Len(asked) = n  BY ONLY <1>4
  <2>2. rest \in Seq(Valued) /\ Len(rest) = m  BY ONLY <1>5
  <2>3. /\ DOMAIN (asked \o rest) = 1..(n + m)
        /\ \A i \in 1..n : (asked \o rest)[i] = asked[i]
        /\ \A i \in 1..m : (asked \o rest)[n + i] = rest[i]
    <3>1. DOMAIN (asked \o rest) = 1..(n + m)  BY ONLY <2>1, <2>2
    <3>2. \A i \in 1..n : (asked \o rest)[i] = asked[i]  BY ONLY <2>1, <2>2
    <3>3. \A i \in 1..m : (asked \o rest)[n + i] = rest[i]  BY ONLY <2>1, <2>2
    <3> QED BY ONLY <3>1, <3>2, <3>3
  <2>4. \A i \in 1..(n + m) : i \in 1..n \/ \E j \in 1..m : i = n + j
    BY ONLY <1>4, <1>5, FirstOrSecond
  <2>5. Len(asked \o rest) = n + m  BY ONLY <2>1, <2>2
  <2> QED BY ONLY <1>3, <2>3, <2>4, <2>5
<1>8. ASSUME NEW i \in 1..(n + m)
      PROVE  ps[i] \in Valued
  <2>1. CASE i \in 1..n  BY <2>1, <1>4, <1>7
  <2>2. CASE \E j \in 1..m : i = n + j  BY <2>2, <1>5, <1>7
  <2> QED BY <2>1, <2>2, <1>7
<1>9. ASSUME NEW x \in Valued
      PROVE  \E i \in 1..(n + m) : ps[i] = x
  <2>1. CASE x \in ToSet(asked)
    <3>1. PICK i \in 1..n : asked[i] = x  BY <2>1, <1>6
    <3>2. i \in 1..(n + m)  BY <1>4, <1>5
    <3> QED BY <3>1, <3>2, <1>7
  <2>2. CASE x \notin ToSet(asked)
    <3>1. PICK i \in 1..m : rest[i] = x  BY <2>2, <1>5
    <3>2. n + i \in 1..(n + m)  BY <1>4, <1>5
    <3> QED BY <3>1, <3>2, <1>7
  <2> QED BY <2>1, <2>2
<1>10. ASSUME NEW i \in 1..(n + m), NEW j \in 1..(n + m), ps[i] = ps[j]
       PROVE  i = j
  <2>1. CASE i \in 1..n /\ j \in 1..n  BY <2>1, <1>4, <1>7, <1>10
  <2>2. ASSUME NEW p \in 1..n, NEW q \in 1..m
        PROVE  ps[p] # ps[n + q]
    <3>1. ps[p] = asked[p] /\ ps[n + q] = rest[q]  BY <1>7
    <3>2. asked[p] \in ToSet(asked)  BY <1>6
    <3>3. rest[q] \notin ToSet(asked)  BY <1>5
    <3> QED BY <3>1, <3>2, <3>3
  <2>3. ASSUME NEW p \in 1..m, NEW q \in 1..m, i = n + p, j = n + q
        PROVE  i = j
    BY <2>3, <1>5, <1>7, <1>10
  <2>4. CASE i \in 1..n /\ j \notin 1..n
    <3>1. PICK q \in 1..m : j = n + q  BY <2>4, <1>7
    <3> QED BY <3>1, <2>2, <2>4, <1>10
  <2>5. CASE i \notin 1..n /\ j \in 1..n
    <3>1. PICK q \in 1..m : i = n + q  BY <2>5, <1>7
    <3> QED BY <3>1, <2>2, <2>5, <1>10
  <2>6. CASE i \notin 1..n /\ j \notin 1..n
    <3>1. PICK p \in 1..m : i = n + p  BY <2>6, <1>7
    <3>2. PICK q \in 1..m : j = n + q  BY <2>6, <1>7
    <3> QED BY <3>1, <3>2, <2>3
  <2> QED BY <2>1, <2>4, <2>5, <2>6
<1>11. Cardinality(Valued) = n + m
  <2>1. ps \in [1..(n + m) -> Valued]
    <3>1. ps = [i \in 1..(n + m) |-> ps[i]]
      <4>1. asked \in Seq(Valued) /\ rest \in Seq(Valued)  BY ONLY <1>4, <1>5
      <4>2. asked \o rest \in Seq(Valued)  BY ONLY <4>1
      <4>3. ps \in Seq(Valued)  BY ONLY <4>2, <1>3
      <4> QED BY ONLY <4>3, <1>7
    <3> QED BY <3>1, <1>8
  <2>2. ps \in Bijection(1..(n + m), Valued)
    BY <2>1, <1>9, <1>10 DEF Bijection, Injection, Surjection, IsInjective
  <2>3. n + m \in Nat  BY <1>4, <1>5
  <2> QED BY <2>2, <2>3, FS_CountingElements DEF ExistsBijection
<1>12. ToSet(ps) = Valued  BY <1>7, <1>8, <1>9 DEF ToSet
<1>13. ASSUME NEW i \in 1..(n + m), NEW j \in 1..(n + m), NEW y \in DOMAIN selected.pseudo,
              selected.pseudo[y] = ps[j],
              \A x \in DOMAIN selected.pseudo : selected.pseudo[x] = ps[i] => y < x
       PROVE  j < i
  <2>1. /\ order = selected.pseudo /\ y \in 1..L /\ order[y] = ps[j]
        /\ \A x \in 1..L : order[x] = ps[i] => y < x
    BY <1>1, <1>2, <1>13
  <2>2. j \in 1..n
    <3>1. ps[j] \in Valued  BY <1>8
    <3>2. PICK p \in 1..n : asked[p] = ps[j]  BY <1>4, <2>1, <3>1
    <3>3. p \in 1..(n + m) /\ ps[p] = ps[j]  BY <3>2, <1>4, <1>5, <1>7
    <3> QED BY <3>3, <1>10
  <2>3. CASE i \in 1..n
    <3>1. ps[i] = asked[i] /\ ps[j] = asked[j]  BY <1>7, <2>2, <2>3
    <3>2. at[j] <= y  BY <1>4, <2>1, <2>2, <3>1
    <3>3. at[i] \in 1..L /\ asked[i] = order[at[i]]  BY <1>4, <2>3
    <3>4. y < at[i]  BY <2>1, <3>1, <3>3
    <3>5. at[j] \in Int /\ at[i] \in Int /\ y \in Int  BY <1>4, <2>1, <2>2, <2>3
    <3>6. at[j] < at[i]  BY <3>2, <3>4, <3>5
    <3> QED BY <1>4, <2>2, <2>3, <3>6
  <2>4. CASE \E q \in 1..m : i = n + q  BY <2>2, <2>4, <1>4, <1>5
  <2> QED BY <2>3, <2>4, <1>7
<1> QED BY <1>7, <1>11, <1>12, <1>13 DEF ps

-----------------------------------------------------------------------------
(* The request as written.                                                 *)

LEMMA WriteIs ==
  ASSUME FileInv, WriteRequest
  PROVE  LET f == Framed(Outgoing(input.request.headers))
         IN  /\ phase = "request" /\ UNCHANGED <<input, selected>>
             /\ wire'.fields = Fields(f)
             /\ input.request.path = "h2" => wire'.pseudo = PseudoHeaders
             /\ selected.order \in Seq(DOMAIN Lower) /\ selected.pseudo \in Seq(STRING)
             /\ Header(Outgoing(input.request.headers)) /\ Header(f)
<1>1. /\ phase = "request" /\ UNCHANGED <<input, selected>>
      /\ wire'.fields = Fields(Framed(Outgoing(input.request.headers)))
      /\ input.request.path = "h2" => wire'.pseudo = PseudoHeaders
  BY DEF WriteRequest
<1>2. selected.order \in Seq(DOMAIN Lower) /\ selected.pseudo \in Seq(STRING)
  BY <1>1, SelectedIs DEF FileInv
<1>3. Header(Outgoing(input.request.headers))  BY <1>1, OutgoingIs DEF FileInv
<1>4. Header(Framed(Outgoing(input.request.headers)))  BY <1>3, FramedIs
<1> QED BY <1>1, <1>2, <1>3, <1>4

LEMMA WrittenNothing == FileInv /\ WriteRequest => NothingOfTheClient'
<1> SUFFICES ASSUME FileInv, WriteRequest PROVE NothingOfTheClient'  OBVIOUS
<1> DEFINE f == Framed(Outgoing(input.request.headers))
<1>1. /\ phase = "request" /\ UNCHANGED <<input, selected>> /\ wire'.fields = Fields(f)
      /\ selected.order \in Seq(DOMAIN Lower) /\ Header(f)
  BY WriteIs
<1> SUFFICES ASSUME NEW i \in DOMAIN wire'.fields, wire'.fields[i].value = "client"
             PROVE  /\ wire'.fields[i].key \notin Withheld
                    /\ ~Rewritten(wire'.fields[i].key)
  BY <1>1 DEF NothingOfTheClient, Withheld, Rewritten, Named
<1> DEFINE k == Sorted(f)[i][1]
           j == Sorted(f)[i][2]
<1>2. f = Framed(Outgoing(input.request.headers))  OBVIOUS
<1> HIDE DEF f
<1>3. /\ Sorted(f)[i] \in Places(f) /\ Fields(f)[i].key = k /\ Fields(f)[i].value = f[k][j]
  BY <1>1, FieldsAre
<1>4. k \in DOMAIN f /\ j \in DOMAIN f[k]  BY <1>1, <1>3, PlacesAre
<1> HIDE DEF k, j
<1>5. f[k][j] = "client"  BY <1>1, <1>3
<1>6. k \notin Withheld /\ ~Rewritten(k)
  BY <1>1, <1>2, <1>4, <1>5, ClientsOwn DEF FileInv
<1> QED BY <1>1, <1>3, <1>6

\* What becomes of a header that is to be sent.
LEMMA KeyKept ==
  ASSUME FileInv, phase = "request", NEW k \in HeaderKeys \ Computed,
         Rewritten(k) \/ k \in DOMAIN input.request.headers \ Withheld,
         NEW f, f = Framed(Outgoing(input.request.headers))
  PROVE  /\ k \in DOMAIN f
         /\ f[k] = IF Rewritten(k) THEN <<"profile">> ELSE input.request.headers[k]
<1> DEFINE c == input.request.headers
           o == Outgoing(c)
<1>1. Inputs /\ SelectedOK /\ phase \in {"connect", "request", "sent"}  BY DEF FileInv
<1>2. /\ Header(o) /\ k \in DOMAIN o
      /\ \/ Rewritten(k) /\ o[k] = <<"profile">>
         \/ ~Rewritten(k) /\ o[k] = c[k]
  BY <1>1, OutgoingIs
<1> HIDE DEF o, c
<1>3. k \in DOMAIN f /\ f[k] = o[k]  BY <1>2, FramedIs DEF Computed, o, c
<1> QED BY <1>2, <1>3 DEF c

LEMMA WrittenAll == FileInv /\ WriteRequest => NothingLost'
<1> SUFFICES ASSUME FileInv, WriteRequest PROVE NothingLost'  OBVIOUS
<1> DEFINE f == Framed(Outgoing(input.request.headers))
<1>1. /\ phase = "request" /\ input' = input /\ selected' = selected
      /\ wire'.fields = Fields(f)
      /\ selected.order \in Seq(DOMAIN Lower) /\ Header(f)
  BY WriteIs
<1>2. f = Framed(Outgoing(input.request.headers))  OBVIOUS
<1> HIDE DEF f
<1> DEFINE sent(k) == {n \in DOMAIN wire'.fields : wire'.fields[n].key = k}
           values(k) == IF Rewritten(k) THEN <<"profile">> ELSE input.request.headers[k]
           due(k) == Rewritten(k) \/ k \in DOMAIN input.request.headers \ Withheld
<1>3. ASSUME NEW k \in HeaderKeys \ Computed, due(k)
      PROVE  \E at : Lists(wire'.fields, sent(k), values(k), at)
  <2>1. k \in DOMAIN f /\ f[k] = values(k)  BY <1>1, <1>2, <1>3, KeyKept
  <2>2. sent(k) = {p \in DOMAIN Fields(f) : Fields(f)[p].key = k}  BY <1>1
  <2> HIDE DEF sent, values
  <2>3. \E at : Lists(Fields(f), sent(k), f[k], at)  BY <1>1, <2>1, <2>2, SentOnce
  <2> QED BY <1>1, <2>1, <2>3
<1>4. \A k \in HeaderKeys \ Computed : due(k) =>
        \E at \in [DOMAIN values(k) -> sent(k)] :
        /\ sent(k) = {at[j] : j \in DOMAIN values(k)}
        /\ \A j \in DOMAIN values(k) : wire'.fields[at[j]].value = values(k)[j]
        /\ \A i, j \in DOMAIN values(k) : i < j => at[i] < at[j]
  <2> HIDE DEF sent, values, due
  <2> QED BY <1>3, Zenon DEF Lists
<1>5. /\ Withheld' = Withheld /\ Computed' = Computed
      /\ \A k : Rewritten(k)' = Rewritten(k)
  BY <1>1 DEF Withheld, Computed, Rewritten, Named
<1> SUFFICES ASSUME NEW k \in HeaderKeys \ Computed',
                    Rewritten(k)' \/ k \in DOMAIN input'.request.headers \ Withheld'
             PROVE  LET v == IF Rewritten(k)' THEN <<"profile">> ELSE input'.request.headers[k]
                    IN  \E at \in [DOMAIN v -> sent(k)] :
                          /\ sent(k) = {at[j] : j \in DOMAIN v}
                          /\ \A j \in DOMAIN v : wire'.fields[at[j]].value = v[j]
                          /\ \A i, j \in DOMAIN v : i < j => at[i] < at[j]
  BY Zenon DEF NothingLost, Computed
<1>6. k \in HeaderKeys \ Computed /\ due(k)  BY <1>1, <1>5
<1>7. (IF Rewritten(k)' THEN <<"profile">> ELSE input'.request.headers[k]) = values(k)
  BY <1>1, <1>5
<1> HIDE DEF sent, values, due
<1> DEFINE Found(v) ==
        \E at \in [DOMAIN v -> sent(k)] :
          /\ sent(k) = {at[j] : j \in DOMAIN v}
          /\ \A j \in DOMAIN v : wire'.fields[at[j]].value = v[j]
          /\ \A i, j \in DOMAIN v : i < j => at[i] < at[j]
<1>8. Found(values(k))  BY <1>4, <1>6, Zenon
<1> HIDE DEF Found
<1>9. Found(IF Rewritten(k)' THEN <<"profile">> ELSE input'.request.headers[k])
  BY <1>7, <1>8
<1> QED BY <1>9 DEF Found

LEMMA WrittenInOrder == FileInv /\ WriteRequest => HeadersInOrder'
<1> SUFFICES ASSUME FileInv, WriteRequest PROVE HeadersInOrder'  OBVIOUS
<1> DEFINE f == Framed(Outgoing(input.request.headers))
<1>1. /\ UNCHANGED <<input, selected>> /\ wire'.fields = Fields(f)
      /\ selected.order \in Seq(DOMAIN Lower) /\ Header(f)
  BY WriteIs
<1> HIDE DEF f
<1>2. ASSUME NEW i \in DOMAIN Fields(f), NEW j \in 1..(i - 1)
      PROVE  LET k == Fields(f)[i].key
                 l == Fields(f)[j].key
             IN  \/ k = l
                 \/ Ranks(k) = {} /\ Ranks(l) # {}
                 \/ \E n \in Ranks(k) : \A m \in Ranks(l) : m < n
                 \/ Ranks(k) = {} /\ Ranks(l) = {} /\ Alphabet[l] < Alphabet[k]
  BY <1>1, KeysInOrder, Zenon
<1> QED BY <1>1, <1>2 DEF HeadersInOrder, Ranks

LEMMA WrittenOnce == FileInv /\ WriteRequest => PseudoHeadersOnce'
<1> SUFFICES ASSUME FileInv, WriteRequest, input'.request.path = "h2"
             PROVE  /\ ToSet(wire'.pseudo) = Valued' /\ Len(wire'.pseudo) = Cardinality(Valued')
                    /\ \A i, j \in DOMAIN wire'.pseudo :
                          LET firstAt(n) == {x \in DOMAIN selected'.pseudo : selected'.pseudo[x] = n}
                          IN  (\E y \in firstAt(wire'.pseudo[j]) :
                                  \A x \in firstAt(wire'.pseudo[i]) : y < x) => j < i
  BY DEF PseudoHeadersOnce
<1>1. /\ UNCHANGED <<input, selected>> /\ wire'.pseudo = PseudoHeaders
      /\ selected.pseudo \in Seq(STRING)
  BY WriteIs
<1>2. Valued' = Valued  BY <1>1 DEF Valued
<1> DEFINE ps == PseudoHeaders
           names == selected.pseudo
<1>3. /\ ToSet(ps) = Valued /\ Len(ps) = Cardinality(Valued)
      /\ \A i, j \in DOMAIN ps : \A y \in DOMAIN names :
            (names[y] = ps[j] /\ \A x \in DOMAIN names : names[x] = ps[i] => y < x) => j < i
  BY <1>1, PseudoIs
<1>4. wire'.pseudo = ps /\ selected'.pseudo = names  BY <1>1
<1> HIDE DEF ps, names
<1> QED BY <1>2, <1>3, <1>4

SentOK == HeadersExact /\ WireInOrder

LEMMA SentInductive == Spec => []SentOK
<1>1. Init => SentOK
  BY DEF Init, SentOK, HeadersExact, WireInOrder, NothingOfTheClient, NothingLost,
         HeadersInOrder, PseudoHeadersOnce
<1>2. FileInv /\ SentOK /\ [Next]_vars => SentOK'
  <2> SUFFICES ASSUME FileInv, SentOK, [Next]_vars PROVE SentOK'  OBVIOUS
  <2>1. CASE WriteRequest
    BY <2>1, WrittenNothing, WrittenAll, WrittenInOrder, WrittenOnce
    DEF SentOK, HeadersExact, WireInOrder
  <2>2. CASE LoadFile \/ Loaded \/ Select \/ Connect
    <3>1. phase' # "sent"  BY <2>2 DEF LoadFile, Loaded, Select, Connect, Error
    <3> QED BY <3>1 DEF SentOK, HeadersExact, WireInOrder, NothingOfTheClient, NothingLost,
                        HeadersInOrder, PseudoHeadersOnce
  <2>3. CASE UNCHANGED vars
    <3>1. NothingOfTheClient' /\ NothingLost'
      BY <2>3 DEF vars, SentOK, HeadersExact, NothingOfTheClient, NothingLost, Withheld,
                  Rewritten, Named
    <3>2. HeadersInOrder'  BY <2>3 DEF vars, SentOK, WireInOrder, HeadersInOrder
    <3>3. PseudoHeadersOnce'  BY <2>3 DEF vars, SentOK, WireInOrder, PseudoHeadersOnce, Valued
    <3> QED BY <3>1, <3>2, <3>3 DEF SentOK, HeadersExact, WireInOrder
  <2> QED BY <2>1, <2>2, <2>3 DEF Next, Done
<1> QED BY <1>1, <1>2, FileInductive, PTL DEF Spec

(* For any request and any profile, however that spells its names, the     *)
(* server is sent every header of the client but those that are to be      *)
(* withheld, with its values or, where the profile rewrites it, the        *)
(* profile's, every header of the profile, and nothing else that is the    *)
(* client's.  A WebSocket upgrade keeps the client's connection-scoped     *)
(* headers but the proxy's own, and is given only the User-Agent           *)
(* (mitm.go, lines 28-29 and 166-171; profile.go, lines 147-148;           *)
(* h2client_response.go, lines 155-191).                                   *)
THEOREM HeadersAreExact == Spec => []HeadersExact
<1>1. SentOK => HeadersExact  BY DEF SentOK
<1> QED BY <1>1, SentInductive, PTL

(* The sort puts headers in the profile's order whatever names the profile *)
(* repeats, omits or spells otherwise, and every pseudo-header with a      *)
(* value goes out once (profile.go, lines 158-190; h2client_response.go,   *)
(* lines 133-153).                                                         *)
THEOREM WireKeepsOrder == Spec => []WireInOrder
<1>1. SentOK => WireInOrder  BY DEF SentOK
<1> QED BY <1>1, SentInductive, PTL
=============================================================================
