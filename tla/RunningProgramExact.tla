------------------------- MODULE RunningProgramExact -------------------------
(***************************************************************************)
(* No update is lost, duplicated or left behind between the relations and  *)
(* the dataflow, for any number of workers, relations, values and updates  *)
(* and any size of a chunk: splitting the updates of a call into chunks,   *)
(* dealing the chunks to the workers and feeding them to the sessions      *)
(* keeps the weight of every value.                                        *)
(*                                                                         *)
(* From this it follows that RunningProgram implements TransactionalDB:    *)
(* as long as no batch has been aborted after some of its changes, each    *)
(* step of the program is a step of the abstract database, or none.        *)
(***************************************************************************)
EXTENDS RunningProgramProofs, RunningProgramDB, FunctionTheorems

-----------------------------------------------------------------------------
(* Arithmetic *)

\* A number has one quotient and one remainder (counted from 1).
LEMMA SameDigits ==
    ASSUME NEW n \in Nat \ {0}, NEW a \in Nat, NEW b \in Nat, NEW x \in 1 .. n, NEW y \in 1 .. n,
           a * n + x = b * n + y
    PROVE  a = b /\ x = y
  <1>1. ASSUME NEW p \in Nat, NEW q \in Nat, p < q
        PROVE  p * n + n <= q * n
    <2>1. PICK d \in Nat : q = p + 1 + d
      <3>1. q - p - 1 \in Nat /\ q = p + 1 + (q - p - 1)
        BY <1>1
      <3> QED  BY <3>1
    <2>2. q * n = p * n + n + d * n
      BY <2>1
    <2>3. d * n \in Nat /\ p * n \in Nat
      OBVIOUS
    <2> QED  BY <2>2, <2>3
  <1>2. ~(a < b)
    <2> SUFFICES ASSUME a < b
                 PROVE  FALSE
      OBVIOUS
    <2>1. a * n + n <= b * n /\ a * n \in Nat /\ b * n \in Nat
      BY <1>1
    <2> QED  BY <2>1
  <1>3. ~(b < a)
    <2> SUFFICES ASSUME b < a
                 PROVE  FALSE
      OBVIOUS
    <2>1. b * n + n <= a * n /\ a * n \in Nat /\ b * n \in Nat
      BY <1>1
    <2> QED  BY <2>1
  <1>4. a = b
    BY <1>2, <1>3
  <1>5. a * n \in Nat
    OBVIOUS
  <1> QED  BY <1>4, <1>5

\* Every number has a quotient and a remainder (counted from 1).
LEMMA Digits ==
    ASSUME NEW n \in Nat \ {0}, NEW x \in Nat \ {0}
    PROVE  /\ (x - 1) \div n \in Nat
           /\ \E y \in 1 .. n : x = ((x - 1) \div n) * n + y
  <1>1. x - 1 \in Nat
    OBVIOUS
  <1> DEFINE q == (x - 1) \div n
  <1>2. q \in Nat /\ q * n <= x - 1 /\ x - 1 < (q + 1) * n
    BY <1>1
  <1> HIDE DEF q
  <1>3. (q + 1) * n = q * n + n /\ q * n \in Nat
    BY <1>2
  <1>4. x - q * n \in 1 .. n /\ x = q * n + (x - q * n)
    BY <1>2, <1>3
  <1> QED  BY <1>2, <1>4 DEF q

\* Larger quotients make larger numbers.
LEMMA DigitsMonotonic ==
    ASSUME NEW n \in Nat \ {0}, NEW a \in Nat, NEW m \in Nat, a * n < m * n
    PROVE  a < m
  <1> SUFFICES ASSUME m <= a
               PROVE  FALSE
    OBVIOUS
  <1>1. PICK d \in Nat : a = m + d
    <2>1. a - m \in Nat /\ a = m + (a - m)
      OBVIOUS
    <2> QED  BY <2>1
  <1>2. a * n = m * n + d * n /\ d * n \in Nat /\ m * n \in Nat
    BY <1>1
  <1> QED  BY <1>2

\* The remainder of a division is less than the divisor.
LEMMA Remainder ==
    ASSUME NEW m \in Nat, NEW n \in Nat \ {0}
    PROVE  m \div n \in Nat /\ (m \div n) * n <= m /\ m < ((m \div n) + 1) * n
  OBVIOUS

-----------------------------------------------------------------------------
(* Counting *)

\* Where c occurs in a sequence.
Occ(s, c) == {i \in DOMAIN s : s[i] = c}

\* f matches the elements of S and T one to one.
Matches(f, S, T) ==
    /\ f \in [S -> T]
    /\ \A a, b \in S : f[a] = f[b] => a = b
    /\ \A t \in T : \E s \in S : f[s] = t

\* Sets matched one to one have as many elements.
LEMMA Matching ==
    ASSUME NEW S, NEW T, NEW f, Matches(f, S, T), IsFiniteSet(S) \/ IsFiniteSet(T)
    PROVE  IsFiniteSet(S) /\ IsFiniteSet(T) /\ Cardinality(S) = Cardinality(T)
  <1>1. f \in Bijection(S, T)
    BY Fun_IsBij DEF Matches
  <1>2. ExistsBijection(S, T)
    BY <1>1, Fun_ExistsBij
  <1>3. ExistsBijection(T, S)
    BY <1>2, Fun_ExistsBijSymmetric
  <1> QED  BY <1>2, <1>3, FS_Bijection

\* Two sets without a common element.
LEMMA Disjoint ==
    ASSUME NEW S, NEW T, IsFiniteSet(S), IsFiniteSet(T), S \cap T = {}
    PROVE  IsFiniteSet(S \cup T) /\ Cardinality(S \cup T) = Cardinality(S) + Cardinality(T)
  <1>1. Cardinality(S \cap T) = 0
    BY FS_EmptySet
  <1> QED  BY <1>1, FS_Union, FS_CardinalityType

\* The occurrences in a sequence can be counted.
LEMMA OccFinite ==
    ASSUME NEW R, NEW s \in Seq(R), NEW c
    PROVE  IsFiniteSet(Occ(s, c)) /\ Cardinality(Occ(s, c)) \in Nat
  <1>1. IsFiniteSet(DOMAIN s)
    BY FS_Interval
  <1>2. Occ(s, c) \subseteq DOMAIN s
    BY DEF Occ
  <1> QED  BY <1>1, <1>2, FS_Subset, FS_CardinalityType

\* Occurrences in a concatenation.
LEMMA OccConcat ==
    ASSUME NEW R, NEW s \in Seq(R), NEW t \in Seq(R), NEW c
    PROVE  Cardinality(Occ(s \o t, c)) = Cardinality(Occ(s, c)) + Cardinality(Occ(t, c))
  <1> DEFINE moved == {i \in DOMAIN (s \o t) : i > Len(s) /\ (s \o t)[i] = c}
             f == [i \in Occ(t, c) |-> Len(s) + i]
  <1>1. /\ Len(s) \in Nat /\ Len(t) \in Nat /\ Len(s \o t) = Len(s) + Len(t)
        /\ DOMAIN s = 1 .. Len(s) /\ DOMAIN t = 1 .. Len(t) /\ DOMAIN (s \o t) = 1 .. Len(s \o t)
        /\ \A i \in 1 .. Len(s) + Len(t) :
              (s \o t)[i] = IF i <= Len(s) THEN s[i] ELSE t[i - Len(s)]
    BY ConcatProperties
  <1>2. \A i \in 1 .. Len(t) : (s \o t)[Len(s) + i] = t[i]
    <2> SUFFICES ASSUME NEW i \in 1 .. Len(t)
                 PROVE  (s \o t)[Len(s) + i] = t[i]
      OBVIOUS
    <2>1. Len(s) + i \in 1 .. Len(s) + Len(t) /\ ~(Len(s) + i <= Len(s)) /\ (Len(s) + i) - Len(s) = i
      BY <1>1
    <2> QED  BY <1>1, <2>1
  <1>3. f \in [Occ(t, c) -> moved]
    BY <1>1, <1>2 DEF Occ
  <1>4. \A i, j \in Occ(t, c) : f[i] = f[j] => i = j
    BY <1>1 DEF Occ
  <1>5. ASSUME NEW i \in moved
        PROVE  \E j \in Occ(t, c) : f[j] = i
    <2>1. i - Len(s) \in 1 .. Len(t) /\ Len(s) + (i - Len(s)) = i
      BY <1>1, <1>5
    <2>2. i - Len(s) \in Occ(t, c)
      BY <1>1, <1>2, <1>5, <2>1 DEF Occ
    <2> QED  BY <2>1, <2>2
  <1>6. IsFiniteSet(Occ(s, c)) /\ IsFiniteSet(Occ(t, c))
    BY OccFinite
  <1>7. Occ(s \o t, c) = Occ(s, c) \cup moved /\ Occ(s, c) \cap moved = {}
    BY <1>1 DEF Occ
  <1> HIDE DEF f, moved
  <1>8. IsFiniteSet(moved) /\ Cardinality(moved) = Cardinality(Occ(t, c))
    <2>1. Matches(f, Occ(t, c), moved)
      BY <1>3, <1>4, <1>5 DEF Matches
    <2> QED  BY <1>6, <2>1, Matching
  <1> QED  BY <1>6, <1>7, <1>8, Disjoint

-----------------------------------------------------------------------------
(* Chunks *)

\* Chunks(changes) cuts the changes into pieces of one size, of which the last may be shorter.
LEMMA ChunkShape ==
    ASSUME NEW changes \in Seq(RelChange)
    PROVE  \E size \in Nat \ {0} :
              /\ \A k \in 1 .. Len(Chunks(changes)) :
                    /\ DOMAIN Chunks(changes)[k]
                          = {j \in 1 .. size : (k - 1) * size + j <= Len(changes)}
                    /\ \A j \in DOMAIN Chunks(changes)[k] :
                          Chunks(changes)[k][j] = changes[(k - 1) * size + j]
              /\ \A n \in 1 .. Len(changes) :
                    ((n - 1) \div size) + 1 \in 1 .. Len(Chunks(changes))
  <1> DEFINE L == Len(changes)
             q == L \div N
             size == IF q > ChunkMin THEN q ELSE ChunkMin
             count == (L + size - 1) \div size
             upto(n) == IF n < L THEN n ELSE L
  <1>1. L \in Nat /\ q \in Nat /\ size \in Nat \ {0}
    BY ProgramAssumption
  <1>2. Chunks(changes) = [k \in 1 .. count |-> SubSeq(changes, (k - 1) * size + 1, upto(k * size))]
    BY DEF Chunks
  <1> HIDE DEF q, size
  <1>3. count \in Nat /\ count * size <= L + size - 1 /\ L + size - 1 < (count + 1) * size
    <2>1. L + size - 1 \in Nat
      BY <1>1
    <2> QED  BY <1>1, <2>1
  <1> HIDE DEF count
  <1>4. Len(Chunks(changes)) = count
    BY <1>2, <1>3
  <1>5. ASSUME NEW k \in 1 .. count
        PROVE  /\ DOMAIN Chunks(changes)[k] = {j \in 1 .. size : (k - 1) * size + j <= L}
               /\ \A j \in DOMAIN Chunks(changes)[k] :
                     Chunks(changes)[k][j] = changes[(k - 1) * size + j]
    <2> DEFINE m == (k - 1) * size + 1
               n == upto(k * size)
    <2>1. (k - 1) * size \in Nat /\ k * size \in Nat /\ k * size = (k - 1) * size + size
      BY <1>1, <1>3
    <2>2. k * size <= count * size
      BY <1>1, <1>3, Product
    <2>3. count * size \in Nat
      BY <1>1, <1>3
    <2>4. m \in 1 .. L /\ n \in m - 1 .. L
      BY <1>1, <1>3, <2>1, <2>2, <2>3
    <2>5. Chunks(changes)[k] = SubSeq(changes, m, n)
      BY <1>2
    <2>6. /\ Len(SubSeq(changes, m, n)) = n - m + 1
          /\ DOMAIN SubSeq(changes, m, n) = 1 .. (n - m + 1)
          /\ \A j \in 1 .. n - m + 1 : SubSeq(changes, m, n)[j] = changes[m + j - 1]
      <3> HIDE DEF m, n
      <3>1. m \in 1 .. Len(changes) + 1 /\ n \in m - 1 .. Len(changes)
        BY <1>1, <2>4
      <3>2. SubSeq(changes, m, n) \in Seq(RelChange)
        BY <3>1
      <3> QED  BY <3>1, <3>2, SubSeqProperties
    <2>7. 1 .. (n - m + 1) = {j \in 1 .. size : (k - 1) * size + j <= L}
      <3> DEFINE b == (k - 1) * size
      <3>1. b \in Nat /\ m = b + 1 /\ n = (IF b + size < L THEN b + size ELSE L) /\ b < L
        BY <1>1, <2>1, <2>4
      <3> HIDE DEF b, m, n
      <3>2. 1 .. (n - m + 1) = {j \in 1 .. size : b + j <= L}
        BY <1>1, <3>1
      <3> QED  BY <3>2 DEF b
    <2>8. \A j \in 1 .. n - m + 1 : m + j - 1 = (k - 1) * size + j
      BY <1>1, <2>1, <2>4
    <2> HIDE DEF m, n
    <2> QED  BY <2>5, <2>6, <2>7, <2>8
  <1>6. ASSUME NEW n \in 1 .. L
        PROVE  ((n - 1) \div size) + 1 \in 1 .. count
    <2> DEFINE d == (n - 1) \div size
    <2>1. d \in Nat /\ d * size <= n - 1
      <3>1. n - 1 \in Nat
        BY <1>1
      <3> QED  BY <1>1, <3>1
    <2> HIDE DEF d
    <2>2. (d + 1) * size = d * size + size /\ d * size \in Nat
      BY <1>1, <2>1
    <2>3. (count + 1) * size \in Nat
      BY <1>1, <1>3
    <2>4. (d + 1) * size < (count + 1) * size
      BY <1>1, <1>3, <2>1, <2>2, <2>3
    <2>5. d + 1 < count + 1
      BY <1>1, <1>3, <2>1, <2>4, DigitsMonotonic
    <2> QED  BY <1>3, <2>1, <2>5 DEF d
  <1> QED  BY <1>1, <1>4, <1>5, <1>6

\* Where c is in a sequence of chunks: the chunk, and the place in it.
ChunkPlaces(chunks, c) ==
    {p \in (1 .. Len(chunks)) \X Nat : p[2] \in DOMAIN chunks[p[1]] /\ chunks[p[1]][p[2]] = c}

\* Every occurrence of a change is in one chunk, and nothing else is.
LEMMA ChunkedOnce ==
    ASSUME NEW changes \in Seq(RelChange), NEW c
    PROVE  /\ IsFiniteSet(ChunkPlaces(Chunks(changes), c))
           /\ Cardinality(ChunkPlaces(Chunks(changes), c)) = Cardinality(Occ(changes, c))
  <1> DEFINE chunks == Chunks(changes)
             S == ChunkPlaces(chunks, c)
             T == Occ(changes, c)
  <1>1. PICK size \in Nat \ {0} :
              /\ \A k \in 1 .. Len(chunks) :
                    /\ DOMAIN chunks[k] = {j \in 1 .. size : (k - 1) * size + j <= Len(changes)}
                    /\ \A j \in DOMAIN chunks[k] : chunks[k][j] = changes[(k - 1) * size + j]
              /\ \A n \in 1 .. Len(changes) : ((n - 1) \div size) + 1 \in 1 .. Len(chunks)
    BY ChunkShape
  <1> DEFINE f == [p \in S |-> (p[1] - 1) * size + p[2]]
  <1>2. Len(chunks) \in Nat /\ Len(changes) \in Nat
    BY ChunksType
  <1> HIDE DEF chunks
  <1>3. ASSUME NEW p \in S
        PROVE  /\ p = <<p[1], p[2]>>
               /\ p[1] - 1 \in Nat /\ p[2] \in 1 .. size
               /\ f[p] = (p[1] - 1) * size + p[2]
               /\ f[p] \in T
    <2>1. p[1] \in 1 .. Len(chunks) /\ p[2] \in DOMAIN chunks[p[1]] /\ chunks[p[1]][p[2]] = c
          /\ p = <<p[1], p[2]>>
      BY DEF ChunkPlaces
    <2>2. /\ p[2] \in 1 .. size
          /\ (p[1] - 1) * size + p[2] <= Len(changes)
          /\ changes[(p[1] - 1) * size + p[2]] = c
      BY <1>1, <2>1
    <2>3. (p[1] - 1) * size \in Nat
      BY <1>2, <2>1
    <2>4. (p[1] - 1) * size + p[2] \in DOMAIN changes
      BY <1>2, <2>2, <2>3
    <2> QED  BY <1>2, <2>1, <2>2, <2>4 DEF Occ
  <1>4. f \in [S -> T]
    BY <1>3
  <1>5. ASSUME NEW a \in S, NEW b \in S, f[a] = f[b]
        PROVE  a = b
    <2>1. (a[1] - 1) * size + a[2] = (b[1] - 1) * size + b[2]
      BY <1>3, <1>5
    <2>2. a[1] - 1 = b[1] - 1 /\ a[2] = b[2]
      BY <1>3, <2>1, SameDigits
    <2>3. a[1] \in Nat /\ b[1] \in Nat
      BY DEF ChunkPlaces
    <2> QED  BY <1>3, <2>2, <2>3
  <1>6. ASSUME NEW n \in T
        PROVE  \E p \in S : f[p] = n
    <2>1. n \in 1 .. Len(changes) /\ changes[n] = c
      BY DEF Occ
    <2> DEFINE k == ((n - 1) \div size) + 1
    <2>2. k \in 1 .. Len(chunks)
      BY <1>1, <2>1
    <2>3. PICK j \in 1 .. size : n = (k - 1) * size + j
      <3>1. n \in Nat \ {0}
        BY <1>2, <2>1
      <3>2. PICK j \in 1 .. size : n = ((n - 1) \div size) * size + j
        BY <3>1, Digits
      <3>3. (n - 1) \div size \in Nat
        BY <3>1, Digits
      <3>4. k - 1 = (n - 1) \div size
        BY <3>3
      <3> QED  BY <3>2, <3>4
    <2> HIDE DEF k
    <2>4. j \in DOMAIN chunks[k] /\ chunks[k][j] = c
      <3>1. (k - 1) * size + j <= Len(changes) /\ changes[(k - 1) * size + j] = c
        BY <1>2, <2>1, <2>3
      <3>2. DOMAIN chunks[k] = {i \in 1 .. size : (k - 1) * size + i <= Len(changes)}
        BY <1>1, <2>2
      <3>3. j \in DOMAIN chunks[k]
        BY <3>1, <3>2
      <3> QED  BY <1>1, <2>2, <3>1, <3>3
    <2>5. <<k, j>> \in S
      BY <1>2, <2>2, <2>4 DEF ChunkPlaces
    <2>6. f[<<k, j>>] = n
      BY <2>3, <2>5
    <2> QED  BY <2>5, <2>6
  <1>7. IsFiniteSet(T)
    BY OccFinite
  <1> HIDE DEF f, S, T
  <1>8. IsFiniteSet(S) /\ Cardinality(S) = Cardinality(T)
    <2>1. Matches(f, S, T)
      BY <1>4, <1>5, <1>6 DEF Matches
    <2> QED  BY <1>7, <2>1, Matching
  <1> QED  BY <1>8 DEF S, T, chunks

-----------------------------------------------------------------------------
(* Dealing *)

\* The first chunk of a deal that worker w gets.
First(w) == ((w - worker_round_robbin + N) % N) + 1

\* The first N chunks go to N different workers.
LEMMA FirstRound ==
    ASSUME worker_round_robbin \in Worker
    PROVE  /\ \A w \in Worker : First(w) \in 1 .. N
           /\ \A w, x \in Worker : First(w) = First(x) => w = x
           /\ \A y \in 1 .. N : \E w \in Worker : First(w) = y
  <1> DEFINE s == worker_round_robbin
  <1>1. N \in Nat \ {0} /\ s \in 0 .. N - 1 /\ Worker = 0 .. N - 1
    BY ProgramAssumption DEF Worker
  <1>2. \A d \in 0 .. N - 1 : d % N = d /\ (d + N) % N = d
    BY <1>1
  <1>3. ASSUME NEW w \in Worker
        PROVE  First(w) = IF w >= s THEN w - s + 1 ELSE w - s + N + 1
    <2>1. CASE w >= s
      <3>1. w - s \in 0 .. N - 1
        BY <1>1, <2>1
      <3>2. (w - s + N) % N = w - s
        BY <1>2, <3>1
      <3> QED  BY <2>1, <3>2 DEF First
    <2>2. CASE w < s
      <3>1. w - s + N \in 0 .. N - 1 /\ ~(w >= s)
        BY <1>1, <2>2
      <3>2. (w - s + N) % N = w - s + N
        BY <1>2, <3>1
      <3> QED  BY <3>1, <3>2 DEF First
    <2> QED  BY <1>1, <2>1, <2>2
  <1> HIDE DEF s
  <1>4. \A w \in Worker : First(w) \in 1 .. N
    BY <1>1, <1>3
  <1>5. \A w, x \in Worker : First(w) = First(x) => w = x
    BY <1>1, <1>3
  <1>6. ASSUME NEW y \in 1 .. N
        PROVE  \E w \in Worker : First(w) = y
    <2> DEFINE w == IF s + y - 1 < N THEN s + y - 1 ELSE s + y - 1 - N
    <2>1. w \in Worker
      BY <1>1
    <2>2. First(w) = IF w >= s THEN w - s + 1 ELSE w - s + N + 1
      BY <1>3, <2>1
    <2>3. First(w) = y
      BY <1>1, <2>2
    <2> QED  BY <2>1, <2>3
  <1> QED  BY <1>4, <1>5, <1>6

\* Worker w gets every Nth chunk from its first one on.
LEMMA DealShape ==
    ASSUME NEW chunks \in Seq(Seq(RelChange)), worker_round_robbin \in Worker, NEW w \in Worker
    PROVE  /\ DOMAIN Deal(chunks)[w]
                 = {i \in Nat \ {0} : First(w) + (i - 1) * N \in 1 .. Len(chunks)}
           /\ \A i \in DOMAIN Deal(chunks)[w] :
                 Deal(chunks)[w][i] = [type |-> "Update", updates |-> chunks[First(w) + (i - 1) * N],
                                       timestamp |-> timestamp]
  <1> DEFINE L == Len(chunks)
             d == (L - First(w)) \div N
             count == IF First(w) > L THEN 0 ELSE d + 1
  <1>1. First(w) \in 1 .. N /\ L \in Nat /\ N \in Nat \ {0}
    BY FirstRound, ProgramAssumption
  <1>2. Deal(chunks)[w] = [i \in 1 .. count |->
              [type |-> "Update", updates |-> chunks[First(w) + (i - 1) * N], timestamp |-> timestamp]]
    BY DEF Deal, First
  <1>3. First(w) <= L => d \in Nat /\ d * N <= L - First(w) /\ L - First(w) < (d + 1) * N
    <2> DEFINE e == L - First(w)
    <2>1. First(w) <= L => e \in Nat
      BY <1>1
    <2> HIDE DEF e
    <2>2. e \in Nat => e \div N \in Nat /\ (e \div N) * N <= e /\ e < ((e \div N) + 1) * N
      BY <1>1, Remainder
    <2> QED  BY <2>1, <2>2 DEF e
  <1>4. DOMAIN Deal(chunks)[w] = 1 .. count
    BY <1>2
  <1> HIDE DEF d
  <1>5. ASSUME NEW i \in 1 .. count
        PROVE  First(w) + (i - 1) * N \in 1 .. L
    <2>1. First(w) <= L /\ i - 1 \in 0 .. d
      BY <1>1, <1>3
    <2>2. (i - 1) * N \in 0 .. d * N
      BY <1>1, <1>3, <2>1, Product
    <2>3. d * N \in Nat
      BY <1>1, <1>3, <2>1
    <2> QED  BY <1>1, <1>3, <2>1, <2>2, <2>3
  <1>6. ASSUME NEW i \in Nat \ {0}, First(w) + (i - 1) * N \in 1 .. L
        PROVE  i \in 1 .. count
    <2>1. i - 1 \in Nat /\ (i - 1) * N \in Nat
      BY <1>1
    <2>2. First(w) <= L
      BY <1>1, <1>6, <2>1
    <2>3. (d + 1) * N \in Nat
      BY <1>1, <1>3, <2>2
    <2>4. (i - 1) * N < (d + 1) * N
      BY <1>1, <1>3, <1>6, <2>1, <2>2, <2>3
    <2>5. i - 1 < d + 1
      BY <1>1, <1>3, <2>1, <2>2, <2>4, DigitsMonotonic
    <2> QED  BY <1>1, <1>3, <2>2, <2>5
  <1>7. count \in Nat
    BY <1>1, <1>3
  <1> HIDE DEF count
  <1>8. 1 .. count = {i \in Nat \ {0} : First(w) + (i - 1) * N \in 1 .. L}
    BY <1>5, <1>6, <1>7
  <1> QED  BY <1>2, <1>4, <1>8

\* No chunk is dealt twice.
LEMMA DealDistinct ==
    ASSUME worker_round_robbin \in Worker, NEW w \in Worker, NEW x \in Worker,
           NEW i \in Nat \ {0}, NEW j \in Nat \ {0},
           First(w) + (i - 1) * N = First(x) + (j - 1) * N
    PROVE  w = x /\ i = j
  <1>1. First(w) \in 1 .. N /\ First(x) \in 1 .. N /\ N \in Nat \ {0}
    BY FirstRound, ProgramAssumption
  <1>2. i - 1 \in Nat /\ j - 1 \in Nat
    OBVIOUS
  <1>3. (i - 1) * N \in Nat /\ (j - 1) * N \in Nat
    BY <1>1, <1>2
  <1>4. (i - 1) * N + First(w) = (j - 1) * N + First(x)
    BY <1>1, <1>3
  <1>5. i - 1 = j - 1 /\ First(w) = First(x)
    BY <1>1, <1>2, <1>4, SameDigits
  <1> QED  BY <1>5, FirstRound

\* Message i of a queue is a chunk with c at place j.
At(q, i, j, c) ==
    /\ i \in DOMAIN q
    /\ q[i].type = "Update"
    /\ j \in DOMAIN q[i].updates
    /\ q[i].updates[j] = c

\* Where c is queued, as a set of triples.
Places(reqs, c) == {p \in Worker \X Nat \X Nat : At(reqs[p[1]], p[2], p[3], c)}

\* Every chunk is dealt to one worker, and nothing else is.
LEMMA DealtOnce ==
    ASSUME NEW chunks \in Seq(Seq(RelChange)), worker_round_robbin \in Worker, NEW c,
           IsFiniteSet(ChunkPlaces(chunks, c))
    PROVE  /\ IsFiniteSet(Places(Deal(chunks), c))
           /\ Cardinality(Places(Deal(chunks), c)) = Cardinality(ChunkPlaces(chunks, c))
  <1> DEFINE S == Places(Deal(chunks), c)
             T == ChunkPlaces(chunks, c)
             f == [p \in S |-> <<First(p[1]) + (p[2] - 1) * N, p[3]>>]
  <1>1. N \in Nat \ {0} /\ Len(chunks) \in Nat
    BY ProgramAssumption
  <1>2. ASSUME NEW p \in S
        PROVE  /\ p = <<p[1], p[2], p[3]>>
               /\ p[1] \in Worker /\ p[2] \in Nat \ {0} /\ p[2] - 1 \in Nat /\ p[3] \in Nat
               /\ First(p[1]) \in 1 .. N
               /\ f[p] = <<First(p[1]) + (p[2] - 1) * N, p[3]>>
               /\ f[p] \in T
    <2>1. /\ p = <<p[1], p[2], p[3]>> /\ p[1] \in Worker /\ p[3] \in Nat
          /\ p[2] \in DOMAIN Deal(chunks)[p[1]]
          /\ p[3] \in DOMAIN Deal(chunks)[p[1]][p[2]].updates
          /\ Deal(chunks)[p[1]][p[2]].updates[p[3]] = c
      BY DEF Places, At
    <2> DEFINE k == First(p[1]) + (p[2] - 1) * N
    <2>2. p[2] \in Nat \ {0} /\ k \in 1 .. Len(chunks)
      BY <2>1, DealShape
    <2>3. Deal(chunks)[p[1]][p[2]].updates = chunks[k]
      <3>1. Deal(chunks)[p[1]][p[2]]
               = [type |-> "Update", updates |-> chunks[k], timestamp |-> timestamp]
        BY <2>1, DealShape
      <3> HIDE DEF k
      <3> QED  BY <3>1
    <2>4. First(p[1]) \in 1 .. N
      BY <2>1, FirstRound
    <2>5. f[p] = <<k, p[3]>>
      OBVIOUS
    <2> HIDE DEF k, f
    <2>6. <<k, p[3]>> \in T
      BY <2>1, <2>2, <2>3 DEF ChunkPlaces
    <2> QED  BY <2>1, <2>2, <2>4, <2>5, <2>6 DEF k
  <1>3. f \in [S -> T]
    BY <1>2
  <1>4. ASSUME NEW a \in S, NEW b \in S, f[a] = f[b]
        PROVE  a = b
    <2>1. PICK w \in Worker, i \in Nat \ {0}, j \in Nat :
             a = <<w, i, j>> /\ f[a] = <<First(w) + (i - 1) * N, j>>
      BY <1>2
    <2>2. PICK x \in Worker, k \in Nat \ {0}, l \in Nat :
             b = <<x, k, l>> /\ f[b] = <<First(x) + (k - 1) * N, l>>
      BY <1>2
    <2> HIDE DEF f, S, T
    <2>3. First(w) + (i - 1) * N = First(x) + (k - 1) * N /\ j = l
      BY <1>4, <2>1, <2>2
    <2>4. w = x /\ i = k
      BY <2>3, DealDistinct
    <2> QED  BY <2>1, <2>2, <2>3, <2>4
  <1>5. ASSUME NEW t \in T
        PROVE  \E p \in S : f[p] = t
    <2>1. /\ t = <<t[1], t[2]>> /\ t[1] \in 1 .. Len(chunks) /\ t[2] \in Nat
          /\ t[2] \in DOMAIN chunks[t[1]] /\ chunks[t[1]][t[2]] = c
      BY DEF ChunkPlaces
    <2> DEFINE q == (t[1] - 1) \div N
    <2>2. q \in Nat /\ \E y \in 1 .. N : t[1] = q * N + y
      <3>1. t[1] \in Nat \ {0}
        BY <1>1, <2>1
      <3> QED  BY <1>1, <3>1, Digits
    <2> HIDE DEF q
    <2>3. PICK w \in Worker : t[1] = q * N + First(w)
      BY <2>2, FirstRound
    <2>4. First(w) + ((q + 1) - 1) * N = t[1] /\ q + 1 \in Nat \ {0}
      <3>1. First(w) \in Int /\ q * N \in Int
        BY <1>1, <2>2, FirstRound
      <3>2. (q + 1) - 1 = q
        BY <2>2
      <3> QED  BY <2>2, <2>3, <3>1, <3>2
    <2>5. q + 1 \in DOMAIN Deal(chunks)[w]
      BY <2>1, <2>4, DealShape
    <2>6. Deal(chunks)[w][q + 1]
             = [type |-> "Update", updates |-> chunks[t[1]], timestamp |-> timestamp]
      BY <2>4, <2>5, DealShape
    <2>7. <<w, q + 1, t[2]>> \in S
      BY <2>1, <2>4, <2>5, <2>6 DEF Places, At
    <2>8. f[<<w, q + 1, t[2]>>] = t
      BY <2>1, <2>4, <2>7
    <2> QED  BY <2>7, <2>8
  <1>6. IsFiniteSet(T)
    OBVIOUS
  <1> HIDE DEF f, S, T
  <1>7. IsFiniteSet(S) /\ Cardinality(S) = Cardinality(T)
    <2>1. Matches(f, S, T)
      BY <1>3, <1>4, <1>5 DEF Matches
    <2> QED  BY <1>6, <2>1, Matching
  <1> QED  BY <1>7 DEF S, T

-----------------------------------------------------------------------------
(* Queues *)

\* The places that the properties speak of.
LEMMA QueuedPlaces ==
    ASSUME NEW reqs \in [Worker -> Seq(Msg)], NEW c
    PROVE  Queued(reqs, c) = Places(reqs, c)
  <1>1. ASSUME NEW w \in Worker, NEW i \in DOMAIN reqs[w], reqs[w][i].type = "Update"
        PROVE  i \in Nat /\ DOMAIN reqs[w][i].updates \subseteq Nat
    <2>1. reqs[w] \in Seq(Msg)
      OBVIOUS
    <2>2. reqs[w][i] \in Msg /\ i \in Nat
      BY <2>1
    <2>3. reqs[w][i].updates \in Seq(RelChange)
      BY <1>1, <2>2 DEF Msg
    <2> QED  BY <2>2, <2>3
  <1>2. ASSUME NEW p \in Queued(reqs, c)
        PROVE  p \in Places(reqs, c)
    <2>1. PICK w \in Worker : p \in QueuedAt(reqs, w, c)
      BY DEF Queued
    <2>2. PICK i \in {n \in DOMAIN reqs[w] : reqs[w][n].type = "Update"} :
             p \in {<<w, i, j>> : j \in {j \in DOMAIN reqs[w][i].updates : reqs[w][i].updates[j] = c}}
      BY <2>1 DEF QueuedAt
    <2>3. PICK j \in DOMAIN reqs[w][i].updates : p = <<w, i, j>> /\ reqs[w][i].updates[j] = c
      BY <2>2
    <2>4. i \in Nat /\ j \in Nat /\ At(reqs[w], i, j, c)
      BY <1>1, <2>2, <2>3 DEF At
    <2> QED  BY <2>3, <2>4 DEF Places
  <1>3. ASSUME NEW p \in Places(reqs, c)
        PROVE  p \in Queued(reqs, c)
    <2>1. PICK w \in Worker, i \in Nat, j \in Nat : p = <<w, i, j>> /\ At(reqs[w], i, j, c)
      BY DEF Places
    <2>2. p \in {<<w, i, l>> : l \in {l \in DOMAIN reqs[w][i].updates : reqs[w][i].updates[l] = c}}
      BY <2>1 DEF At
    <2>3. i \in {n \in DOMAIN reqs[w] : reqs[w][n].type = "Update"}
      BY <2>1 DEF At
    <2>4. p \in QueuedAt(reqs, w, c)
      BY <2>2, <2>3 DEF QueuedAt
    <2> QED  BY <2>4 DEF Queued
  <1> QED  BY <1>2, <1>3

\* A message that is no chunk holds no change.
LEMMA AppendPlaces ==
    ASSUME NEW reqs \in [Worker -> Seq(Msg)], NEW msg \in Msg, msg.type # "Update", NEW c
    PROVE  Places([w \in Worker |-> Append(reqs[w], msg)], c) = Places(reqs, c)
  <1>1. ASSUME NEW w \in Worker, NEW i, NEW j
        PROVE  At(Append(reqs[w], msg), i, j, c) <=> At(reqs[w], i, j, c)
    <2> DEFINE q == reqs[w]
    <2>1. q \in Seq(Msg)
      OBVIOUS
    <2> HIDE DEF q
    <2>2. /\ DOMAIN Append(q, msg) = DOMAIN q \cup {Len(q) + 1} /\ Len(q) + 1 \notin DOMAIN q
          /\ \A n \in DOMAIN q : Append(q, msg)[n] = q[n]
          /\ Append(q, msg)[Len(q) + 1] = msg
      BY <2>1
    <2>3. At(Append(q, msg), i, j, c) <=> At(q, i, j, c)
      <3>1. CASE i \in DOMAIN q
        BY <2>2, <3>1 DEF At
      <3>2. CASE i \notin DOMAIN q
        BY <2>2, <3>2 DEF At
      <3> QED  BY <3>1, <3>2
    <2> QED  BY <2>3 DEF q
  <1>2. ASSUME NEW p \in Worker \X Nat \X Nat
        PROVE  At([w \in Worker |-> Append(reqs[w], msg)][p[1]], p[2], p[3], c)
                  <=> At(reqs[p[1]], p[2], p[3], c)
    <2>1. p[1] \in Worker
      OBVIOUS
    <2>2. [w \in Worker |-> Append(reqs[w], msg)][p[1]] = Append(reqs[p[1]], msg)
      BY <2>1
    <2> QED  BY <1>1, <2>1, <2>2
  <1> QED  BY <1>2 DEF Places

\* The places of a concatenation of queues.
LEMMA ConcatAt ==
    ASSUME NEW q \in Seq(Msg), NEW m \in Seq(Msg), NEW i \in Nat, NEW j, NEW c
    PROVE  At(q \o m, i, j, c) <=> (At(q, i, j, c) \/ (i > Len(q) /\ At(m, i - Len(q), j, c)))
  <1>1. /\ Len(q) \in Nat /\ Len(m) \in Nat
        /\ DOMAIN q = 1 .. Len(q) /\ DOMAIN m = 1 .. Len(m) /\ DOMAIN (q \o m) = 1 .. Len(q) + Len(m)
        /\ \A n \in 1 .. Len(q) + Len(m) :
              (q \o m)[n] = IF n <= Len(q) THEN q[n] ELSE m[n - Len(q)]
    BY ConcatProperties
  <1>2. CASE i <= Len(q)
    <2>1. (i \in DOMAIN (q \o m) <=> i \in DOMAIN q) /\ (i \in DOMAIN q => (q \o m)[i] = q[i])
          /\ ~(i > Len(q))
      BY <1>1, <1>2
    <2> QED  BY <2>1 DEF At
  <1>3. CASE i > Len(q)
    <2>1. /\ (i \in DOMAIN (q \o m) <=> i - Len(q) \in DOMAIN m) /\ i \notin DOMAIN q
          /\ i \in DOMAIN (q \o m) => (q \o m)[i] = m[i - Len(q)]
      BY <1>1, <1>3
    <2> QED  BY <1>3, <2>1 DEF At
  <1> QED  BY <1>1, <1>2, <1>3

\* The places of a queue without its head.
LEMMA TailAt ==
    ASSUME NEW q \in Seq(Msg), q # <<>>, NEW i \in Nat \ {0}, NEW j, NEW c
    PROVE  At(Tail(q), i, j, c) <=> At(q, i + 1, j, c)
  <1>1. /\ Len(q) \in Nat \ {0} /\ Len(Tail(q)) = Len(q) - 1
        /\ DOMAIN q = 1 .. Len(q) /\ DOMAIN Tail(q) = 1 .. Len(q) - 1
        /\ \A n \in 1 .. Len(q) - 1 : Tail(q)[n] = q[n + 1]
    BY HeadTailProperties, EmptySeq
  <1>2. /\ i \in DOMAIN Tail(q) <=> i + 1 \in DOMAIN q
        /\ i \in DOMAIN Tail(q) => Tail(q)[i] = q[i + 1]
    BY <1>1
  <1> QED  BY <1>2 DEF At

\* The messages sent to the workers add their places to those of the queues.
LEMMA SentPlaces ==
    ASSUME NEW reqs \in [Worker -> Seq(Msg)], NEW more \in [Worker -> Seq(Msg)], NEW c,
           IsFiniteSet(Places(reqs, c)), IsFiniteSet(Places(more, c))
    PROVE  LET sent == [w \in Worker |-> reqs[w] \o more[w]]
           IN  /\ IsFiniteSet(Places(sent, c))
               /\ Cardinality(Places(sent, c))
                     = Cardinality(Places(reqs, c)) + Cardinality(Places(more, c))
  <1> DEFINE sent == [w \in Worker |-> reqs[w] \o more[w]]
             A == Places(reqs, c)
             S == Places(more, c)
             T == {p \in Places(sent, c) : p[2] > Len(reqs[p[1]])}
             f == [p \in S |-> <<p[1], Len(reqs[p[1]]) + p[2], p[3]>>]
  <1>1. ASSUME NEW w \in Worker
        PROVE  /\ reqs[w] \in Seq(Msg) /\ more[w] \in Seq(Msg) /\ sent[w] = reqs[w] \o more[w]
               /\ Len(reqs[w]) \in Nat /\ DOMAIN reqs[w] = 1 .. Len(reqs[w])
               /\ DOMAIN more[w] = 1 .. Len(more[w])
    OBVIOUS
  <1> HIDE DEF sent
  <1>2. ASSUME NEW w \in Worker, NEW i \in Nat, NEW j
        PROVE  At(sent[w], i, j, c)
                  <=> (At(reqs[w], i, j, c) \/ (i > Len(reqs[w]) /\ At(more[w], i - Len(reqs[w]), j, c)))
    BY <1>1, ConcatAt
  <1>3. ASSUME NEW p \in S
        PROVE  f[p] \in T
    <2>1. PICK w \in Worker, i \in Nat, j \in Nat : p = <<w, i, j>> /\ At(more[w], i, j, c)
      BY DEF Places
    <2>2. i > 0 /\ Len(reqs[w]) + i > Len(reqs[w]) /\ Len(reqs[w]) + i \in Nat
          /\ (Len(reqs[w]) + i) - Len(reqs[w]) = i
      BY <1>1, <2>1 DEF At
    <2>3. At(sent[w], Len(reqs[w]) + i, j, c)
      BY <1>2, <2>1, <2>2
    <2>4. f[p] = <<w, Len(reqs[w]) + i, j>>
      BY <2>1
    <2> QED  BY <2>2, <2>3, <2>4 DEF Places
  <1>4. f \in [S -> T]
    BY <1>3
  <1>5. ASSUME NEW a \in S, NEW b \in S, f[a] = f[b]
        PROVE  a = b
    <2>1. PICK w \in Worker, i \in Nat, j \in Nat : a = <<w, i, j>>
      BY DEF Places
    <2>2. PICK x \in Worker, k \in Nat, l \in Nat : b = <<x, k, l>>
      BY DEF Places
    <2>3. f[a] = <<w, Len(reqs[w]) + i, j>> /\ f[b] = <<x, Len(reqs[x]) + k, l>>
      BY <2>1, <2>2
    <2> HIDE DEF f, S
    <2>4. <<w, Len(reqs[w]) + i, j>> = <<x, Len(reqs[x]) + k, l>>
      BY <1>5, <2>3
    <2>5. w = x /\ Len(reqs[w]) + i = Len(reqs[x]) + k /\ j = l
      BY <2>4
    <2>6. i = k
      BY <1>1, <2>5
    <2> QED  BY <2>1, <2>2, <2>5, <2>6
  <1>6. ASSUME NEW t \in T
        PROVE  \E p \in S : f[p] = t
    <2>1. PICK w \in Worker, i \in Nat, j \in Nat :
             t = <<w, i, j>> /\ i > Len(reqs[w]) /\ At(sent[w], i, j, c)
      BY DEF Places
    <2>2. ~At(reqs[w], i, j, c)
      BY <1>1, <2>1 DEF At
    <2>3. At(more[w], i - Len(reqs[w]), j, c) /\ i - Len(reqs[w]) \in Nat
          /\ Len(reqs[w]) + (i - Len(reqs[w])) = i
      BY <1>1, <1>2, <2>1, <2>2
    <2>4. <<w, i - Len(reqs[w]), j>> \in S
      BY <2>3 DEF Places
    <2>5. f[<<w, i - Len(reqs[w]), j>>] = t
      BY <2>1, <2>3, <2>4
    <2> QED  BY <2>4, <2>5
  <1>7. /\ Places(sent, c) = A \cup T
        /\ A \cap T = {}
    <2>1. \A p \in Worker \X Nat \X Nat : p[1] \in Worker /\ p[2] \in Nat
      OBVIOUS
    <2>2. \A p \in A : p \in Places(sent, c)
      BY <1>2, <2>1 DEF Places
    <2>3. ASSUME NEW p \in A
          PROVE  ~(p[2] > Len(reqs[p[1]]))
      <3>1. p[1] \in Worker /\ p[2] \in DOMAIN reqs[p[1]]
        BY DEF Places, At
      <3> QED  BY <1>1, <3>1
    <2>4. \A p \in Places(sent, c) : p \in A \/ p \in T
      BY <1>2, <2>1 DEF Places
    <2> QED  BY <2>2, <2>3, <2>4
  <1>8. IsFiniteSet(S) /\ IsFiniteSet(A)
    OBVIOUS
  <1> HIDE DEF f, A, S, T
  <1>9. IsFiniteSet(T) /\ Cardinality(T) = Cardinality(S)
    <2>1. Matches(f, S, T)
      BY <1>4, <1>5, <1>6 DEF Matches
    <2> QED  BY <1>8, <2>1, Matching
  <1>10. IsFiniteSet(Places(sent, c)) /\ Cardinality(Places(sent, c)) = Cardinality(A) + Cardinality(S)
    BY <1>7, <1>8, <1>9, Disjoint
  <1> QED  BY <1>10 DEF A, S, sent

\* A worker takes the places of the first message out of its queue.
LEMMA TakenPlaces ==
    ASSUME NEW reqs \in [Worker -> Seq(Msg)], NEW w \in Worker, reqs[w] # <<>>, NEW c,
           IsFiniteSet(Places(reqs, c))
    PROVE  LET left == [reqs EXCEPT ![w] = Tail(@)]
               head == Head(reqs[w])
           IN  /\ IsFiniteSet(Places(left, c))
               /\ Cardinality(Places(left, c)) = Cardinality(Places(reqs, c))
                     - (IF head.type = "Update" THEN Cardinality(Occ(head.updates, c)) ELSE 0)
  <1> DEFINE left == [reqs EXCEPT ![w] = Tail(@)]
             head == Head(reqs[w])
             P == Places(reqs, c)
             A == {p \in P : p[1] = w /\ p[2] = 1}
             B == P \ A
             S == Places(left, c)
             shift(x, i) == IF x = w THEN i + 1 ELSE i
             g == [p \in S |-> <<p[1], shift(p[1], p[2]), p[3]>>]
             O == IF head.type = "Update" THEN Occ(head.updates, c) ELSE {}
             f == [j \in O |-> <<w, 1, j>>]
  <1>1. /\ reqs[w] \in Seq(Msg) /\ 1 \in DOMAIN reqs[w] /\ head = reqs[w][1] /\ head \in Msg
        /\ left[w] = Tail(reqs[w]) /\ Tail(reqs[w]) \in Seq(Msg)
        /\ \A x \in Worker \ {w} : left[x] = reqs[x]
    OBVIOUS
  <1>2. head.type = "Update" => head.updates \in Seq(RelChange)
    BY <1>1 DEF Msg
  <1> HIDE DEF left, head
  <1>3. ASSUME NEW x \in Worker, NEW i \in Nat \ {0}, NEW j
        PROVE  At(left[x], i, j, c) <=> At(reqs[x], shift(x, i), j, c)
    <2>1. CASE x = w
      <3>1. At(Tail(reqs[w]), i, j, c) <=> At(reqs[w], i + 1, j, c)
        BY <1>1, TailAt
      <3> QED  BY <1>1, <2>1, <3>1
    <2>2. CASE x # w
      BY <1>1, <2>2
    <2> QED  BY <2>1, <2>2
  <1>4. ASSUME NEW x \in Worker, NEW i, NEW j, At(reqs[x], i, j, c) \/ At(left[x], i, j, c)
        PROVE  i \in Nat \ {0}
    <2>1. reqs[x] \in Seq(Msg) /\ left[x] \in Seq(Msg)
      BY <1>1
    <2> QED  BY <1>4, <2>1 DEF At
  \* the places that stay
  <1>5. ASSUME NEW p \in S
        PROVE  \E x \in Worker, i \in Nat \ {0}, j \in Nat :
                  p = <<x, i, j>> /\ g[p] = <<x, shift(x, i), j>> /\ At(left[x], i, j, c)
    <2>1. PICK x \in Worker, i \in Nat, j \in Nat : p = <<x, i, j>> /\ At(left[x], i, j, c)
      BY DEF Places
    <2>2. i \in Nat \ {0}
      BY <1>4, <2>1
    <2> QED  BY <2>1, <2>2
  <1>6. ASSUME NEW p \in S
        PROVE  g[p] \in B
    <2>1. PICK x \in Worker, i \in Nat \ {0}, j \in Nat :
             p = <<x, i, j>> /\ g[p] = <<x, shift(x, i), j>> /\ At(left[x], i, j, c)
      BY <1>5
    <2>2. shift(x, i) \in Nat /\ ~(x = w /\ shift(x, i) = 1)
      OBVIOUS
    <2> HIDE DEF g, shift
    <2>4. At(reqs[x], shift(x, i), j, c)
      BY <1>3, <2>1
    <2>3. <<x, shift(x, i), j>> \in P
      BY <2>2, <2>4 DEF Places
    <2> QED  BY <2>1, <2>2, <2>3
  <1>7. g \in [S -> B]
    BY <1>6
  <1>8. ASSUME NEW a \in S, NEW b \in S, g[a] = g[b]
        PROVE  a = b
    <2>1. PICK x \in Worker, i \in Nat \ {0}, j \in Nat : a = <<x, i, j>> /\ g[a] = <<x, shift(x, i), j>>
      BY <1>5
    <2>2. PICK y \in Worker, k \in Nat \ {0}, l \in Nat : b = <<y, k, l>> /\ g[b] = <<y, shift(y, k), l>>
      BY <1>5
    <2> HIDE DEF g, S, shift
    <2>3. x = y /\ shift(x, i) = shift(y, k) /\ j = l
      BY <1>8, <2>1, <2>2
    <2>4. i = k
      BY <2>3 DEF shift
    <2> QED  BY <2>1, <2>2, <2>3, <2>4
  <1>9. ASSUME NEW t \in B
        PROVE  \E p \in S : g[p] = t
    <2>1. PICK x \in Worker, i \in Nat, j \in Nat :
             t = <<x, i, j>> /\ At(reqs[x], i, j, c) /\ ~(x = w /\ i = 1)
      BY DEF Places
    <2>2. i \in Nat \ {0}
      BY <1>4, <2>1
    <2> DEFINE k == IF x = w THEN i - 1 ELSE i
    <2>3. k \in Nat \ {0} /\ shift(x, k) = i
      BY <2>1, <2>2
    <2> HIDE DEF k
    <2>4. At(left[x], k, j, c)
      BY <1>3, <2>1, <2>3
    <2>5. <<x, k, j>> \in S
      BY <2>3, <2>4 DEF Places
    <2>6. g[<<x, k, j>>] = t
      BY <2>1, <2>3, <2>5
    <2> QED  BY <2>5, <2>6
  \* the places that go
  <1>10. ASSUME NEW j
         PROVE  <<w, 1, j>> \in A <=> j \in O
    <2>1. j \in O <=> At(reqs[w], 1, j, c)
      BY <1>1 DEF Occ, At
    <2>2. At(reqs[w], 1, j, c) => j \in Nat
      BY <1>1, <1>2 DEF At
    <2>3. <<w, 1, j>> \in A <=> <<w, 1, j>> \in P
      OBVIOUS
    <2>4. <<w, 1, j>> \in P <=> At(reqs[w], 1, j, c)
      BY <2>2 DEF Places
    <2> QED  BY <2>1, <2>3, <2>4
  <1>11. \A p \in A : \E j : p = <<w, 1, j>>
    <2> SUFFICES ASSUME NEW p \in A
                 PROVE  p = <<w, 1, p[3]>>
      OBVIOUS
    <2>1. p \in Worker \X Nat \X Nat /\ p[1] = w /\ p[2] = 1
      BY DEF Places
    <2> QED  BY <2>1
  <1>12. IsFiniteSet(O)
    BY <1>2, OccFinite, FS_EmptySet
  <1>13. Cardinality(O) = IF head.type = "Update" THEN Cardinality(Occ(head.updates, c)) ELSE 0
    BY FS_EmptySet
  <1>14. f \in [O -> A] /\ (\A i, j \in O : f[i] = f[j] => i = j) /\ \A a \in A : \E j \in O : f[j] = a
    <2> HIDE DEF A, O
    <2> QED  BY <1>10, <1>11
  <1>15. A \subseteq P /\ B = P \ A /\ IsFiniteSet(P)
    OBVIOUS
  <1> HIDE DEF f, g, A, B, S, O, P
  <1>16. IsFiniteSet(A) /\ Cardinality(A) = Cardinality(O)
    <2>1. Matches(f, O, A)
      BY <1>14 DEF Matches
    <2> QED  BY <1>12, <2>1, Matching
  <1>17. IsFiniteSet(B) /\ Cardinality(P) = Cardinality(A) + Cardinality(B)
    <2>1. IsFiniteSet(B) /\ A \cap B = {} /\ P = A \cup B
      BY <1>15, FS_Subset
    <2> QED  BY <1>16, <2>1, Disjoint
  <1>18. IsFiniteSet(S) /\ Cardinality(S) = Cardinality(B)
    <2>1. Matches(g, S, B)
      BY <1>7, <1>8, <1>9 DEF Matches
    <2> QED  BY <1>17, <2>1, Matching
  <1>19. Cardinality(B) \in Nat /\ Cardinality(A) \in Nat
    BY <1>16, <1>17, FS_CardinalityType
  <1>20. IsFiniteSet(S) /\ Cardinality(S) = Cardinality(P) - Cardinality(O)
    BY <1>16, <1>17, <1>18, <1>19
  <1> QED  BY <1>13, <1>20 DEF S, P, left, head

-----------------------------------------------------------------------------
(* Weights *)

\* A change by d of the weight of v in relation r.
Ch(r, v, d) == [relid |-> r, v |-> v, w |-> d]

\* The net weight of v, as a count of occurrences.
LEMMA NetOcc ==
    ASSUME NEW changes \in Seq(RelChange), NEW r, NEW v
    PROVE  /\ Net(changes, r, v)
                 = Cardinality(Occ(changes, Ch(r, v, 1))) - Cardinality(Occ(changes, Ch(r, v, -1)))
           /\ Cardinality(Occ(changes, Ch(r, v, 1))) \in Nat
           /\ Cardinality(Occ(changes, Ch(r, v, -1))) \in Nat
  BY OccFinite DEF Net, Occ, Ch

\* Net weights add up.
LEMMA NetConcat ==
    ASSUME NEW s \in Seq(RelChange), NEW t \in Seq(RelChange), NEW r, NEW v
    PROVE  Net(s \o t, r, v) = Net(s, r, v) + Net(t, r, v)
  <1>1. s \o t \in Seq(RelChange)
    OBVIOUS
  <1> DEFINE n(q, d) == Cardinality(Occ(q, Ch(r, v, d)))
  <1>2. n(s \o t, 1) = n(s, 1) + n(t, 1) /\ n(s \o t, -1) = n(s, -1) + n(t, -1)
    BY OccConcat
  <1>3. Net(s \o t, r, v) = n(s \o t, 1) - n(s \o t, -1)
    BY <1>1, NetOcc
  <1>4. Net(s, r, v) = n(s, 1) - n(s, -1) /\ n(s, 1) \in Nat /\ n(s, -1) \in Nat
    BY NetOcc
  <1>5. Net(t, r, v) = n(t, 1) - n(t, -1) /\ n(t, 1) \in Nat /\ n(t, -1) \in Nat
    BY NetOcc
  <1> HIDE DEF n
  <1> QED  BY <1>2, <1>3, <1>4, <1>5

\* A sequence of two.
LEMMA Pair ==
    ASSUME NEW R, NEW a \in R, NEW b \in R
    PROVE  <<a, b>> = <<a>> \o <<b>>
  <1>1. <<a>> \in Seq(R) /\ <<b>> \in Seq(R) /\ <<a, b>> \in Seq(R)
    OBVIOUS
  <1>2. <<a>> \o <<b>> \in Seq(R) /\ Len(<<a>> \o <<b>>) = 2
        /\ (<<a>> \o <<b>>)[1] = a /\ (<<a>> \o <<b>>)[2] = b
    BY <1>1, ConcatProperties
  <1> DEFINE p == <<a, b>>
             q == <<a>> \o <<b>>
  <1>3. p \in Seq(R) /\ Len(p) = 2 /\ p[1] = a /\ p[2] = b
    OBVIOUS
  <1>4. q \in Seq(R) /\ Len(q) = 2 /\ q[1] = a /\ q[2] = b
    BY <1>2
  <1> HIDE DEF p, q
  <1>5. p = q
    <2>1. \A i \in 1 .. Len(p) : p[i] = q[i]
      BY <1>3, <1>4
    <2> QED  BY <1>3, <1>4, <2>1, SeqEqual
  <1> QED  BY <1>5 DEF p, q

\* No change, no weight.
LEMMA NetEmpty == \A r, v : Net(<<>>, r, v) = 0
  <1> TAKE r, v
  <1>1. \A c : {i \in DOMAIN <<>> : <<>>[i] = c} = {}
    OBVIOUS
  <1> QED  BY <1>1, FS_EmptySet DEF Net

\* The weights of an insertion and of a deletion.
LEMMA NetPlusMinus ==
    ASSUME NEW q \in RelId, NEW x \in Value, NEW r \in RelId, NEW v \in Value
    PROVE  /\ Net(<<Ch(q, x, 1)>>, r, v) = IF q = r /\ x = v THEN 1 ELSE 0
           /\ Net(<<Ch(q, x, -1)>>, r, v) = IF q = r /\ x = v THEN -1 ELSE 0
  <1>1. ASSUME NEW d \in {1, -1}
        PROVE  Net(<<Ch(q, x, d)>>, r, v) = IF q = r /\ x = v THEN d ELSE 0
    <2>1. <<Ch(q, x, d)>> \in Seq(RelChange)
      BY DEF Ch, RelChange
    <2>2. \A c : Occ(<<Ch(q, x, d)>>, c) = IF Ch(q, x, d) = c THEN {1} ELSE {}
      BY DEF Occ
    <2>3. \A c : Cardinality(Occ(<<Ch(q, x, d)>>, c)) = IF Ch(q, x, d) = c THEN 1 ELSE 0
      BY <2>2, FS_EmptySet, FS_Singleton
    <2>4. \A e \in {1, -1} : (Ch(q, x, d) = Ch(r, v, e)) <=> (q = r /\ x = v /\ d = e)
      BY DEF Ch
    <2> DEFINE n(e) == Cardinality(Occ(<<Ch(q, x, d)>>, Ch(r, v, e)))
    <2>5. Net(<<Ch(q, x, d)>>, r, v) = n(1) - n(-1)
      BY <2>1, NetOcc
    <2>6. \A e \in {1, -1} : n(e) = IF q = r /\ x = v /\ d = e THEN 1 ELSE 0
      BY <2>3, <2>4
    <2> HIDE DEF n
    <2> QED  BY <2>5, <2>6
  <1> QED  BY <1>1

\* The weight of two changes.
LEMMA NetPair ==
    ASSUME NEW a \in RelChange, NEW b \in RelChange, NEW r, NEW v
    PROVE  Net(<<a, b>>, r, v) = Net(<<a>>, r, v) + Net(<<b>>, r, v)
  <1>1. <<a, b>> = <<a>> \o <<b>> /\ <<a>> \in Seq(RelChange) /\ <<b>> \in Seq(RelChange)
    BY Pair
  <1>2. Net(<<a>> \o <<b>>, r, v) = Net(<<a>>, r, v) + Net(<<b>>, r, v)
    <2> DEFINE s == <<a>>
               t == <<b>>
    <2>1. s \in Seq(RelChange) /\ t \in Seq(RelChange)
      BY <1>1
    <2> HIDE DEF s, t
    <2>2. Net(s \o t, r, v) = Net(s, r, v) + Net(t, r, v)
      BY <2>1, NetConcat
    <2> QED  BY <2>2 DEF s, t
  <1> QED  BY <1>1, <1>2

\* The changes an update pushes are the ones it makes to the delta.
LEMMA OutShape ==
    ASSUME NEW kd \in Kind, NEW s, Sound(kd, s), NEW ds \in ZSet, NEW u \in Update
    PROVE  LET res == apply_update(kd, s, ds, u)
           IN  \/ res.out = <<>> /\ res.ds = ds
               \/ \E x \in Value : res.out = <<Plus(x)>> /\ res.ds = delta_inc(ds, x)
               \/ \E x \in Value : res.out = <<Minus(x)>> /\ res.ds = delta_dec(ds, x)
               \/ \E x, y \in Value : /\ res.out = <<Minus(x), Plus(y)>>
                                      /\ res.ds = delta_inc(delta_dec(ds, x), y)
  <1>1. CASE kd = "Stream"
    BY <1>1 DEF apply_update, stream_update, Ok, Err, Update
  <1>2. CASE kd = "Multiset"
    BY <1>2 DEF apply_update, mset_update, Ok, Err, Update
  <1>3. CASE kd = "Flat"
    BY <1>3 DEF apply_update, set_update, Ok, Err, Update
  <1>4. CASE kd = "Indexed"
    <2> DEFINE k == IF u.op \in {"DeleteKey", "Modify"} THEN u.k ELSE KeyOf[u.v]
               old == s[k]
    <2>1. k \in Key /\ s \in IndexedValSet
      BY <1>4, ValueAssumption DEF Update, Sound, Elements
    <2>2. old \in Value \cup {None}
      BY <2>1 DEF IndexedValSet
    <2>3. u.op = "Modify" /\ old # None /\ u.m[old] # None => u.m[old] \in Value
      BY <2>2, ValueAssumption DEF Update
    <2>4. u.op \in {"Insert", "InsertOrUpdate", "DeleteValue"} => u.v \in Value
      BY DEF Update
    <2>5. CASE u.op \in {"Insert", "InsertOrUpdate"}
      BY <1>4, <2>2, <2>4, <2>5 DEF apply_update, indexed_set_update, Replace, Ok, Err
    <2>6. CASE u.op \in {"DeleteKey", "DeleteValue"}
      BY <1>4, <2>2, <2>4, <2>6, ValueAssumption
         DEF apply_update, indexed_set_update, Replace, Ok, Err
    <2>7. CASE u.op = "Modify"
      BY <1>4, <2>2, <2>3, <2>7 DEF apply_update, indexed_set_update, Replace, Ok, Err
    <2> QED  BY <2>5, <2>6, <2>7 DEF Update
  <1> QED  BY <1>1, <1>2, <1>3, <1>4 DEF Kind

\* The net weight of what an update pushes is the change of the delta.
LEMMA UpdateNet ==
    ASSUME NEW r \in RelId, NEW kd \in Kind, NEW s, Sound(kd, s), NEW ds \in ZSet, NEW u \in Update,
           NEW q \in RelId, NEW v \in Value
    PROVE  LET res == apply_update(kd, s, ds, u)
           IN  Net(Tagged(r, res.out), q, v) = IF q = r THEN res.ds[v] - ds[v] ELSE 0
  <1> DEFINE res == apply_update(kd, s, ds, u)
  <1>1. \/ res.out = <<>> /\ res.ds = ds
        \/ \E x \in Value : res.out = <<Plus(x)>> /\ res.ds = delta_inc(ds, x)
        \/ \E x \in Value : res.out = <<Minus(x)>> /\ res.ds = delta_dec(ds, x)
        \/ \E x, y \in Value : /\ res.out = <<Minus(x), Plus(y)>>
                               /\ res.ds = delta_inc(delta_dec(ds, x), y)
    BY OutShape
  <1> HIDE DEF res
  <1>2. ASSUME res.out = <<>>, res.ds = ds
        PROVE  Net(Tagged(r, res.out), q, v) = IF q = r THEN res.ds[v] - ds[v] ELSE 0
    <2>1. Tagged(r, res.out) = <<>>
      BY <1>2 DEF Tagged
    <2>2. ds[v] \in Int
      BY DEF ZSet
    <2> QED  BY <1>2, <2>1, <2>2, NetEmpty
  <1>3. ASSUME NEW x \in Value, res.out = <<Plus(x)>>, res.ds = delta_inc(ds, x)
        PROVE  Net(Tagged(r, res.out), q, v) = IF q = r THEN res.ds[v] - ds[v] ELSE 0
    <2>1. Tagged(r, res.out) = <<Ch(r, x, 1)>>
      BY <1>3 DEF Tagged, Plus, Ch
    <2>2. Net(<<Ch(r, x, 1)>>, q, v) = IF r = q /\ x = v THEN 1 ELSE 0
      BY NetPlusMinus
    <2>3. ds[v] \in Int /\ res.ds[v] = ds[v] + (IF x = v THEN 1 ELSE 0)
      BY <1>3 DEF ZSet, delta_inc
    <2> QED  BY <2>1, <2>2, <2>3
  <1>4. ASSUME NEW x \in Value, res.out = <<Minus(x)>>, res.ds = delta_dec(ds, x)
        PROVE  Net(Tagged(r, res.out), q, v) = IF q = r THEN res.ds[v] - ds[v] ELSE 0
    <2>1. Tagged(r, res.out) = <<Ch(r, x, -1)>>
      BY <1>4 DEF Tagged, Minus, Ch
    <2>2. Net(<<Ch(r, x, -1)>>, q, v) = IF r = q /\ x = v THEN -1 ELSE 0
      BY NetPlusMinus
    <2>3. ds[v] \in Int /\ res.ds[v] = ds[v] - (IF x = v THEN 1 ELSE 0)
      BY <1>4 DEF ZSet, delta_dec
    <2> QED  BY <2>1, <2>2, <2>3
  <1>5. ASSUME NEW x \in Value, NEW y \in Value, res.out = <<Minus(x), Plus(y)>>,
               res.ds = delta_inc(delta_dec(ds, x), y)
        PROVE  Net(Tagged(r, res.out), q, v) = IF q = r THEN res.ds[v] - ds[v] ELSE 0
    <2>1. Tagged(r, res.out) = <<Ch(r, x, -1), Ch(r, y, 1)>>
      BY <1>5 DEF Tagged, Minus, Plus, Ch
    <2>2. Ch(r, x, -1) \in RelChange /\ Ch(r, y, 1) \in RelChange
      BY DEF Ch, RelChange
    <2>3. Net(Tagged(r, res.out), q, v) = Net(<<Ch(r, x, -1)>>, q, v) + Net(<<Ch(r, y, 1)>>, q, v)
      BY <2>1, <2>2, NetPair
    <2>4. Net(<<Ch(r, x, -1)>>, q, v) = IF r = q /\ x = v THEN -1 ELSE 0
      BY NetPlusMinus
    <2>5. Net(<<Ch(r, y, 1)>>, q, v) = IF r = q /\ y = v THEN 1 ELSE 0
      BY NetPlusMinus
    <2>6. ds[v] \in Int /\ res.ds[v] = ds[v] - (IF x = v THEN 1 ELSE 0) + (IF y = v THEN 1 ELSE 0)
      BY <1>5 DEF ZSet, delta_dec, delta_inc
    <2> QED  BY <2>3, <2>4, <2>5, <2>6
  <1>6. Net(Tagged(r, res.out), q, v) = IF q = r THEN res.ds[v] - ds[v] ELSE 0
    <2>1. CASE \E x \in Value : res.out = <<Plus(x)>> /\ res.ds = delta_inc(ds, x)
      BY <1>3, <2>1
    <2>2. CASE \E x \in Value : res.out = <<Minus(x)>> /\ res.ds = delta_dec(ds, x)
      BY <1>4, <2>2
    <2>3. CASE \E x, y \in Value : /\ res.out = <<Minus(x), Plus(y)>>
                                   /\ res.ds = delta_inc(delta_dec(ds, x), y)
      BY <1>5, <2>3
    <2> QED  BY <1>1, <1>2, <2>1, <2>2, <2>3
  <1> QED  BY <1>6 DEF res

-----------------------------------------------------------------------------
(* The inductive invariant *)

\* The queues hold finitely many changes.
Counted(reqs) == \A c \in RelChange : IsFiniteSet(Places(reqs, c))

\* Only a loop over updates has collected any.
Collected == call \notin Updating => filtered_updates = <<>>

\* The contents of a relation are what its updates amount to.
ContentsIssued ==
    \A r \in RelId, v \in Value :
        kind[r] # "Stream" => Contents(kind[r], elements[r])[v] = Issued(r, v)

\* So is its delta, counted from the start of the transaction.
DeltaIssued ==
    transaction_in_progress /\ lost = EmptyCollection =>
        \A r \in RelId, v \in Value : delta[r][v] = Issued(r, v) - base[r][v]

EInv == Counted(requests) /\ Collected /\ ContentsIssued /\ DeltaIssued

-----------------------------------------------------------------------------
(* Weights in flight *)

\* The net weight of v in queues.
Weight(reqs, r, v) ==
    Cardinality(Places(reqs, Ch(r, v, 1))) - Cardinality(Places(reqs, Ch(r, v, -1)))

\* It is an integer.
LEMMA WeightType ==
    ASSUME NEW reqs, Counted(reqs), NEW r \in RelId, NEW v \in Value
    PROVE  /\ Weight(reqs, r, v) \in Int
           /\ \A d \in {1, -1} : /\ Ch(r, v, d) \in RelChange
                                 /\ IsFiniteSet(Places(reqs, Ch(r, v, d)))
                                 /\ Cardinality(Places(reqs, Ch(r, v, d))) \in Nat
  <1>1. \A d \in {1, -1} : Ch(r, v, d) \in RelChange
    BY DEF Ch, RelChange
  <1>2. \A d \in {1, -1} : /\ IsFiniteSet(Places(reqs, Ch(r, v, d)))
                           /\ Cardinality(Places(reqs, Ch(r, v, d))) \in Nat
    BY <1>1, FS_CardinalityType DEF Counted
  <1> QED  BY <1>1, <1>2 DEF Weight

\* The weights of the properties.
LEMMA InFlightWeight ==
    ASSUME requests \in [Worker -> Seq(Msg)], requests' \in [Worker -> Seq(Msg)], NEW r, NEW v
    PROVE  InFlight(r, v) = Weight(requests, r, v) /\ InFlight(r, v)' = Weight(requests', r, v)
  <1>1. \A c : Queued(requests, c) = Places(requests, c) /\ Queued(requests', c) = Places(requests', c)
    BY QueuedPlaces
  <1> QED  BY <1>1 DEF InFlight, Weight, Ch

\* A broadcast of anything but a chunk.
LEMMA BroadcastWeight ==
    ASSUME NEW reqs \in [Worker -> Seq(Msg)], NEW msg \in Msg, msg.type # "Update", Counted(reqs)
    PROVE  LET sent == [w \in Worker |-> Append(reqs[w], msg)]
           IN  Counted(sent) /\ \A r, v : Weight(sent, r, v) = Weight(reqs, r, v)
  <1>1. \A c : Places([w \in Worker |-> Append(reqs[w], msg)], c) = Places(reqs, c)
    BY AppendPlaces
  <1> QED  BY <1>1 DEF Counted, Weight

\* A worker takes a message.
LEMMA TakenWeight ==
    ASSUME NEW reqs \in [Worker -> Seq(Msg)], NEW w \in Worker, reqs[w] # <<>>, Counted(reqs)
    PROVE  LET left == [reqs EXCEPT ![w] = Tail(@)]
               head == Head(reqs[w])
           IN  /\ Counted(left)
               /\ \A r \in RelId, v \in Value :
                     Weight(left, r, v) = Weight(reqs, r, v)
                         - (IF head.type = "Update" THEN Net(head.updates, r, v) ELSE 0)
  <1> DEFINE left == [reqs EXCEPT ![w] = Tail(@)]
             head == Head(reqs[w])
  <1>1. ASSUME NEW c \in RelChange
        PROVE  /\ IsFiniteSet(Places(left, c))
               /\ Cardinality(Places(left, c)) = Cardinality(Places(reqs, c))
                     - (IF head.type = "Update" THEN Cardinality(Occ(head.updates, c)) ELSE 0)
    <2>1. IsFiniteSet(Places(reqs, c))
      BY DEF Counted
    <2> QED  BY <2>1, TakenPlaces
  <1>2. head \in Msg
    BY HeadTailProperties
  <1>3. head.type = "Update" => head.updates \in Seq(RelChange)
    BY <1>2 DEF Msg
  <1> HIDE DEF left, head
  <1>4. Counted(left)
    BY <1>1 DEF Counted
  <1>5. ASSUME NEW r \in RelId, NEW v \in Value
        PROVE  Weight(left, r, v) = Weight(reqs, r, v)
                   - (IF head.type = "Update" THEN Net(head.updates, r, v) ELSE 0)
    <2> DEFINE n(d) == Cardinality(Places(reqs, Ch(r, v, d)))
               m(d) == Cardinality(Places(left, Ch(r, v, d)))
               o(d) == Cardinality(Occ(head.updates, Ch(r, v, d)))
    <2>1. \A d \in {1, -1} : n(d) \in Nat /\ Ch(r, v, d) \in RelChange
      BY WeightType
    <2>2. \A d \in {1, -1} : m(d) = n(d) - (IF head.type = "Update" THEN o(d) ELSE 0)
      BY <1>1, <2>1
    <2>3. head.type = "Update" =>
             Net(head.updates, r, v) = o(1) - o(-1) /\ o(1) \in Nat /\ o(-1) \in Nat
      BY <1>3, NetOcc
    <2>4. Weight(left, r, v) = m(1) - m(-1) /\ Weight(reqs, r, v) = n(1) - n(-1)
      BY DEF Weight
    <2> HIDE DEF n, m, o
    <2> QED  BY <2>1, <2>2, <2>3, <2>4
  <1> QED  BY <1>4, <1>5 DEF left, head

\* apply_updates sends what it has collected, no more and no less.
LEMMA SentWeight ==
    ASSUME TypeOK, Counted(requests)
    PROVE  LET sent == [w \in Worker |-> requests[w] \o Deal(Chunks(filtered_updates))[w]]
           IN  /\ Counted(sent)
               /\ \A r \in RelId, v \in Value :
                     Weight(sent, r, v) = Weight(requests, r, v) + Net(filtered_updates, r, v)
  <1> DEFINE more == Deal(Chunks(filtered_updates))
             sent == [w \in Worker |-> requests[w] \o more[w]]
  <1>1. /\ filtered_updates \in Seq(RelChange) /\ worker_round_robbin \in Worker /\ timestamp \in Nat
        /\ requests \in [Worker -> Seq(Msg)]
    BY DEF TypeOK, ClientTypeOK
  <1>2. Chunks(filtered_updates) \in Seq(Seq(RelChange)) /\ more \in [Worker -> Seq(Msg)]
    BY <1>1, ChunksType, DealType
  <1>3. ASSUME NEW c \in RelChange
        PROVE  /\ IsFiniteSet(Places(sent, c))
               /\ Cardinality(Places(sent, c))
                     = Cardinality(Places(requests, c)) + Cardinality(Occ(filtered_updates, c))
    <2>1. /\ IsFiniteSet(ChunkPlaces(Chunks(filtered_updates), c))
          /\ Cardinality(ChunkPlaces(Chunks(filtered_updates), c))
                = Cardinality(Occ(filtered_updates, c))
      BY <1>1, ChunkedOnce
    <2>2. /\ IsFiniteSet(Places(more, c))
          /\ Cardinality(Places(more, c)) = Cardinality(ChunkPlaces(Chunks(filtered_updates), c))
      BY <1>1, <1>2, <2>1, DealtOnce
    <2>3. IsFiniteSet(Places(requests, c))
      BY DEF Counted
    <2> HIDE DEF more
    <2>4. /\ IsFiniteSet(Places(sent, c))
          /\ Cardinality(Places(sent, c))
                = Cardinality(Places(requests, c)) + Cardinality(Places(more, c))
      BY <1>1, <1>2, <2>2, <2>3, SentPlaces
    <2> HIDE DEF sent
    <2> QED  BY <2>1, <2>2, <2>4
  <1> HIDE DEF sent
  <1>4. Counted(sent)
    BY <1>3 DEF Counted
  <1>5. ASSUME NEW r \in RelId, NEW v \in Value
        PROVE  Weight(sent, r, v) = Weight(requests, r, v) + Net(filtered_updates, r, v)
    <2> DEFINE n(d) == Cardinality(Places(requests, Ch(r, v, d)))
               m(d) == Cardinality(Places(sent, Ch(r, v, d)))
               o(d) == Cardinality(Occ(filtered_updates, Ch(r, v, d)))
    <2>1. \A d \in {1, -1} : n(d) \in Nat /\ Ch(r, v, d) \in RelChange
      BY WeightType
    <2>2. \A d \in {1, -1} : m(d) = n(d) + o(d)
      BY <1>3, <2>1
    <2>3. Net(filtered_updates, r, v) = o(1) - o(-1) /\ o(1) \in Nat /\ o(-1) \in Nat
      BY <1>1, NetOcc
    <2>4. Weight(sent, r, v) = m(1) - m(-1) /\ Weight(requests, r, v) = n(1) - n(-1)
      BY DEF Weight
    <2> HIDE DEF n, m, o
    <2> QED  BY <2>1, <2>2, <2>3, <2>4
  <1> QED  BY <1>4, <1>5 DEF sent, more

-----------------------------------------------------------------------------
(* Steps *)

\* The weights that Issued adds up.
LEMMA IssuedType ==
    ASSUME TypeOK, Counted(requests), NEW r \in RelId, NEW v \in Value
    PROVE  /\ trace[r][v] \in Int /\ open[r][v] \in Int /\ lost[r][v] \in Int /\ base[r][v] \in Int
           /\ delta[r][v] \in Int
           /\ Net(filtered_updates, r, v) \in Int /\ Weight(requests, r, v) \in Int
  <1>1. /\ filtered_updates \in Seq(RelChange)
        /\ trace \in Collection /\ open \in Collection /\ lost \in Collection /\ base \in Collection
        /\ delta \in Collection
    BY DEF TypeOK, ClientTypeOK, RelationsTypeOK
  <1> QED  BY <1>1, NetType, WeightType DEF Collection, ZSet

\* A step that moves weight about.
LEMMA WeightMoves ==
    ASSUME EInv, Counted(requests)', Collected', UNCHANGED <<kind, elements, delta>>,
           \A r \in RelId, v \in Value : Issued(r, v)' = Issued(r, v),
           transaction_in_progress' /\ lost' = EmptyCollection =>
               transaction_in_progress /\ lost = EmptyCollection /\ base' = base
    PROVE  EInv'
  <1>1. ContentsIssued'
    BY DEF EInv, ContentsIssued
  <1>2. DeltaIssued'
    BY DEF EInv, DeltaIssued
  <1> QED  BY <1>1, <1>2 DEF EInv

\* A step of the client that sends nothing and changes no relation.
LEMMA ClientStep ==
    ASSUME TypeOK, TypeOK', EInv, Collected',
           UNCHANGED <<kind, elements, delta, filtered_updates, requests, open, trace, lost>>,
           transaction_in_progress' => transaction_in_progress /\ base' = base
    PROVE  EInv'
  <1>1. \A r \in RelId, v \in Value : Issued(r, v)' = Issued(r, v)
    BY DEF Issued, InFlight
  <1>2. Counted(requests)'
    BY DEF EInv, Counted
  <1> QED  BY <1>1, <1>2, WeightMoves

\* A request other than a chunk is sent to every worker.
LEMMA BroadcastStep ==
    ASSUME TypeOK, TypeOK', EInv, Collected', NEW msg \in Msg, msg.type # "Update", broadcast(msg),
           UNCHANGED <<kind, elements, delta, filtered_updates, open, trace, lost, base,
                       transaction_in_progress>>
    PROVE  EInv'
  <1>1. requests \in [Worker -> Seq(Msg)] /\ requests' \in [Worker -> Seq(Msg)] /\ Counted(requests)
    BY DEF TypeOK, EInv
  <1>2. requests' = [w \in Worker |-> Append(requests[w], msg)]
    BY DEF broadcast
  <1>3. Counted(requests') /\ \A r, v : Weight(requests', r, v) = Weight(requests, r, v)
    <2> DEFINE sent == [w \in Worker |-> Append(requests[w], msg)]
    <2>1. Counted(sent) /\ \A r, v : Weight(sent, r, v) = Weight(requests, r, v)
      BY <1>1, BroadcastWeight
    <2>2. requests' = sent
      BY <1>2
    <2> HIDE DEF sent
    <2> QED  BY <2>1, <2>2
  <1>4. \A r \in RelId, v \in Value : InFlight(r, v)' = InFlight(r, v)
    BY <1>1, <1>3, InFlightWeight
  <1>5. \A r \in RelId, v \in Value : Issued(r, v)' = Issued(r, v)
    BY <1>4 DEF Issued
  <1>6. Counted(requests)'
    BY <1>3 DEF Counted
  <1> QED  BY <1>5, <1>6, WeightMoves

\* A worker takes a request: the changes of a chunk go to the open epoch.
LEMMA TakeStep ==
    ASSUME TypeOK, TypeOK', EInv, NEW w \in Worker, requests[w] # <<>>, Consume(w),
           IF Head(requests[w]).type = "Update"
           THEN open' = Add(open, Head(requests[w]).updates)
           ELSE open' = open,
           UNCHANGED <<clientvars, trace, lost, base>>
    PROVE  EInv'
  <1> DEFINE head == Head(requests[w])
             n(r, v) == IF head.type = "Update" THEN Net(head.updates, r, v) ELSE 0
  <1>1. requests \in [Worker -> Seq(Msg)] /\ requests' \in [Worker -> Seq(Msg)] /\ Counted(requests)
    BY DEF TypeOK, EInv
  <1>2. requests' = [requests EXCEPT ![w] = Tail(@)]
    BY DEF Consume
  <1>3. /\ Counted(requests')
        /\ \A r \in RelId, v \in Value : Weight(requests', r, v) = Weight(requests, r, v) - n(r, v)
    <2> DEFINE left == [requests EXCEPT ![w] = Tail(@)]
    <2>1. /\ Counted(left)
          /\ \A r \in RelId, v \in Value : Weight(left, r, v) = Weight(requests, r, v) - n(r, v)
      BY <1>1, TakenWeight
    <2>2. requests' = left
      BY <1>2
    <2> HIDE DEF left, n
    <2> QED  BY <2>1, <2>2
  <1>4. head.type = "Update" => head.updates \in Seq(RelChange)
    BY RequestTypes
  <1>5. open \in Collection
    BY DEF TypeOK
  <1> HIDE DEF head
  <1>6. ASSUME NEW r \in RelId, NEW v \in Value
        PROVE  open'[r][v] = open[r][v] + n(r, v) /\ n(r, v) \in Int
    <2>1. n(r, v) \in Int
      BY <1>4, NetType
    <2>2. open[r][v] \in Int
      BY <1>5 DEF Collection, ZSet
    <2> QED  BY <2>1, <2>2 DEF Add, head
  <1>7. ASSUME NEW r \in RelId, NEW v \in Value
        PROVE  Issued(r, v)' = Issued(r, v)
    <2>1. InFlight(r, v) = Weight(requests, r, v) /\ InFlight(r, v)' = Weight(requests', r, v)
      BY <1>1, InFlightWeight
    <2>2. InFlight(r, v)' = InFlight(r, v) - n(r, v)
      BY <1>3, <2>1
    <2>3. /\ trace[r][v] \in Int /\ open[r][v] \in Int /\ lost[r][v] \in Int
          /\ Net(filtered_updates, r, v) \in Int /\ InFlight(r, v) \in Int
      BY <1>1, <2>1, IssuedType
    <2>4. UNCHANGED <<trace, lost, filtered_updates>>
      BY DEF clientvars, loopvars
    <2>5. Net(filtered_updates, r, v)' = Net(filtered_updates, r, v)
      BY <2>4
    <2> HIDE DEF n
    <2> QED  BY <1>6, <2>2, <2>3, <2>4, <2>5 DEF Issued
  <1>8. Counted(requests)'
    BY <1>3 DEF Counted
  <1>9. Collected' /\ UNCHANGED <<kind, elements, delta, transaction_in_progress>>
    BY DEF clientvars, relvars, txnvars, loopvars, EInv, Collected
  <1> QED  BY <1>7, <1>8, <1>9, WeightMoves

\* The dataflow closes an epoch.
LEMMA CloseEpoch ==
    ASSUME TypeOK, TypeOK', EInv, step
    PROVE  EInv'
  <1>1. /\ trace' = Combine(trace, open) /\ open' = EmptyCollection
        /\ UNCHANGED <<clientvars, requests, lost, base>>
    BY DEF step, histvars
  <1>2. UNCHANGED <<kind, elements, delta, transaction_in_progress, filtered_updates, call>>
    BY <1>1 DEF clientvars, relvars, txnvars, loopvars
  <1>3. ASSUME NEW r \in RelId, NEW v \in Value
        PROVE  Issued(r, v)' = Issued(r, v)
    <2>1. InFlight(r, v)' = InFlight(r, v) /\ Net(filtered_updates, r, v)' = Net(filtered_updates, r, v)
      BY <1>1, <1>2 DEF InFlight
    <2>2. trace[r][v] \in Int /\ open[r][v] \in Int
      BY IssuedType DEF EInv
    <2>3. trace'[r][v] = trace[r][v] + open[r][v] /\ open'[r][v] = 0
      BY <1>1 DEF Combine, EmptyCollection, EmptyZSet
    <2>4. trace'[r][v] + open'[r][v] = trace[r][v] + open[r][v]
      BY <2>2, <2>3
    <2> QED  BY <1>1, <2>1, <2>4 DEF Issued
  <1>4. Counted(requests)' /\ Collected'
    BY <1>1, <1>2 DEF EInv, Counted, Collected
  <1> QED  BY <1>1, <1>2, <1>3, <1>4, WeightMoves

\* apply_updates ends by sending what it has collected.
LEMMA SendExact ==
    ASSUME TypeOK, TypeOK', EInv, apply_updates_send
    PROVE  EInv'
  <1>1. /\ UNCHANGED <<kind, elements, delta, transaction_in_progress, open, trace, lost, base>>
        /\ filtered_updates' = <<>>
    BY DEF apply_updates_send, relvars, sysvars, flowvars, histvars
  <1>2. requests \in [Worker -> Seq(Msg)] /\ requests' \in [Worker -> Seq(Msg)] /\ Counted(requests)
    BY DEF TypeOK, EInv
  <1>3. /\ Counted(requests')
        /\ \A r \in RelId, v \in Value :
              Weight(requests', r, v) = Weight(requests, r, v) + Net(filtered_updates, r, v)
    <2>1. CASE filtered_updates = <<>>
      <3>1. requests' = requests
        BY <2>1 DEF apply_updates_send
      <3>2. \A r \in RelId, v \in Value : Weight(requests, r, v) \in Int
        BY <1>2, WeightType
      <3> QED  BY <1>2, <2>1, <3>1, <3>2, NetEmpty
    <2>2. CASE filtered_updates # <<>>
      <3> DEFINE sent == [w \in Worker |-> requests[w] \o Deal(Chunks(filtered_updates))[w]]
      <3>1. requests' = sent
        BY <2>2 DEF apply_updates_send
      <3>2. /\ Counted(sent)
            /\ \A r \in RelId, v \in Value :
                  Weight(sent, r, v) = Weight(requests, r, v) + Net(filtered_updates, r, v)
        BY <1>2, SentWeight
      <3> HIDE DEF sent
      <3> QED  BY <3>1, <3>2
    <2> QED  BY <2>1, <2>2
  <1>4. ASSUME NEW r \in RelId, NEW v \in Value
        PROVE  Issued(r, v)' = Issued(r, v)
    <2>1. InFlight(r, v) = Weight(requests, r, v) /\ InFlight(r, v)' = Weight(requests', r, v)
      BY <1>2, InFlightWeight
    <2>2. InFlight(r, v)' = InFlight(r, v) + Net(filtered_updates, r, v)
      BY <1>3, <2>1
    <2>3. Net(filtered_updates, r, v)' = 0
      BY <1>1, NetEmpty
    <2>4. /\ trace[r][v] \in Int /\ open[r][v] \in Int /\ lost[r][v] \in Int
          /\ Net(filtered_updates, r, v) \in Int /\ InFlight(r, v) \in Int
      BY <1>2, <2>1, IssuedType
    <2> QED  BY <1>1, <2>2, <2>3, <2>4 DEF Issued
  <1>5. Counted(requests)' /\ Collected'
    BY <1>1, <1>3 DEF Counted, Collected
  <1> QED  BY <1>1, <1>4, <1>5, WeightMoves

\* An aborted batch: what was collected is lost, and it is the first such loss.
LEMMA AbortExact ==
    ASSUME TypeOK, TypeOK', EInv, Abort, MayAbort,
           UNCHANGED <<kind, elements, delta, transaction_in_progress, requests, open, trace, base>>
    PROVE  EInv'
  <1>1. lost' = Add(lost, filtered_updates) /\ filtered_updates' = <<>>
    BY DEF Abort
  <1>2. ASSUME NEW r \in RelId, NEW v \in Value
        PROVE  lost'[r][v] = lost[r][v] + Net(filtered_updates, r, v)
    BY <1>1 DEF Add
  <1>3. ASSUME NEW r \in RelId, NEW v \in Value
        PROVE  Issued(r, v)' = Issued(r, v)
    <2>1. InFlight(r, v)' = InFlight(r, v)
      BY DEF InFlight
    <2>2. Net(filtered_updates, r, v)' = 0
      BY <1>1, NetEmpty
    <2>3. /\ trace[r][v] \in Int /\ open[r][v] \in Int /\ lost[r][v] \in Int
          /\ Net(filtered_updates, r, v) \in Int /\ Weight(requests, r, v) \in Int
      BY IssuedType DEF EInv
    <2>4. InFlight(r, v) \in Int
      BY <2>3, InFlightWeight DEF TypeOK
    <2> QED  BY <1>2, <2>1, <2>2, <2>3, <2>4 DEF Issued
  <1>4. lost' = EmptyCollection => lost = EmptyCollection
    <2>1. CASE filtered_updates = <<>>
      <3>1. lost \in Collection /\ lost' \in Collection
        BY DEF TypeOK
      <3>2. \A r \in RelId, v \in Value : lost[r][v] \in Int
        BY <3>1 DEF Collection, ZSet
      <3>3. \A r \in RelId, v \in Value : lost'[r][v] = lost[r][v]
        BY <1>2, <2>1, <3>2, NetEmpty
      <3>4. \A r \in RelId : lost'[r] = lost[r]
        BY <3>1, <3>3 DEF Collection, ZSet
      <3>5. lost' = lost
        BY <3>1, <3>4 DEF Collection
      <3> QED  BY <3>5
    <2>2. CASE filtered_updates # <<>>
      BY <2>2 DEF MayAbort
    <2> QED  BY <2>1, <2>2
  <1>5. Counted(requests)' /\ Collected'
    BY <1>1 DEF EInv, Counted, Collected
  <1> QED  BY <1>3, <1>4, <1>5, WeightMoves

\* A successful iteration of apply_updates: the relation, its delta and the collected changes move
\* together.
LEMMA ApplyExact ==
    ASSUME KeyPreserving, IInv, TypeOK, TypeOK', EInv, NEW r \in RelId, NEW u \in Update, Apply(r, u),
           apply_update(kind[r], elements[r], delta[r], u).ok, call \in Updating,
           UNCHANGED <<kind, transaction_in_progress, requests, open, trace, base>>
    PROVE  EInv'
  <1> DEFINE res == apply_update(kind[r], elements[r], delta[r], u)
  <1>1. kind[r] \in Kind /\ Sound(kind[r], elements[r]) /\ delta[r] \in ZSet
    BY DEF IInv, RelationsSound, Collection
  <1>2. UpdateKeeps(kind[r], elements[r], delta[r], res)
    BY <1>1, ApplyUpdate
  <1>3. \A q \in RelId, v \in Value :
           Net(Tagged(r, res.out), q, v) = IF q = r THEN res.ds[v] - delta[r][v] ELSE 0
    BY <1>1, UpdateNet
  <1>4. Tagged(r, res.out) \in Seq(RelChange) /\ filtered_updates \in Seq(RelChange)
    <2>1. res.out \in Seq(Change)
      BY <1>1, OutType
    <2> QED  BY <2>1, TaggedType DEF TypeOK, ClientTypeOK
  <1>5. /\ elements' = [elements EXCEPT ![r] = res.s]
        /\ delta' = [delta EXCEPT ![r] = res.ds]
        /\ filtered_updates' = filtered_updates \o Tagged(r, res.out)
        /\ UNCHANGED <<call, lost>>
    BY DEF Apply
  <1> HIDE DEF res
  <1>6. /\ elements'[r] = res.s /\ delta'[r] = res.ds
        /\ \A q \in RelId \ {r} : elements'[q] = elements[q] /\ delta'[q] = delta[q]
    BY <1>5 DEF IInv, RelationsSound, Collection
  <1>7. ASSUME NEW q \in RelId, NEW v \in Value
        PROVE  Issued(q, v)' - Issued(q, v) = delta'[q][v] - delta[q][v] /\ Issued(q, v) \in Int
               /\ Issued(q, v)' \in Int
    <2>1. InFlight(q, v)' = InFlight(q, v)
      BY DEF InFlight
    <2>2. Net(filtered_updates', q, v)
             = Net(filtered_updates, q, v) + Net(Tagged(r, res.out), q, v)
      BY <1>4, <1>5, NetConcat
    <2>3. /\ trace[q][v] \in Int /\ open[q][v] \in Int /\ lost[q][v] \in Int
          /\ Net(filtered_updates, q, v) \in Int /\ Weight(requests, q, v) \in Int
          /\ delta[q][v] \in Int
      BY IssuedType DEF EInv
    <2>4. InFlight(q, v) \in Int
      BY <2>3, InFlightWeight DEF TypeOK
    <2>5. Net(Tagged(r, res.out), q, v) = delta'[q][v] - delta[q][v]
      <3>1. CASE q = r
        BY <1>3, <1>6, <3>1
      <3>2. CASE q # r
        BY <1>3, <1>6, <2>3, <3>2
      <3> QED  BY <3>1, <3>2
    <2>6. Net(filtered_updates, q, v)' = Net(filtered_updates', q, v)
      BY DEF Net
    <2>7. Net(Tagged(r, res.out), q, v) \in Int
      BY <1>4, NetType
    <2>8. Issued(q, v) = trace[q][v] + open[q][v] + InFlight(q, v) + Net(filtered_updates, q, v)
                            + lost[q][v]
      BY DEF Issued
    <2>9. Issued(q, v)' = trace[q][v] + open[q][v] + InFlight(q, v) + Net(filtered_updates', q, v)
                             + lost[q][v]
      BY <1>5, <2>1, <2>6 DEF Issued
    <2> QED  BY <2>2, <2>3, <2>4, <2>5, <2>7, <2>8, <2>9
  <1>8. ContentsIssued'
    <2> SUFFICES ASSUME NEW q \in RelId, NEW v \in Value, kind[q] # "Stream"
                 PROVE  Contents(kind[q], elements'[q])[v] = Issued(q, v)'
      BY DEF ContentsIssued
    <2>1. Contents(kind[q], elements[q])[v] = Issued(q, v)
      BY DEF EInv, ContentsIssued
    <2>2. CASE q # r
      <3>1. delta'[q][v] = delta[q][v] /\ delta[q][v] \in Int
        BY <1>6, <2>2, IssuedType DEF EInv
      <3>2. Issued(q, v)' = Issued(q, v)
        BY <1>7, <3>1
      <3> QED  BY <1>6, <2>1, <2>2, <3>2
    <2>3. CASE q = r
      <3>1. Contents(kind[r], res.s)[v] - res.ds[v] = Contents(kind[r], elements[r])[v] - delta[r][v]
        BY <1>2, <2>3 DEF UpdateKeeps
      <3>2. delta[r][v] \in Int /\ res.ds[v] \in Int
        BY <1>1, <1>2 DEF ZSet, UpdateKeeps
      <3>3. Contents(kind[r], res.s)[v] \in Int
        BY <1>1, <1>2, ContentsType DEF UpdateKeeps, ZSet
      <3>4. /\ Issued(r, v)' - Issued(r, v) = res.ds[v] - delta[r][v]
            /\ Issued(r, v) \in Int /\ Issued(r, v)' \in Int
        BY <1>6, <1>7
      <3> QED  BY <1>6, <2>1, <2>3, <3>1, <3>2, <3>3, <3>4
    <2> QED  BY <2>2, <2>3
  <1>9. DeltaIssued'
    <2> SUFFICES ASSUME transaction_in_progress, lost = EmptyCollection, NEW q \in RelId, NEW v \in Value
                 PROVE  delta'[q][v] = Issued(q, v)' - base[q][v]
      BY <1>5 DEF DeltaIssued
    <2>1. delta[q][v] = Issued(q, v) - base[q][v] /\ base[q][v] \in Int /\ delta[q][v] \in Int
      BY IssuedType DEF EInv, DeltaIssued
    <2>2. delta'[q][v] \in Int
      <3>1. delta' \in Collection
        BY DEF TypeOK, ClientTypeOK, RelationsTypeOK
      <3> QED  BY <3>1 DEF Collection, ZSet
    <2>3. /\ Issued(q, v)' - Issued(q, v) = delta'[q][v] - delta[q][v]
          /\ Issued(q, v) \in Int /\ Issued(q, v)' \in Int
      BY <1>7
    <2> QED  BY <2>1, <2>2, <2>3
  <1>10. Counted(requests)' /\ Collected'
    BY <1>5 DEF EInv, Counted, Collected
  <1> QED  BY <1>8, <1>9, <1>10 DEF EInv

\* An iteration of apply_updates that fails changes no relation.
LEMMA FailedUpdate ==
    ASSUME KeyPreserving, IInv, NEW r \in RelId, NEW u \in Update, Apply(r, u),
           ~apply_update(kind[r], elements[r], delta[r], u).ok
    PROVE  Abort /\ UNCHANGED <<elements, delta>>
  <1> DEFINE res == apply_update(kind[r], elements[r], delta[r], u)
  <1>1. kind[r] \in Kind /\ Sound(kind[r], elements[r]) /\ delta[r] \in ZSet
    BY DEF IInv, RelationsSound, Collection
  <1>2. UpdateKeeps(kind[r], elements[r], delta[r], res)
    BY <1>1, ApplyUpdate
  <1>3. res.s = elements[r] /\ res.ds = delta[r]
    BY <1>2 DEF UpdateKeeps
  <1>4. elements' = [elements EXCEPT ![r] = res.s] /\ delta' = [delta EXCEPT ![r] = res.ds] /\ Abort
    BY DEF Apply
  <1> HIDE DEF res
  <1> QED  BY <1>3, <1>4 DEF IInv, RelationsSound, Collection

\* When nothing is on its way, what was issued is in the dataflow.
LEMMA AllTraced ==
    ASSUME TypeOK, EInv, call \notin Updating, open = EmptyCollection,
           \A w \in Worker : \A i \in DOMAIN requests[w] : requests[w][i].type # "Update",
           NEW r \in RelId, NEW v \in Value
    PROVE  Issued(r, v) = trace[r][v] + lost[r][v]
  <1>1. \A c : Places(requests, c) = {}
    <2> SUFFICES ASSUME NEW c, NEW p \in Places(requests, c)
                 PROVE  FALSE
      OBVIOUS
    <2>1. PICK w \in Worker, i \in Nat, j \in Nat : At(requests[w], i, j, c)
      BY DEF Places
    <2> QED  BY <2>1 DEF At
  <1>2. requests \in [Worker -> Seq(Msg)]
    BY DEF TypeOK
  <1>3. \A c : Queued(requests, c) = {}
    BY <1>1, <1>2, QueuedPlaces
  <1>4. InFlight(r, v) = 0
    BY <1>3, FS_EmptySet DEF InFlight
  <1>5. Net(filtered_updates, r, v) = 0
    BY NetEmpty DEF EInv, Collected
  <1>6. open[r][v] = 0
    BY DEF EmptyCollection, EmptyZSet
  <1>7. trace[r][v] \in Int /\ lost[r][v] \in Int
    BY IssuedType DEF EInv
  <1> QED  BY <1>4, <1>5, <1>6, <1>7 DEF Issued

\* So it is after a flush.
LEMMA IssuedTraced ==
    ASSUME TypeOK, PInv, EInv, ~need_to_flush, ~Waiting, call \notin Updating,
           NEW r \in RelId, NEW v \in Value
    PROVE  Issued(r, v) = trace[r][v] + lost[r][v] /\ open = EmptyCollection
  BY AllTraced DEF PInv, OpenPhase

\* transaction_start finds nothing on its way.
LEMMA StartExact ==
    ASSUME IInv, TypeOK, TypeOK', PInv, EInv, transaction_start
    PROVE  EInv'
  <1>1. /\ call = "idle" /\ ~transaction_in_progress /\ base' = trace
        /\ UNCHANGED <<kind, elements, delta, filtered_updates, requests, open, trace, lost, call>>
    BY DEF transaction_start, Ready, relvars, loopvars, sysvars, flowvars
  <1>2. \A r \in RelId, v \in Value : Issued(r, v)' = Issued(r, v)
    BY <1>1 DEF Issued, InFlight
  <1>3. ~need_to_flush /\ ~Waiting /\ call \notin Updating
    BY <1>1 DEF PInv, ClientPhase, Waiting, Flushing, Updating
  <1>4. delta = EmptyCollection
    BY <1>1 DEF IInv, DeltaMatches
  <1>5. DeltaIssued'
    <2> SUFFICES ASSUME lost = EmptyCollection, NEW r \in RelId, NEW v \in Value
                 PROVE  delta[r][v] = Issued(r, v) - trace[r][v]
      BY <1>1, <1>2 DEF DeltaIssued
    <2>1. Issued(r, v) = trace[r][v] + lost[r][v] /\ trace[r][v] \in Int
      BY <1>3, IssuedTraced, IssuedType DEF EInv
    <2>2. lost[r][v] = 0 /\ delta[r][v] = 0
      BY <1>4 DEF EmptyCollection, EmptyZSet
    <2> QED  BY <2>1, <2>2
  <1>6. ContentsIssued'
    BY <1>1, <1>2 DEF EInv, ContentsIssued
  <1>7. Counted(requests)' /\ Collected'
    BY <1>1 DEF EInv, Counted, Collected
  <1> QED  BY <1>5, <1>6, <1>7 DEF EInv

\* Everything is empty at first.
LEMMA InitEInv == Init => EInv
  <1> SUFFICES ASSUME Init
               PROVE  EInv
    OBVIOUS
  <1>1. /\ requests = [w \in Worker |-> <<>>] /\ filtered_updates = <<>> /\ call = "run"
        /\ ~transaction_in_progress
        /\ open = EmptyCollection /\ trace = EmptyCollection /\ lost = EmptyCollection
        /\ kind \in [RelId -> Kind] /\ elements = [r \in RelId |-> NoElements(kind[r])]
    BY DEF Init
  <1>2. \A c : Places(requests, c) = {}
    BY <1>1 DEF Places, At
  <1>3. requests \in [Worker -> Seq(Msg)]
    BY <1>1
  <1>4. \A c : Queued(requests, c) = {}
    BY <1>2, <1>3, QueuedPlaces
  <1>5. ASSUME NEW r \in RelId, NEW v \in Value
        PROVE  Issued(r, v) = 0
    <2>1. InFlight(r, v) = 0
      BY <1>4, FS_EmptySet DEF InFlight
    <2>2. Net(filtered_updates, r, v) = 0
      BY <1>1, NetEmpty
    <2>3. open[r][v] = 0 /\ trace[r][v] = 0 /\ lost[r][v] = 0
      BY <1>1 DEF EmptyCollection, EmptyZSet
    <2> QED  BY <2>1, <2>2, <2>3 DEF Issued
  <1>6. ASSUME NEW r \in RelId, NEW v \in Value
        PROVE  Contents(kind[r], elements[r])[v] = 0
    <2>1. Contents(kind[r], elements[r]) = EmptyZSet
      BY <1>1, NoElementsSound
    <2> QED  BY <2>1 DEF EmptyZSet
  <1>7. Counted(requests)
    BY <1>2, FS_EmptySet DEF Counted
  <1>8. Collected /\ DeltaIssued
    BY <1>1 DEF Collected, DeltaIssued
  <1>9. ContentsIssued
    BY <1>5, <1>6 DEF ContentsIssued
  <1> QED  BY <1>7, <1>8, <1>9 DEF EInv

-----------------------------------------------------------------------------
(* Theorems *)

\* Every step of the client, a worker or the dataflow keeps the weights.
LEMMA NextEInv ==
    ASSUME KeyPreserving, IInv, TypeOK, TypeOK', PInv, EInv, [Next]_vars
    PROVE  EInv'
  <1> USE DEF relvars, txnvars, loopvars, histvars, sysvars, flowvars
  <1>1. Updating = {"updates", "undo", "clear"}
    BY DEF Updating
  <1>2. Collected
    BY DEF EInv
  <1>3. CASE transaction_start
    BY <1>3, StartExact
  <1>4. CASE apply_updates \/ \E r \in RelId : clear_relation(r)
    <2>1. call = "idle" /\ filtered_updates' = filtered_updates
      BY <1>4 DEF apply_updates, clear_relation, Ready
    <2>2. Collected'
      BY <1>1, <1>2, <2>1 DEF Collected
    <2> QED  BY <1>4, <2>2, ClientStep DEF apply_updates, clear_relation
  <1>5. CASE apply_updates_step
    <2>1. PICK r \in RelId, u \in Update : Apply(r, u)
      BY <1>5 DEF apply_updates_step
    <2>2. /\ call = "updates" /\ (call' = "idle" => MayAbort)
          /\ UNCHANGED <<kind, transaction_in_progress, requests, open, trace, base>>
      BY <1>5 DEF apply_updates_step
    <2>3. CASE apply_update(kind[r], elements[r], delta[r], u).ok
      BY <1>1, <2>1, <2>2, <2>3, ApplyExact
    <2>4. CASE ~apply_update(kind[r], elements[r], delta[r], u).ok
      <3>1. Abort /\ UNCHANGED <<elements, delta>>
        BY <2>1, <2>4, FailedUpdate
      <3>2. MayAbort
        BY <2>2, <3>1 DEF Abort
      <3> QED  BY <2>2, <3>1, <3>2, AbortExact
    <2> QED  BY <2>3, <2>4
  <1>6. CASE apply_updates_rejected
    BY <1>6, AbortExact DEF apply_updates_rejected
  <1>7. CASE clear_relation_step
    <2>1. PICK r \in RelId : \E u \in clear_updates(r) : Apply(r, u)
      BY <1>7 DEF clear_relation_step
    <2>2. PICK u \in clear_updates(r) : Apply(r, u)
      BY <2>1
    <2>3. u \in Update /\ apply_update(kind[r], elements[r], delta[r], u).ok
      BY ClearOk
    <2>4. call = "clear" /\ UNCHANGED <<kind, transaction_in_progress, requests, open, trace, base>>
      BY <1>7 DEF clear_relation_step
    <2> QED  BY <1>1, <2>2, <2>3, <2>4, ApplyExact
  <1>8. CASE delta_undo_step
    <2>1. PICK r \in RelId : \E u \in delta_undo_updates(todo[r]) : Apply(r, u)
      BY <1>8 DEF delta_undo_step
    <2>2. PICK u \in delta_undo_updates(todo[r]) : Apply(r, u)
      BY <2>1
    <2>3. call = "undo" /\ UNCHANGED <<kind, transaction_in_progress, requests, open, trace, base>>
      BY <1>8 DEF delta_undo_step
    <2>4. u \in Update /\ apply_update(kind[r], elements[r], delta[r], u).ok
      BY <2>3, UndoOk
    <2> QED  BY <1>1, <2>2, <2>3, <2>4, ApplyExact
  <1>9. CASE apply_updates_send
    BY <1>9, SendExact
  <1>10. CASE transaction_commit \/ transaction_rollback \/ stop \/ delta_undo_flush
    <2>1. PICK c \in {"commit", "rollback", "stop", "undone"} : flush(c)
      BY <1>10 DEF transaction_commit, transaction_rollback, stop, delta_undo_flush
    <2>2. /\ UNCHANGED <<kind, elements, delta, filtered_updates, open, trace, lost, base,
                         transaction_in_progress>>
          /\ call \in {"idle", "undo_flush"}
      BY <1>10 DEF transaction_commit, transaction_rollback, stop, delta_undo_flush, Ready
    <2>3. Collected'
      BY <1>1, <1>2, <2>2 DEF Collected
    <2>4. CASE need_to_flush
      <3> DEFINE msg == [type |-> "Flush", advance_to |-> timestamp + 1]
      <3>1. timestamp + 1 \in Nat
        BY DEF TypeOK, ClientTypeOK
      <3>2. msg \in Msg /\ msg.type # "Update" /\ broadcast(msg)
        BY <2>1, <2>4, <3>1, MessageTypes DEF flush
      <3> HIDE DEF msg
      <3> QED  BY <2>2, <2>3, <3>2, BroadcastStep
    <2>5. CASE ~need_to_flush
      <3>1. requests' = requests
        BY <2>1, <2>5 DEF flush
      <3> QED  BY <2>2, <2>3, <3>1, ClientStep
    <2> QED  BY <2>4, <2>5
  <1>11. CASE await_flush_ack \/ run_return \/ query_receive \/ query_return \/ stop_return
    <2>1. /\ UNCHANGED <<kind, elements, delta, filtered_updates, requests, open, trace, lost, base,
                         transaction_in_progress>>
          /\ call \notin Updating
      BY <1>1, <1>11
         DEF await_flush_ack, run_return, query_receive, query_return, stop_return, Flushed, Flushing
    <2>2. Collected'
      BY <1>2, <2>1 DEF Collected
    <2> QED  BY <2>1, <2>2, ClientStep
  <1>12. CASE transaction_commit_return \/ transaction_rollback_return
    <2>1. /\ UNCHANGED <<kind, elements, filtered_updates, requests, open, trace, lost>>
          /\ ~transaction_in_progress' /\ call \notin Updating
      BY <1>1, <1>12 DEF transaction_commit_return, transaction_rollback_return, Forget, Flushed
    <2>2. Collected' /\ DeltaIssued' /\ Counted(requests)'
      BY <1>2, <2>1 DEF Collected, DeltaIssued, EInv, Counted
    <2>3. \A r \in RelId, v \in Value : Issued(r, v)' = Issued(r, v)
      BY <2>1 DEF Issued, InFlight
    <2>4. ContentsIssued'
      BY <2>1, <2>3 DEF EInv, ContentsIssued
    <2> QED  BY <2>2, <2>4 DEF EInv
  <1>13. CASE delta_undo
    <2>1. /\ UNCHANGED <<kind, elements, delta, filtered_updates, requests, open, trace, lost, base,
                         transaction_in_progress>>
          /\ call = "rollback"
      BY <1>13 DEF delta_undo, Flushed
    <2>2. Collected'
      BY <1>1, <1>2, <2>1 DEF Collected
    <2> QED  BY <2>1, <2>2, ClientStep
  <1>14. CASE \E arrid \in RelId \cup {NoIndex}, k \in Key \cup {None} : query_arrangement(arrid, k)
    <2>1. PICK arrid \in RelId \cup {NoIndex}, k \in Key \cup {None} : query_arrangement(arrid, k)
      BY <1>14
    <2> DEFINE msg == [type |-> "Query", arrid |-> arrid, key |-> k]
    <2>2. msg \in Msg /\ msg.type # "Update" /\ broadcast(msg)
      BY <2>1, MessageTypes DEF query_arrangement
    <2>3. /\ UNCHANGED <<kind, elements, delta, filtered_updates, open, trace, lost, base,
                         transaction_in_progress>>
          /\ call = "idle"
      BY <2>1 DEF query_arrangement, Ready
    <2>4. Collected'
      BY <1>1, <1>2, <2>3 DEF Collected
    <2> HIDE DEF msg
    <2> QED  BY <2>2, <2>3, <2>4, BroadcastStep
  <1>15. CASE stop_broadcast
    <2> DEFINE msg == [type |-> "Stop"]
    <2>1. msg \in Msg /\ msg.type # "Update" /\ broadcast(msg)
      BY <1>15, MessageTypes DEF stop_broadcast
    <2>2. /\ UNCHANGED <<kind, elements, delta, filtered_updates, open, trace, lost, base,
                         transaction_in_progress>>
          /\ call = "stop"
      BY <1>15 DEF stop_broadcast, Flushed
    <2>3. Collected'
      BY <1>1, <1>2, <2>2 DEF Collected
    <2> HIDE DEF msg
    <2> QED  BY <2>1, <2>2, <2>3, BroadcastStep
  <1>16. CASE \E w \in Worker : WorkerNext(w)
    <2>1. PICK w \in Worker : WorkerNext(w)
      BY <1>16
    <2>2. CASE batch_update(w) \/ handle_flush(w) \/ handle_query(w) \/ disable(w)
      <3>1. requests[w] # <<>> /\ Consume(w) /\ UNCHANGED <<clientvars, trace, lost, base>>
        BY <2>2 DEF batch_update, handle_flush, handle_query, disable, Request
      <3>2. IF Head(requests[w]).type = "Update"
            THEN open' = Add(open, Head(requests[w]).updates)
            ELSE open' = open
        BY <2>2 DEF batch_update, handle_flush, handle_query, disable, Request
      <3> QED  BY <3>1, <3>2, TakeStep
    <2>3. CASE ingest_initial_data(w) \/ flush_ack(w) \/ worker_exit(w)
      <3>1. UNCHANGED <<clientvars, requests, open, trace, lost, base>>
        BY <2>3 DEF ingest_initial_data, flush_ack, worker_exit
      <3>2. Collected'
        BY <1>2, <3>1 DEF Collected, clientvars
      <3> QED  BY <3>1, <3>2, ClientStep DEF clientvars
    <2> QED  BY <2>1, <2>2, <2>3 DEF WorkerNext
  <1>17. CASE step
    BY <1>17, CloseEpoch
  <1>18. CASE Stopped \/ UNCHANGED vars
    <2>1. UNCHANGED vars
      BY <1>18 DEF Stopped
    <2>2. Collected'
      BY <1>2, <2>1 DEF Collected, vars, clientvars
    <2> QED  BY <2>1, <2>2, ClientStep DEF vars, clientvars
  <1> QED
    BY <1>3, <1>4, <1>5, <1>6, <1>7, <1>8, <1>9, <1>10, <1>11, <1>12, <1>13, <1>14, <1>15, <1>16,
       <1>17, <1>18 DEF Next, Call_, Continue

\* The four inductive invariants together, for programs whose mutators keep the primary key.
THEOREM ExactInvariance == ASSUME KeyPreserving PROVE Spec => [](IInv /\ TypeOK /\ PInv /\ EInv)
  <1>1. KeyPreserving
    OBVIOUS
  <1>2. IInv /\ TypeOK /\ TypeOK' /\ PInv /\ EInv /\ [Next]_vars => EInv'
    BY <1>1, NextEInv
  <1> QED  BY <1>2, InitEInv, ProtocolInvariance, PTL DEF Spec

\* No change is lost or duplicated between the relations and the dataflow: splitting the updates
\* of a call into chunks, dealing the chunks to the workers and feeding them to the sessions keeps
\* the weight of every value, whatever the number of workers and the size of a chunk.
THEOREM NothingLost == ASSUME KeyPreserving PROVE Spec => []DataflowExact
  <1>1. EInv => DataflowExact
    BY DEF EInv, ContentsIssued, DeltaIssued, DataflowExact, AllContents
  <1> QED  BY <1>1, ExactInvariance, PTL

\* A flush that every worker has acknowledged leaves nothing on its way.
LEMMA FlushedEmpty ==
    ASSUME TypeOK, PInv, EInv, NEW c \in Flushing, Flushed(c)
    PROVE  /\ open = EmptyCollection
           /\ lost = EmptyCollection => \A r \in RelId, v \in Value : Issued(r, v) = trace[r][v]
  <1>1. ~need_to_flush /\ call \notin Updating
    BY DEF Flushed, Flushing, Updating, PInv, ClientPhase
  <1>2. ~Waiting
    BY ProgramAssumption DEF Flushed, Waiting
  <1>3. open = EmptyCollection
    BY <1>1, <1>2 DEF PInv, OpenPhase
  <1>4. ASSUME lost = EmptyCollection, NEW r \in RelId, NEW v \in Value
        PROVE  Issued(r, v) = trace[r][v]
    <2>1. Issued(r, v) = trace[r][v] + lost[r][v] /\ trace[r][v] \in Int
      BY <1>1, <1>2, IssuedTraced, IssuedType DEF EInv
    <2>2. lost[r][v] = 0
      BY <1>4 DEF EmptyCollection, EmptyZSet
    <2> QED  BY <2>1, <2>2
  <1> QED  BY <1>3, <1>4

\* When a commit returns, the dataflow has processed every update of the transaction.
THEOREM CommitIsComplete == ASSUME KeyPreserving PROVE Spec => []CommitComplete
  <1>1. IInv /\ TypeOK /\ PInv /\ EInv => CommitComplete
    <2> SUFFICES ASSUME IInv, TypeOK, PInv, EInv, Flushed("commit")
                 PROVE  /\ open = EmptyCollection
                        /\ lost = EmptyCollection =>
                              \A r \in RelId : kind[r] # "Stream" => trace[r] = AllContents[r]
      BY DEF CommitComplete
    <2>1. "commit" \in Flushing
      BY DEF Flushing
    <2>2. ASSUME lost = EmptyCollection, NEW r \in RelId, kind[r] # "Stream"
          PROVE  trace[r] = AllContents[r]
      <3>1. \A v \in Value : Contents(kind[r], elements[r])[v] = trace[r][v]
        BY <2>1, <2>2, FlushedEmpty DEF EInv, ContentsIssued
      <3>2. AllContents[r] \in ZSet /\ AllContents[r] = Contents(kind[r], elements[r])
        BY AllContentsType DEF IInv, AllContents, Collection
      <3>3. trace[r] \in ZSet
        BY DEF TypeOK, Collection
      <3> QED  BY <3>1, <3>2, <3>3 DEF ZSet
    <2> QED  BY <2>1, <2>2, FlushedEmpty
  <1> QED  BY <1>1, ExactInvariance, PTL

\* When a rollback returns, the dataflow is where it was when the transaction started, unless a
\* batch was aborted.
THEOREM RollbackIsComplete == ASSUME KeyPreserving PROVE Spec => []DataflowRestored
  <1>1. IInv /\ TypeOK /\ PInv /\ EInv => DataflowRestored
    <2> SUFFICES ASSUME IInv, TypeOK, PInv, EInv, Flushed("undone"), lost = EmptyCollection
                 PROVE  trace = base
      BY DEF DataflowRestored
    <2>1. "undone" \in Flushing
      BY DEF Flushing
    <2>2. transaction_in_progress /\ delta = EmptyCollection
      BY DEF Flushed, IInv, InTransaction, UndoMatches
    <2>3. ASSUME NEW r \in RelId, NEW v \in Value
          PROVE  trace[r][v] = base[r][v]
      <3>1. delta[r][v] = Issued(r, v) - base[r][v]
        BY <2>2 DEF EInv, DeltaIssued
      <3>2. delta[r][v] = 0
        BY <2>2 DEF EmptyCollection, EmptyZSet
      <3>3. Issued(r, v) = trace[r][v]
        BY <2>1, FlushedEmpty
      <3>4. trace[r][v] \in Int /\ base[r][v] \in Int
        BY IssuedType DEF EInv
      <3> QED  BY <3>1, <3>2, <3>3, <3>4
    <2>4. trace \in Collection /\ base \in Collection
      BY DEF TypeOK
    <2>5. \A r \in RelId : trace[r] = base[r]
      BY <2>3, <2>4 DEF Collection, ZSet
    <2> QED  BY <2>4, <2>5 DEF Collection
  <1> QED  BY <1>1, ExactInvariance, PTL

-----------------------------------------------------------------------------
(* Between transactions *)

\* The only flush outside a transaction is the constructor's, which feeds no relation.
Started ==
    ~transaction_in_progress /\ Waiting => call = "run" /\ open = EmptyCollection

\* While the constructor waits, no worker has a request.
LEMMA NoRequests ==
    ASSUME PInv, Waiting, call = "run"
    PROVE  \A w \in Worker : requests[w] = <<>>
  BY DEF PInv, FlushPhase, BeforeFlush, DuringFlush, AfterFlush, Silent

\* Between transactions nothing is on its way to the dataflow.
LEMMA NothingPending ==
    ASSUME PInv, Started, ~transaction_in_progress
    PROVE  /\ open = EmptyCollection
           /\ \A w \in Worker : \A i \in DOMAIN requests[w] : requests[w][i].type # "Update"
  <1>1. CASE Waiting
    <2>1. \A w \in Worker : requests[w] = <<>>
      BY <1>1, NoRequests DEF Started
    <2> QED  BY <1>1, <2>1 DEF Started
  <1>2. CASE ~Waiting
    BY <1>2 DEF PInv, ClientPhase, OpenPhase
  <1> QED  BY <1>1, <1>2

\* Every step keeps it so.
LEMMA NextStarted ==
    ASSUME IInv, TypeOK, PInv, Started, [Next]_vars
    PROVE  Started'
  <1> USE DEF relvars, txnvars, loopvars, histvars, sysvars, flowvars
  <1>1. Flushing = {"run", "commit", "rollback", "undone", "stop"}
    BY DEF Flushing
  <1>2. CASE transaction_commit \/ transaction_rollback \/ stop \/ delta_undo_flush
    <2>1. transaction_in_progress' = transaction_in_progress
      BY <1>2 DEF transaction_commit, transaction_rollback, stop, delta_undo_flush
    <2>2. ~need_to_flush => awaiting' = N
      BY <1>2 DEF transaction_commit, transaction_rollback, stop, delta_undo_flush, flush
    <2>3. N \in Nat
      BY ProgramAssumption
    <2> QED  BY <2>1, <2>2, <2>3 DEF Started, Waiting, PInv, ClientPhase
  <1>3. CASE await_flush_ack
    <2>1. /\ Waiting /\ call' \in {call, "idle"}
          /\ UNCHANGED <<transaction_in_progress, open>>
      BY <1>3 DEF await_flush_ack, Waiting
    <2> QED  BY <1>1, <2>1 DEF Started, Waiting
  <1>4. CASE delta_undo_step
    BY <1>1, <1>4, UndoGoesOn DEF Started, Waiting
  <1>5. CASE \/ transaction_start \/ apply_updates \/ apply_updates_rejected
             \/ \E r \in RelId : clear_relation(r)
             \/ \E arrid \in RelId \cup {NoIndex}, k \in Key \cup {None} : query_arrangement(arrid, k)
             \/ run_return \/ transaction_commit_return \/ delta_undo \/ transaction_rollback_return
             \/ apply_updates_send \/ query_receive \/ query_return \/ stop_broadcast \/ stop_return
    <2>1. call' \notin Flushing
      BY <1>1, <1>5
         DEF transaction_start, apply_updates, apply_updates_rejected, Abort, clear_relation, Ready,
             query_arrangement, run_return, transaction_commit_return, delta_undo,
             transaction_rollback_return, apply_updates_send, query_receive, query_return,
             stop_broadcast, stop_return
    <2> QED  BY <2>1 DEF Started, Waiting
  <1>6. CASE apply_updates_step \/ clear_relation_step
    <2>1. PICK r \in RelId : \E u : Apply(r, u)
      BY <1>6 DEF apply_updates_step, clear_relation_step
    <2>2. call' \in {call, "idle"} /\ call \in {"updates", "clear"}
      BY <1>6, <2>1 DEF Apply, Abort, apply_updates_step, clear_relation_step
    <2> QED  BY <1>1, <2>2 DEF Started, Waiting
  <1>7. CASE \E w \in Worker : WorkerNext(w)
    <2>1. PICK w \in Worker : WorkerNext(w)
      BY <1>7
    <2>2. UNCHANGED clientvars
      BY <2>1 DEF WorkerNext, ingest_initial_data, batch_update, handle_flush, flush_ack, handle_query,
                  disable, worker_exit
    <2>3. UNCHANGED open \/ requests[w] # <<>>
      BY <2>1 DEF WorkerNext, ingest_initial_data, batch_update, handle_flush, flush_ack, handle_query,
                  disable, worker_exit, Request
    <2> QED  BY <2>2, <2>3, NoRequests DEF Started, Waiting, clientvars
  <1>8. CASE step
    BY <1>8 DEF step, Started, Waiting, clientvars
  <1>9. CASE Stopped \/ UNCHANGED vars
    BY <1>9 DEF Stopped, Started, Waiting, vars, clientvars
  <1> QED
    BY <1>2, <1>3, <1>4, <1>5, <1>6, <1>7, <1>8, <1>9 DEF Next, Call_, Continue

-----------------------------------------------------------------------------
(* The mapping *)

\* What is committed is what the dataflow shows outside a transaction.
Shown == IF transaction_in_progress THEN base ELSE trace

\* The mapping in terms of the dataflow.
Mapped ==
    /\ AllCommitted = Shown
    /\ Working = IF RollingBack THEN Shown ELSE Combine(Shown, delta)
    /\ Shown \in Collection /\ Working \in Collection

\* Unless changes were dropped, the relations and the dataflow agree on what is committed.
LEMMA MappingAgrees ==
    ASSUME IInv, TypeOK, PInv, EInv, Started, lost = EmptyCollection
    PROVE  Mapped
  <1>1. /\ trace \in Collection /\ base \in Collection /\ snapshot \in Collection
        /\ delta \in Collection /\ AllContents \in Collection /\ Shown \in Collection
    BY AllContentsType DEF TypeOK, ClientTypeOK, RelationsTypeOK, IInv, Shown
  <1>2. ASSUME NEW r \in RelId, kind[r] # "Stream", NEW v \in Value
        PROVE  /\ transaction_in_progress => snapshot[r][v] = base[r][v]
               /\ ~transaction_in_progress => AllContents[r][v] = trace[r][v]
               /\ AllContents[r][v] = Shown[r][v] + delta[r][v]
    <2>1. AllContents[r][v] = Contents(kind[r], elements[r])[v]
      BY DEF AllContents
    <2>2. AllContents[r][v] = Issued(r, v)
      BY <1>2, <2>1 DEF EInv, ContentsIssued
    <2>3. /\ trace[r][v] \in Int /\ base[r][v] \in Int /\ snapshot[r][v] \in Int
          /\ delta[r][v] \in Int /\ AllContents[r][v] \in Int
      BY <1>1 DEF Collection, ZSet
    <2>4. CASE transaction_in_progress
      <3>1. AllContents[r][v] = snapshot[r][v] + delta[r][v]
        BY <1>2, <2>1, <2>4 DEF IInv, DeltaMatches
      <3>2. delta[r][v] = Issued(r, v) - base[r][v]
        BY <2>4 DEF EInv, DeltaIssued
      <3> QED  BY <2>2, <2>3, <2>4, <3>1, <3>2 DEF Shown
    <2>5. CASE ~transaction_in_progress
      <3>1. call \notin Updating
        BY <2>5 DEF IInv, InTransaction, Updating
      <3>2. Issued(r, v) = trace[r][v] + lost[r][v]
        BY <2>5, <3>1, NothingPending, AllTraced
      <3>3. lost[r][v] = 0 /\ delta[r][v] = 0
        BY <2>5 DEF EmptyCollection, EmptyZSet, IInv, DeltaMatches
      <3> QED  BY <2>2, <2>3, <2>5, <3>2, <3>3 DEF Shown
    <2> QED  BY <2>4, <2>5
  <1>3. ASSUME NEW r \in RelId
        PROVE  Committed(r) = Shown[r]
    <2>1. CASE kind[r] = "Stream"
      BY <2>1 DEF Committed, Shown
    <2>2. CASE kind[r] # "Stream" /\ transaction_in_progress
      <3>1. snapshot[r] = base[r]
        BY <1>1, <1>2, <2>2 DEF Collection, ZSet
      <3> QED  BY <2>2, <3>1 DEF Committed, Shown
    <2>3. CASE kind[r] # "Stream" /\ ~transaction_in_progress
      <3>1. AllContents[r] = trace[r]
        BY <1>1, <1>2, <2>3 DEF Collection, ZSet
      <3> QED  BY <2>3, <3>1 DEF Committed, Shown
    <2> QED  BY <2>1, <2>2, <2>3
  <1>4. ASSUME NEW r \in RelId
        PROVE  Current(r) = [v \in Value |-> Shown[r][v] + delta[r][v]]
    <2>1. CASE kind[r] = "Stream"
      BY <1>3, <2>1 DEF Current
    <2>2. CASE kind[r] # "Stream"
      BY <1>1, <1>2, <2>2 DEF Current, Collection, ZSet
    <2> QED  BY <2>1, <2>2
  <1>5. AllCommitted = Shown
    BY <1>1, <1>3 DEF AllCommitted, Collection
  <1>6. Working = IF RollingBack THEN Shown ELSE Combine(Shown, delta)
    <2>1. CASE RollingBack
      BY <1>1, <1>3, <2>1 DEF Working, Collection
    <2>2. CASE ~RollingBack
      BY <1>4, <2>2 DEF Working, Combine
    <2> QED  BY <2>1, <2>2
  <1>7. Combine(Shown, delta) \in Collection
    BY <1>1 DEF Combine, Collection, ZSet
  <1> QED  BY <1>1, <1>5, <1>6, <1>7 DEF Mapped

-----------------------------------------------------------------------------
(* The steps *)

\* A step that the abstract database does not see.
LEMMA Unseen ==
    ASSUME Mapped, Mapped', Shown' = Shown, Phase' = Phase, QueryResult' = QueryResult,
           RollingBack' <=> RollingBack, RollingBack \/ delta' = delta
    PROVE  [DB!Next]_(DB!vars)
  <1>1. AllCommitted' = AllCommitted /\ Working' = Working
    BY DEF Mapped, Combine
  <1> QED  BY <1>1 DEF DB!vars

\* Outside a query there is no answer.
LEMMA NoAnswer ==
    /\ call # "query" => QueryResult = None
    /\ call' # "query" => QueryResult' = None
  BY DEF QueryResult, Flushed

\* A step of the client inside a method, or of a method that neither commits nor rolls back.
LEMMA Inside ==
    ASSUME Mapped, Mapped', UNCHANGED <<delta, transaction_in_progress, base, trace>>,
           call # "query", call' # "query",
           \/ call' = call
           \/ {call, call'} \subseteq {"run", "idle", "updates", "clear", "stop", "join"}
           \/ {call, call'} \subseteq {"rollback", "undo", "undo_flush", "undone"}
    PROVE  [DB!Next]_(DB!vars)
  <1>1. Shown' = Shown
    BY DEF Shown
  <1>2. RollingBack' <=> RollingBack
    BY DEF RollingBack
  <1>3. Phase' = Phase
    BY DEF Phase, RollingBack
  <1> QED  BY <1>1, <1>2, <1>3, NoAnswer, Unseen

\* transaction_start begins the transaction from what is committed.
LEMMA StartIsBegin ==
    ASSUME Mapped, Mapped', transaction_start
    PROVE  DB!Begin
  <1> USE DEF relvars
  <1>1. /\ call = "idle" /\ call' = "idle" /\ ~transaction_in_progress /\ transaction_in_progress'
        /\ base' = trace /\ UNCHANGED delta
    BY DEF transaction_start, Ready
  <1>2. Shown' = Shown /\ ~RollingBack /\ ~RollingBack'
    BY <1>1 DEF Shown, RollingBack
  <1>3. AllCommitted' = AllCommitted /\ Working' = Working
    BY <1>1, <1>2 DEF Mapped, Combine
  <1>4. Phase = "idle" /\ Phase' = "active"
    BY <1>1 DEF Phase, RollingBack
  <1> QED  BY <1>1, <1>3, <1>4, NoAnswer DEF DB!Begin

\* transaction_commit and transaction_rollback end it for its client.
LEMMA CommitIsAsked ==
    ASSUME Mapped, Mapped', transaction_commit
    PROVE  DB!AskCommit
  <1> USE DEF relvars, histvars, sysvars, flowvars
  <1>1. /\ call = "idle" /\ call' = "commit" /\ transaction_in_progress /\ transaction_in_progress'
        /\ UNCHANGED <<delta, base>>
    BY DEF transaction_commit, Ready, flush
  <1>2. Shown' = Shown /\ ~RollingBack /\ ~RollingBack'
    BY <1>1 DEF Shown, RollingBack
  <1>3. AllCommitted' = AllCommitted /\ Working' = Working
    BY <1>1, <1>2 DEF Mapped, Combine
  <1>4. Phase = "active" /\ Phase' = "committing"
    BY <1>1 DEF Phase, RollingBack
  <1> QED  BY <1>1, <1>3, <1>4, NoAnswer DEF DB!AskCommit

LEMMA RollbackIsAsked ==
    ASSUME Mapped, Mapped', transaction_rollback
    PROVE  DB!AskRollback
  <1> USE DEF relvars, histvars, sysvars, flowvars
  <1>1. /\ call = "idle" /\ call' = "rollback" /\ transaction_in_progress /\ transaction_in_progress'
        /\ UNCHANGED <<delta, base>>
    BY DEF transaction_rollback, Ready, flush
  <1>2. Shown' = Shown /\ ~RollingBack /\ RollingBack'
    BY <1>1 DEF Shown, RollingBack
  <1>3. AllCommitted' = AllCommitted /\ Working' = AllCommitted
    BY <1>1, <1>2 DEF Mapped
  <1>4. Phase = "active" /\ Phase' = "rolling"
    BY <1>1 DEF Phase, RollingBack
  <1> QED  BY <1>1, <1>3, <1>4, NoAnswer DEF DB!AskRollback

\* A commit that returns has made the dataflow what the transaction left.
LEMMA ReturnIsCommit ==
    ASSUME IInv, TypeOK, PInv, EInv, Mapped, Mapped', lost = EmptyCollection,
           transaction_commit_return
    PROVE  DB!Commit
  <1> USE DEF sysvars, flowvars
  <1>1. /\ Flushed("commit") /\ call = "commit" /\ call' = "idle" /\ transaction_in_progress
        /\ ~transaction_in_progress' /\ delta' = EmptyCollection /\ UNCHANGED trace
    BY DEF transaction_commit_return, Flushed, IInv, InTransaction
  <1>2. /\ trace \in Collection /\ base \in Collection /\ delta \in Collection
    BY DEF TypeOK, ClientTypeOK, RelationsTypeOK
  <1>3. ASSUME NEW r \in RelId, NEW v \in Value
        PROVE  trace[r][v] = base[r][v] + delta[r][v]
    <2>1. Issued(r, v) = trace[r][v]
      BY <1>1, FlushedEmpty DEF Flushing
    <2>2. delta[r][v] = Issued(r, v) - base[r][v]
      BY <1>1 DEF EInv, DeltaIssued
    <2>3. trace[r][v] \in Int /\ base[r][v] \in Int
      BY <1>2 DEF Collection, ZSet
    <2> QED  BY <2>1, <2>2, <2>3
  <1>4. trace = Combine(base, delta)
    BY <1>2, <1>3 DEF Combine, Collection, ZSet
  <1>5. Working = trace /\ ~RollingBack'
    BY <1>1, <1>4 DEF Mapped, Shown, RollingBack
  <1>6. Shown' = trace
    BY <1>1 DEF Shown
  <1>7. Combine(Shown, delta)' = Combine(trace, EmptyCollection)
    BY <1>1, <1>6 DEF Combine
  <1>8. AllCommitted' = trace /\ Working' = trace
    BY <1>2, <1>5, <1>6, <1>7, CombineEmpty DEF Mapped
  <1>9. Phase = "committing" /\ Phase' = "idle"
    BY <1>1 DEF Phase, RollingBack
  <1> QED  BY <1>1, <1>5, <1>8, <1>9, NoAnswer DEF DB!Commit

\* A rollback that returns has left what was committed.
LEMMA ReturnIsRollback ==
    ASSUME IInv, TypeOK, Mapped, Mapped', DataflowRestored, lost = EmptyCollection,
           transaction_rollback_return
    PROVE  DB!Rollback
  <1> USE DEF relvars, sysvars, flowvars
  <1>1. /\ Flushed("undone") /\ call = "undone" /\ call' = "idle" /\ transaction_in_progress
        /\ ~transaction_in_progress' /\ UNCHANGED <<delta, trace>>
    BY DEF transaction_rollback_return, Flushed, IInv, InTransaction
  <1>2. trace = base /\ delta = EmptyCollection /\ trace \in Collection
    BY <1>1 DEF DataflowRestored, IInv, UndoMatches, TypeOK
  <1>3. Shown = trace /\ Shown' = trace /\ RollingBack /\ ~RollingBack'
    BY <1>1, <1>2 DEF Shown, RollingBack
  <1>4. Combine(Shown, delta)' = Combine(trace, EmptyCollection)
    BY <1>1, <1>2, <1>3 DEF Combine
  <1>5. AllCommitted' = AllCommitted /\ Working' = Working
    BY <1>2, <1>3, <1>4, CombineEmpty DEF Mapped
  <1>6. Phase = "rolling" /\ Phase' = "idle"
    BY <1>1 DEF Phase, RollingBack
  <1> QED  BY <1>1, <1>5, <1>6, NoAnswer DEF DB!Rollback

\* Updates and clear_relation change what the transaction sees.
LEMMA UpdateIsWrite ==
    ASSUME IInv, Mapped, Mapped', call \in {"updates", "clear"}, call' \in {call, "idle"},
           UNCHANGED <<transaction_in_progress, base>>
    PROVE  DB!Write
  <1>1. transaction_in_progress
    BY DEF IInv, InTransaction
  <1>2. AllCommitted' = AllCommitted
    BY <1>1 DEF Mapped, Shown
  <1>3. Phase = "active" /\ Phase' = "active"
    BY <1>1 DEF Phase, RollingBack
  <1>4. Working' \in DB!Collection
    BY DEF Mapped, DB!Collection, Collection, ZSet
  <1> QED  BY <1>2, <1>3, <1>4, NoAnswer DEF DB!Write

\* The answer of the last worker completes a query of what is committed.
LEMMA ReceiveIsQuery ==
    ASSUME TypeOK, TypeOK', Mapped, Mapped', RepliesMatch, QueryIsolation', query_receive
    PROVE  [DB!Next]_(DB!vars)
  <1> USE DEF relvars, txnvars, histvars, sysvars, flowvars
  <1>1. /\ call = "query" /\ awaiting < N /\ replies[awaiting] # <<>>
        /\ UNCHANGED <<delta, transaction_in_progress, base, trace>>
    BY DEF query_receive
  <1>2. awaiting \in Worker /\ N \in Nat
    BY <1>1, ProgramAssumption DEF Worker, TypeOK, ClientTypeOK
  <1>3. Head(replies[awaiting]).type # "FlushAck"
    BY <1>1, <1>2 DEF RepliesMatch, Flushing
  <1>4. replies[awaiting] \in Seq(Reply)
    BY <1>2 DEF TypeOK
  <1>5. Head(replies[awaiting]).type = "QueryRes"
    BY <1>1, <1>3, <1>4, EmptySeq, HeadTailProperties DEF Reply
  <1>6. call' = "query"
    BY <1>1, <1>5 DEF query_receive
  <1>7. Shown' = Shown /\ (RollingBack' <=> RollingBack) /\ Phase' = Phase /\ Phase \in {"idle", "active"}
    BY <1>1, <1>6 DEF Shown, RollingBack, Phase
  <1>8. AllCommitted' = AllCommitted /\ Working' = Working
    BY <1>1, <1>7 DEF Mapped, Combine
  <1>9. QueryResult = None
    BY <1>1, <1>2 DEF QueryResult, Flushed
  <1>10. CASE awaiting' = N /\ ~query'.unknown
    <2>1. Flushed("query")'
      BY <1>6, <1>10 DEF Flushed
    <2>2. /\ query'.arrid # NoIndex
          /\ query'.res = {v \in Value : /\ query'.key \in {None, KeyOf[v]}
                                         /\ Shown[query'.arrid][v] # 0}
      BY <1>7, <1>10, <2>1 DEF QueryIsolation, Shown
    <2>3. PICK q : q = query'
      OBVIOUS
    <2>4. q.arrid \in RelId /\ q.key \in Key \cup {None}
      BY <2>2, <2>3 DEF TypeOK, ClientTypeOK
    <2>5. QueryResult' = q.res
      BY <1>10, <2>1, <2>3 DEF QueryResult
    <2>6. DB!Query(q.arrid, q.key)
      BY <1>7, <1>8, <2>2, <2>3, <2>5 DEF DB!Query, Mapped
    <2> QED  BY <2>4, <2>6 DEF DB!Next
  <1>11. CASE ~(awaiting' = N /\ ~query'.unknown)
    <2>1. QueryResult' = None
      BY <1>11 DEF QueryResult, Flushed
    <2> QED  BY <1>1, <1>7, <1>9, <2>1, Unseen
  <1> QED  BY <1>10, <1>11

\* Every step of the program is a step of the abstract database, or none.
LEMMA Simulation ==
    ASSUME IInv, TypeOK, TypeOK', PInv, EInv, Started, Mapped, Mapped', RepliesMatch,
           QueryIsolation', DataflowRestored, lost = EmptyCollection, [Next]_vars
    PROVE  [DB!Next]_(DB!vars)
  <1> USE DEF relvars, txnvars, loopvars, histvars, sysvars, flowvars
  <1>1. CASE transaction_start
    BY <1>1, StartIsBegin DEF DB!Next
  <1>2. CASE transaction_commit
    BY <1>2, CommitIsAsked DEF DB!Next
  <1>3. CASE transaction_rollback
    BY <1>3, RollbackIsAsked DEF DB!Next
  <1>4. CASE transaction_commit_return
    BY <1>4, ReturnIsCommit DEF DB!Next
  <1>5. CASE transaction_rollback_return
    BY <1>5, ReturnIsRollback DEF DB!Next
  <1>6. CASE apply_updates_step \/ apply_updates_rejected \/ clear_relation_step
    <2>1. call \in {"updates", "clear"} /\ UNCHANGED <<transaction_in_progress, base>>
      BY <1>6 DEF apply_updates_step, apply_updates_rejected, clear_relation_step
    <2>2. call' \in {call, "idle"}
      BY <1>6 DEF apply_updates_step, apply_updates_rejected, clear_relation_step, Apply, Abort
    <2> QED  BY <2>1, <2>2, UpdateIsWrite DEF DB!Next
  <1>7. CASE delta_undo_step
    <2>1. call = "undo" /\ call' = "undo"
      BY <1>7, UndoGoesOn
    <2>2. UNCHANGED <<transaction_in_progress, base>> /\ transaction_in_progress
      BY <1>7, <2>1 DEF delta_undo_step, IInv, InTransaction
    <2>3. Shown' = Shown /\ RollingBack /\ RollingBack' /\ Phase' = Phase
      BY <2>1, <2>2 DEF Shown, RollingBack, Phase
    <2> QED  BY <2>1, <2>3, NoAnswer, Unseen
  <1>8. CASE \/ run_return \/ apply_updates \/ (\E r \in RelId : clear_relation(r))
             \/ delta_undo \/ delta_undo_flush \/ stop \/ stop_broadcast \/ stop_return
    <2>1. UNCHANGED <<delta, transaction_in_progress, base, trace>>
      BY <1>8 DEF run_return, apply_updates, clear_relation, delta_undo, delta_undo_flush, stop,
                  stop_broadcast, stop_return
    <2>2. \/ {call, call'} \subseteq {"run", "idle", "updates", "clear", "stop", "join"}
          \/ {call, call'} \subseteq {"rollback", "undo", "undo_flush", "undone"}
      BY <1>8 DEF run_return, apply_updates, clear_relation, delta_undo, delta_undo_flush, stop,
                  stop_broadcast, stop_return, Ready, Flushed, flush
    <2>3. call # "query" /\ call' # "query"
      BY <2>2
    <2> QED  BY <2>1, <2>2, <2>3, Inside
  <1>9. CASE apply_updates_send
    <2>1. UNCHANGED <<delta, transaction_in_progress, base, trace>>
      BY <1>9 DEF apply_updates_send
    <2>2. \/ {call, call'} \subseteq {"run", "idle", "updates", "clear", "stop", "join"}
          \/ {call, call'} \subseteq {"rollback", "undo", "undo_flush", "undone"}
      BY <1>9 DEF apply_updates_send
    <2>3. call # "query" /\ call' # "query"
      BY <2>2
    <2> QED  BY <2>1, <2>2, <2>3, Inside
  <1>10. CASE await_flush_ack
    <2>1. /\ call \in Flushing /\ awaiting < N /\ replies[awaiting] # <<>>
          /\ UNCHANGED <<delta, transaction_in_progress, base, trace>>
      BY <1>10 DEF await_flush_ack
    <2>2. awaiting \in Worker
      BY <2>1, ProgramAssumption DEF Worker, TypeOK, ClientTypeOK
    <2>3. Head(replies[awaiting]).type = "FlushAck"
      BY <2>1, <2>2 DEF RepliesMatch
    <2>4. call' = call
      BY <1>10, <2>3 DEF await_flush_ack
    <2> QED  BY <2>1, <2>4, Inside DEF Flushing
  <1>11. CASE \E arrid \in RelId \cup {NoIndex}, k \in Key \cup {None} : query_arrangement(arrid, k)
    <2>1. /\ call = "idle" /\ call' = "query" /\ awaiting' = 0
          /\ UNCHANGED <<delta, transaction_in_progress, base, trace>>
      BY <1>11 DEF query_arrangement, Ready
    <2>2. Shown' = Shown /\ (RollingBack' <=> RollingBack) /\ Phase' = Phase
      BY <2>1 DEF Shown, RollingBack, Phase
    <2>3. QueryResult' = None
      BY <2>1, ProgramAssumption DEF QueryResult, Flushed
    <2> QED  BY <2>1, <2>2, <2>3, NoAnswer, Unseen
  <1>12. CASE query_receive
    BY <1>12, ReceiveIsQuery
  <1>13. CASE query_return
    <2>1. /\ call = "query" /\ call' = "idle"
          /\ UNCHANGED <<delta, transaction_in_progress, base, trace>>
      BY <1>13 DEF query_return, Flushed
    <2>2. Shown' = Shown /\ (RollingBack' <=> RollingBack) /\ Phase' = Phase
      BY <2>1 DEF Shown, RollingBack, Phase
    <2>3. AllCommitted' = AllCommitted /\ Working' = Working
      BY <2>1, <2>2 DEF Mapped, Combine
    <2>4. DB!Answered
      BY <2>1, <2>2, <2>3, NoAnswer DEF DB!Answered
    <2> QED  BY <2>4 DEF DB!Next
  <1>14. CASE \E w \in Worker : WorkerNext(w)
    <2>1. UNCHANGED <<clientvars, trace, base>>
      BY <1>14 DEF WorkerNext, ingest_initial_data, batch_update, handle_flush, flush_ack, handle_query,
                   disable, worker_exit
    <2>2. Shown' = Shown /\ (RollingBack' <=> RollingBack) /\ Phase' = Phase
      BY <2>1 DEF Shown, RollingBack, Phase, clientvars
    <2>3. QueryResult' = QueryResult /\ delta' = delta
      BY <2>1 DEF QueryResult, Flushed, clientvars
    <2> QED  BY <2>2, <2>3, Unseen
  <1>15. CASE step
    <2>1. UNCHANGED <<clientvars, base>> /\ trace' = Combine(trace, open)
      BY <1>15 DEF step
    <2>2. ~transaction_in_progress => trace' = trace
      BY <2>1, NothingPending, CombineEmpty DEF TypeOK
    <2>3. Shown' = Shown /\ (RollingBack' <=> RollingBack) /\ Phase' = Phase
      BY <2>1, <2>2 DEF Shown, RollingBack, Phase, clientvars
    <2>4. QueryResult' = QueryResult /\ delta' = delta
      BY <2>1 DEF QueryResult, Flushed, clientvars
    <2> QED  BY <2>3, <2>4, Unseen
  <1>16. CASE Stopped \/ UNCHANGED vars
    <2>1. UNCHANGED <<clientvars, trace, base>>
      BY <1>16 DEF Stopped, vars
    <2>2. Shown' = Shown /\ (RollingBack' <=> RollingBack) /\ Phase' = Phase
      BY <2>1 DEF Shown, RollingBack, Phase, clientvars
    <2>3. QueryResult' = QueryResult /\ delta' = delta
      BY <2>1 DEF QueryResult, Flushed, clientvars
    <2> QED  BY <2>2, <2>3, Unseen
  <1> QED
    BY <1>1, <1>2, <1>3, <1>4, <1>5, <1>6, <1>7, <1>8, <1>9, <1>10, <1>11, <1>12, <1>13, <1>14,
       <1>15, <1>16 DEF Next, Call_, Continue

\* The constructor starts with an empty database.
LEMMA InitDB ==
    ASSUME Init, Mapped
    PROVE  DB!Init
  <1>1. /\ ~transaction_in_progress /\ call = "run" /\ trace = EmptyCollection
        /\ delta = EmptyCollection
    BY DEF Init
  <1>2. Shown = EmptyCollection /\ ~RollingBack
    BY <1>1 DEF Shown, RollingBack
  <1>3. Combine(EmptyCollection, EmptyCollection) = EmptyCollection
    BY CombineEmpty, EmptyCollectionType
  <1>4. AllCommitted = EmptyCollection /\ Working = EmptyCollection
    BY <1>1, <1>2, <1>3 DEF Mapped
  <1>5. Phase = "idle" /\ QueryResult = None
    BY <1>1, NoAnswer DEF Phase, RollingBack
  <1> QED  BY <1>4, <1>5 DEF DB!Init, EmptyCollection, EmptyZSet

-----------------------------------------------------------------------------
(* Theorems *)

\* Between transactions the dataflow has nothing to process, in every reachable state.
THEOREM QuietBetween == ASSUME KeyPreserving PROVE Spec => []Started
  <1>1. Init => Started
    BY DEF Init, Started
  <1>2. IInv /\ TypeOK /\ PInv /\ Started /\ [Next]_vars => Started'
    BY NextStarted
  <1> QED  BY <1>1, <1>2, ProtocolInvariance, PTL DEF Spec

\* No call of apply_updates has dropped changes of an aborted batch.
NothingDropped == lost = EmptyCollection

\* As long as no batch is aborted after some of its changes, the program is a transactional
\* database: commits and rollbacks are atomic, a rollback ends with what was committed before, and
\* queries see committed data of all workers (transaction_commit, transaction_rollback,
\* _query_arrangement).
THEOREM Refinement == ASSUME KeyPreserving PROVE Spec /\ []NothingDropped => ImplementsDB
  <1>1. IInv /\ TypeOK /\ PInv /\ EInv /\ Started /\ NothingDropped => Mapped
    BY MappingAgrees DEF NothingDropped
  <1>2. Init /\ Mapped => DB!Init
    BY InitDB
  <1>3. IInv /\ TypeOK /\ TypeOK' /\ PInv /\ EInv /\ Started /\ Mapped /\ Mapped' /\ RepliesMatch
           /\ QueryIsolation' /\ DataflowRestored /\ NothingDropped /\ [Next]_vars
           => [DB!Next]_(DB!vars)
    BY Simulation DEF NothingDropped
  <1> QED
    BY <1>1, <1>2, <1>3, ExactInvariance, QuietBetween, RepliesInOrder, QueriesIsolated,
       RollbackIsComplete, PTL DEF Spec, ImplementsDB, DB!Spec

\* With one update per call, a call that fails has collected nothing.
WholeBatches ==
    /\ NothingDropped
    /\ call = "updates" /\ batch = 0 => filtered_updates = <<>>

\* Nothing is added by no changes.
LEMMA AddNothing ==
    ASSUME lost = EmptyCollection, filtered_updates = <<>>
    PROVE  Add(lost, filtered_updates) = EmptyCollection
  <1>1. \A r \in RelId, v \in Value : lost[r][v] + Net(filtered_updates, r, v) = 0
    BY NetEmpty DEF EmptyCollection, EmptyZSet
  <1> QED  BY <1>1 DEF Add, EmptyCollection, EmptyZSet

\* Every step of a client with one update per call keeps it so.
LEMMA NextWhole ==
    ASSUME MaxBatch = 1, IInv, TypeOK, EInv, WholeBatches, [Next]_vars
    PROVE  WholeBatches'
  <1> USE DEF relvars, txnvars, loopvars, histvars, NothingDropped
  <1>1. batch \in Nat /\ (batch < MaxBatch => batch = 0)
    BY DEF TypeOK, ClientTypeOK
  <1>2. CASE apply_updates_step
    <2>1. PICK r \in RelId, u \in Update : Apply(r, u)
      BY <1>2 DEF apply_updates_step
    <2>2. call = "updates" /\ filtered_updates = <<>>
      BY <1>1, <1>2 DEF apply_updates_step, WholeBatches
    <2>3. CASE apply_update(kind[r], elements[r], delta[r], u).ok
      BY <1>1, <2>1, <2>2, <2>3 DEF Apply, WholeBatches
    <2>4. CASE ~apply_update(kind[r], elements[r], delta[r], u).ok
      BY <2>1, <2>2, <2>4, AddNothing DEF Apply, Abort, WholeBatches
    <2> QED  BY <2>3, <2>4
  <1>3. CASE apply_updates_rejected
    <2>1. Abort /\ filtered_updates = <<>>
      BY <1>1, <1>3 DEF apply_updates_rejected, WholeBatches
    <2> QED  BY <2>1, AddNothing DEF Abort, WholeBatches
  <1>4. CASE clear_relation_step
    <2>1. PICK r \in RelId : \E u \in clear_updates(r) : Apply(r, u)
      BY <1>4 DEF clear_relation_step
    <2>2. PICK u \in clear_updates(r) : Apply(r, u)
      BY <2>1
    <2>3. call = "clear" /\ apply_update(kind[r], elements[r], delta[r], u).ok
      BY <1>4, ClearOk DEF clear_relation_step
    <2> QED  BY <2>2, <2>3 DEF Apply, WholeBatches
  <1>5. CASE delta_undo_step
    <2>1. PICK r \in RelId : \E u \in delta_undo_updates(todo[r]) : Apply(r, u)
      BY <1>5 DEF delta_undo_step
    <2>2. PICK u \in delta_undo_updates(todo[r]) : Apply(r, u)
      BY <2>1
    <2>3. call = "undo"
      BY <1>5 DEF delta_undo_step
    <2>4. apply_update(kind[r], elements[r], delta[r], u).ok
      BY <2>3, UndoOk
    <2> QED  BY <2>2, <2>3, <2>4 DEF Apply, WholeBatches
  <1>6. CASE apply_updates
    <2>1. call = "idle" /\ UNCHANGED <<lost, filtered_updates>>
      BY <1>6 DEF apply_updates, Ready
    <2> QED  BY <2>1 DEF EInv, Collected, Updating, WholeBatches
  <1>7. CASE \/ transaction_start \/ transaction_commit \/ transaction_rollback \/ stop
             \/ (\E r \in RelId : clear_relation(r))
             \/ \E arrid \in RelId \cup {NoIndex}, k \in Key \cup {None} : query_arrangement(arrid, k)
    <2>1. call' # "updates" /\ UNCHANGED lost
      BY <1>7 DEF transaction_start, transaction_commit, transaction_rollback, stop, clear_relation,
                  query_arrangement, flush, Ready
    <2> QED  BY <2>1 DEF WholeBatches
  <1>8. CASE \/ await_flush_ack \/ run_return \/ transaction_commit_return \/ delta_undo
             \/ delta_undo_flush \/ transaction_rollback_return \/ apply_updates_send
             \/ query_receive \/ query_return \/ stop_broadcast \/ stop_return
    <2>1. call' # "updates" /\ UNCHANGED lost
      BY <1>8 DEF await_flush_ack, run_return, transaction_commit_return, delta_undo, delta_undo_flush,
                  transaction_rollback_return, apply_updates_send, query_receive, query_return,
                  stop_broadcast, stop_return, flush, Flushing, Forget
    <2> QED  BY <2>1 DEF WholeBatches
  <1>9. CASE (\E w \in Worker : WorkerNext(w)) \/ step \/ Stopped \/ UNCHANGED vars
    <2>1. UNCHANGED <<clientvars, lost>>
      BY <1>9 DEF WorkerNext, ingest_initial_data, batch_update, handle_flush, flush_ack, handle_query,
                  disable, worker_exit, step, Stopped, vars
    <2> QED  BY <2>1 DEF WholeBatches, clientvars
  <1> QED
    BY <1>2, <1>3, <1>4, <1>5, <1>6, <1>7, <1>8, <1>9 DEF Next, Call_, Continue

\* In particular, a program whose clients make one update per call (insert, delete_value and the
\* other methods of one update) is a transactional database, whatever fails.
THEOREM SingleUpdates == ASSUME KeyPreserving, MaxBatch = 1 PROVE Spec => ImplementsDB
  <1>1. Init => WholeBatches
    BY DEF Init, WholeBatches, NothingDropped
  <1>2. IInv /\ TypeOK /\ EInv /\ WholeBatches /\ [Next]_vars => WholeBatches'
    BY NextWhole
  <1>3. WholeBatches => NothingDropped
    BY DEF WholeBatches
  <1> QED  BY <1>1, <1>2, <1>3, ExactInvariance, Refinement, PTL DEF Spec
=============================================================================
