--------------------------- MODULE PlotFileProofs ---------------------------
(***************************************************************************)
(* Proofs about a plot file, for any sizes, files and works, for writes    *)
(* that fail halfway, signals, and programs that end anywhere: the layout  *)
(* of the device and of the file, what the writer leaves, and what the     *)
(* verification says of it.                                                *)
(***************************************************************************)
EXTENDS PlotVerify, SequenceTheorems, TLAPS

-----------------------------------------------------------------------------
(* Division                                                                *)

LEMMA DivMod ==
  ASSUME NEW m \in Int, NEW d \in Nat \ {0}
  PROVE  /\ m \div d \in Int
         /\ m % d \in 0 .. d - 1
         /\ m = d * (m \div d) + (m % d)
OBVIOUS

\* Quotient and rest are unique.
LEMMA OneQuotient ==
  ASSUME NEW d \in Nat \ {0}, NEW q \in Int, NEW k \in Int,
         NEW r \in 0 .. d - 1, NEW s \in 0 .. d - 1,
         d * q + r = d * k + s
  PROVE  q = k /\ r = s
<1>1. d * (q - k) = s - r
  OBVIOUS
<1>2. CASE q - k >= 1
  <2>1. d * (q - k) >= d
    BY <1>2
  <2>2. QED
    BY <1>1, <2>1
<1>3. CASE k - q >= 1
  <2>1. d * (k - q) >= d
    BY <1>3
  <2>2. d * (k - q) = r - s
    BY <1>1
  <2>3. QED
    BY <2>1, <2>2
<1>4. CASE q = k
  BY <1>1, <1>4
<1>5. QED
  BY <1>2, <1>3, <1>4

LEMMA DivModOf ==
  ASSUME NEW d \in Nat \ {0}, NEW q \in Int, NEW r \in 0 .. d - 1
  PROVE  (d * q + r) \div d = q /\ (d * q + r) % d = r
<1> DEFINE m == d * q + r
<1>1. m \in Int
  OBVIOUS
<1>2. /\ m \div d \in Int /\ m % d \in 0 .. d - 1
      /\ d * (m \div d) + (m % d) = m
  BY <1>1, DivMod
<1>3. d * (m \div d) + (m % d) = d * q + r
  BY <1>2
<1> HIDE DEF m
<1>4. m \div d = q /\ m % d = r
  BY <1>2, <1>3, OneQuotient
<1>5. QED
  BY <1>4 DEF m

\* Divisibility, without a rest.
Times(d, m) == \E q \in Int : m = d * q

LEMMA TimesIs ==
  ASSUME NEW d \in Nat \ {0}, NEW m \in Int
  PROVE  m % d = 0 <=> Times(d, m)
<1>1. ASSUME m % d = 0
      PROVE  Times(d, m)
  <2>1. m = d * (m \div d) /\ m \div d \in Int
    BY <1>1, DivMod
  <2>2. QED
    BY <2>1 DEF Times
<1>2. ASSUME NEW q \in Int, m = d * q
      PROVE  m % d = 0
  <2>1. m = d * q + 0 /\ 0 \in 0 .. d - 1
    BY <1>2
  <2>2. QED
    BY <2>1, DivModOf
<1>3. QED
  BY <1>1, <1>2 DEF Times

LEMMA TimesSum ==
  ASSUME NEW d \in Nat \ {0}, NEW m \in Int, NEW k \in Int,
         Times(d, m), Times(d, k)
  PROVE  Times(d, m + k) /\ Times(d, m - k)
<1>1. PICK p \in Int : m = d * p
  BY DEF Times
<1>2. PICK q \in Int : k = d * q
  BY DEF Times
<1>3. /\ p + q \in Int /\ m + k = d * (p + q)
      /\ p - q \in Int /\ m - k = d * (p - q)
  BY <1>1, <1>2
<1>4. \A x, y : x \in Int /\ y = d * x => Times(d, y)
  BY DEF Times
<1>5. QED
  BY <1>3, <1>4

LEMMA TimesProduct ==
  ASSUME NEW d \in Nat \ {0}, NEW m \in Int, NEW k \in Int, Times(d, m)
  PROVE  Times(d, m * k) /\ Times(d, k * m)
<1>1. PICK p \in Int : m = d * p
  BY DEF Times
<1>2. m * k = d * (p * k) /\ k * m = d * (p * k) /\ p * k \in Int
  BY <1>1
<1>3. QED
  BY <1>2 DEF Times

LEMMA TimesTrans ==
  ASSUME NEW d \in Nat \ {0}, NEW m \in Nat \ {0}, NEW k \in Int,
         Times(d, m), Times(m, k)
  PROVE  Times(d, k)
<1>1. PICK q \in Int : k = m * q
  BY DEF Times
<1>2. QED
  BY <1>1, TimesProduct

LEMMA ProductPositive ==
  ASSUME NEW p \in Nat \ {0}, NEW q \in Nat \ {0}
  PROVE  p * q \in Nat \ {0}
OBVIOUS

LEMMA ProductNat ==
  ASSUME NEW p \in Nat, NEW q \in Nat
  PROVE  p * q \in Nat
OBVIOUS

LEMMA ProductMonotone ==
  ASSUME NEW d \in Nat, NEW p \in Int, NEW q \in Int, p <= q
  PROVE  d * p <= d * q
<1>1. d * (q - p) >= 0
  OBVIOUS
<1>2. QED
  BY <1>1

-----------------------------------------------------------------------------
(* The layout of the device                                                *)

LEMMA LayoutIs ==
  /\ NoncesVector \in Nat \ {0} /\ HashWords \in Nat \ {0}
  /\ NumHashes \in Nat \ {0} /\ IntRange \in Nat \ {0}
  /\ NonceWords \in Nat \ {0} /\ NonceWords = HashWords * NumHashes
  /\ PlotSize \in Nat \ {0} /\ PlotSize = 4 * NonceWords
  /\ Scoops \in Nat \ {0} /\ NumHashes = 2 * Scoops /\ Scoops % 2 = 0
<1>1. /\ NoncesVector \in Nat \ {0} /\ HashWords \in Nat \ {0}
      /\ NumHashes \in Nat \ {0} /\ IntRange \in Nat \ {0}
      /\ NumHashes % 4 = 0
  BY LayoutAssumption
<1>2. NonceWords \in Nat \ {0} /\ NonceWords = HashWords * NumHashes
  BY <1>1, ProductPositive DEF NonceWords
<1>3. PlotSize \in Nat \ {0} /\ PlotSize = 4 * NonceWords
  BY <1>2 DEF PlotSize, WordBytes
<1>4. Scoops \in Nat \ {0} /\ NumHashes = 2 * Scoops /\ Scoops % 2 = 0
  BY <1>1 DEF Scoops
<1>5. QED
  BY <1>1, <1>2, <1>3, <1>4

\* Places in terms of vectors.
LEMMA AlignDownIs ==
  ASSUME NEW k \in Nat
  PROVE  \E c \in Nat :
           /\ AlignDown(k) = NoncesVector * c
           /\ k = NoncesVector * c + (k % NoncesVector)
           /\ k % NoncesVector \in 0 .. NoncesVector - 1
           /\ AlignDown(k) \in 0 .. k
<1> DEFINE c == k \div NoncesVector
           r == k % NoncesVector
<1>1. c \in Int /\ r \in 0 .. NoncesVector - 1 /\ k = NoncesVector * c + r
  BY LayoutIs, DivMod
<1> HIDE DEF c, r
<1>2. c >= 0
  <2>1. ASSUME c <= -1
        PROVE  FALSE
    <3>1. NoncesVector * c <= NoncesVector * (-1)
      BY <1>1, <2>1, LayoutIs, ProductMonotone
    <3>2. QED
      BY <1>1, <3>1, LayoutIs
  <2>2. QED
    BY <1>1, <2>1
<1>3. AlignDown(k) = k - r
  BY DEF AlignDown, r
<1>4. NoncesVector * c \in Nat
  BY <1>1, <1>2, LayoutIs, ProductNat
<1>5. /\ c \in Nat /\ AlignDown(k) = NoncesVector * c
      /\ k = NoncesVector * c + r /\ AlignDown(k) \in 0 .. k
  BY <1>1, <1>2, <1>3, <1>4, LayoutIs
<1>6. r = k % NoncesVector
  BY DEF r
<1>7. QED
  BY <1>1, <1>5, <1>6

\* A place as nested quotients and rests.
LEMMA PlaceIs ==
  ASSUME NEW c \in Int, NEW r \in 0 .. NoncesVector - 1,
         NEW h \in Int, NEW w \in Int, NEW k \in Nat, k = NoncesVector * c + r
  PROVE  /\ k % NoncesVector = r
         /\ AlignDown(k) = NoncesVector * c
         /\ Place(k, h, w) =
              NoncesVector * (HashWords * (NumHashes * c + h) + w) + r
<1>1. k % NoncesVector = r
  BY DivModOf, LayoutIs
<1>2. AlignDown(k) = NoncesVector * c
  BY <1>1, LayoutIs DEF AlignDown
<1>3. Place(k, h, w) = (NoncesVector * c) * (HashWords * NumHashes)
                         + h * NoncesVector * HashWords + w * NoncesVector + r
  BY <1>1, <1>2 DEF Place, NonceWords
<1>4. \A V, W, H \in Int :
        (V * c) * (W * H) + h * V * W + w * V + r =
          V * (W * (H * c + h) + w) + r
  OBVIOUS
<1>5. QED
  BY <1>1, <1>2, <1>3, <1>4, LayoutIs

Hashes == 0 .. NumHashes - 1
HashPlaces == 0 .. HashWords - 1

\* Every word has a place of its own.
LEMMA PlaceUnique ==
  ASSUME NEW k \in Nat, NEW h \in Hashes, NEW w \in HashPlaces,
         NEW l \in Nat, NEW g \in Hashes, NEW v \in HashPlaces,
         Place(k, h, w) = Place(l, g, v)
  PROVE  k = l /\ h = g /\ w = v
<1>1. PICK c \in Nat : k = NoncesVector * c + (k % NoncesVector)
                        /\ k % NoncesVector \in 0 .. NoncesVector - 1
  BY AlignDownIs
<1>2. PICK e \in Nat : l = NoncesVector * e + (l % NoncesVector)
                        /\ l % NoncesVector \in 0 .. NoncesVector - 1
  BY AlignDownIs
<1> DEFINE r == k % NoncesVector
           s == l % NoncesVector
           ph == NumHashes * c + h
           pg == NumHashes * e + g
           pw == HashWords * ph + w
           pv == HashWords * pg + v
<1>3. ph \in Int /\ pg \in Int
  BY LayoutIs DEF Hashes
<1>4. pw \in Int /\ pv \in Int
  <2> HIDE DEF ph, pg
  <2>1. QED
    BY <1>3, LayoutIs DEF HashPlaces
<1>5. NoncesVector * pw + r = NoncesVector * pv + s
  <2>1. Place(k, h, w) = NoncesVector * pw + r
    BY <1>1, PlaceIs DEF Hashes, HashPlaces
  <2>2. Place(l, g, v) = NoncesVector * pv + s
    BY <1>2, PlaceIs DEF Hashes, HashPlaces
  <2>3. QED
    BY <2>1, <2>2
<1>6. pw = pv /\ r = s
  <2> HIDE DEF pw, pv
  <2>1. QED
    BY <1>1, <1>2, <1>4, <1>5, LayoutIs, OneQuotient
<1>7. ph = pg /\ w = v
  <2> HIDE DEF ph, pg
  <2>1. QED
    BY <1>3, <1>6, LayoutIs, OneQuotient DEF HashPlaces
<1>8. c = e /\ h = g
  <2>1. NumHashes * c + h = NumHashes * e + g
    BY <1>7
  <2>2. h \in 0 .. NumHashes - 1 /\ g \in 0 .. NumHashes - 1
    BY DEF Hashes
  <2>3. NumHashes \in Nat \ {0} /\ c \in Int /\ e \in Int
    BY LayoutIs
  <2>4. QED
    BY <2>1, <2>2, <2>3, OneQuotient
<1>9. QED
  BY <1>1, <1>2, <1>6, <1>7, <1>8

\* A place is in the memory of its vector.
LEMMA PlaceBounds ==
  ASSUME NEW k \in Nat, NEW h \in Hashes, NEW w \in HashPlaces
  PROVE  /\ Place(k, h, w) \in Nat
         /\ Place(k, h, w) >= AlignDown(k) * NonceWords
         /\ Place(k, h, w) < (AlignDown(k) + NoncesVector) * NonceWords
<1>1. PICK c \in Nat : /\ AlignDown(k) = NoncesVector * c
                       /\ k = NoncesVector * c + (k % NoncesVector)
                       /\ k % NoncesVector \in 0 .. NoncesVector - 1
  BY AlignDownIs
<1> DEFINE r == k % NoncesVector
           x == HashWords * h + w
<1>2. Place(k, h, w) =
        NoncesVector * (HashWords * (NumHashes * c + h) + w) + r
  BY <1>1, PlaceIs DEF Hashes, HashPlaces
<1>3. x \in 0 .. NonceWords - 1
  <2>1. HashWords * h >= 0 /\ HashWords * h \in Int
    BY LayoutIs DEF Hashes
  <2>2. HashWords * h <= HashWords * (NumHashes - 1)
    BY LayoutIs, ProductMonotone DEF Hashes
  <2>3. HashWords * (NumHashes - 1) = NonceWords - HashWords
    BY LayoutIs
  <2>4. QED
    BY <2>1, <2>2, <2>3, LayoutIs DEF HashPlaces
<1>4. Place(k, h, w) = (NoncesVector * c) * NonceWords + (NoncesVector * x + r)
  <2>1. \A V, W, H \in Int :
          V * (W * (H * c + h) + w) + r = (V * c) * (W * H) + (V * (W * h + w) + r)
    BY <1>1, LayoutIs DEF Hashes, HashPlaces
  <2>2. NoncesVector * (HashWords * (NumHashes * c + h) + w) + r =
          (NoncesVector * c) * (HashWords * NumHashes)
            + (NoncesVector * (HashWords * h + w) + r)
    <3>1. NoncesVector \in Int /\ HashWords \in Int /\ NumHashes \in Int
      BY LayoutIs
    <3>2. QED
      BY <2>1, <3>1, Zenon
  <2>3. HashWords * NumHashes = NonceWords
    BY LayoutIs
  <2>4. QED
    BY <1>2, <2>2, <2>3
<1> HIDE DEF x, r
<1>5. NoncesVector * x + r \in 0 .. NoncesVector * NonceWords - 1
  <2>1. NoncesVector * x <= NoncesVector * (NonceWords - 1)
    BY <1>3, LayoutIs, ProductMonotone
  <2>2. NoncesVector * (NonceWords - 1) = NoncesVector * NonceWords - NoncesVector
    BY LayoutIs
  <2>3. NoncesVector * x \in Nat
    BY <1>3, LayoutIs, ProductNat
  <2>4. r \in 0 .. NoncesVector - 1
    BY <1>1 DEF r
  <2>5. NoncesVector * NonceWords \in Nat
    BY LayoutIs, ProductNat
  <2>6. QED
    BY <2>1, <2>2, <2>3, <2>4, <2>5, LayoutIs
<1>6. (NoncesVector * c) * NonceWords \in Nat
  BY <1>1, LayoutIs, ProductNat
<1>7. (NoncesVector * c + NoncesVector) * NonceWords =
        (NoncesVector * c) * NonceWords + NoncesVector * NonceWords
  BY <1>1, LayoutIs
<1>8. NoncesVector * NonceWords \in Nat
  BY LayoutIs, ProductNat
<1>9. QED
  BY <1>1, <1>4, <1>5, <1>6, <1>7, <1>8

\* The places of the nonces below a whole number of vectors.
LEMMA PlaceBelow ==
  ASSUME NEW b \in Nat, Times(NoncesVector, b),
         NEW k \in 0 .. b - 1, NEW h \in Hashes, NEW w \in HashPlaces
  PROVE  Place(k, h, w) \in 0 .. b * NonceWords - 1
<1>1. PICK c \in Nat : /\ AlignDown(k) = NoncesVector * c
                       /\ k = NoncesVector * c + (k % NoncesVector)
                       /\ k % NoncesVector \in 0 .. NoncesVector - 1
  BY AlignDownIs
<1>2. PICK e \in Int : b = NoncesVector * e
  BY DEF Times
<1>3. c + 1 <= e
  <2>1. ASSUME e <= c
        PROVE  FALSE
    <3>1. NoncesVector * e <= NoncesVector * c
      BY <1>1, <1>2, <2>1, LayoutIs, ProductMonotone
    <3>2. NoncesVector * c \in Int
      BY <1>1, LayoutIs
    <3>3. QED
      BY <1>1, <1>2, <3>1, <3>2, LayoutIs
  <2>2. QED
    BY <1>1, <1>2, <2>1
<1>4. AlignDown(k) + NoncesVector <= b
  <2>1. NoncesVector * (c + 1) <= NoncesVector * e
    BY <1>1, <1>2, <1>3, LayoutIs, ProductMonotone
  <2>2. NoncesVector * (c + 1) = NoncesVector * c + NoncesVector
    BY <1>1, LayoutIs
  <2>3. QED
    BY <1>1, <1>2, <2>1, <2>2
<1>5. AlignDown(k) \in Nat
  BY <1>1, LayoutIs, ProductNat
<1>6. NonceWords * (AlignDown(k) + NoncesVector) <= NonceWords * b
  BY <1>4, <1>5, LayoutIs, ProductMonotone
<1>7. QED
  BY <1>5, <1>6, PlaceBounds, LayoutIs

\* The places of later vectors.
LEMMA PlaceShift ==
  ASSUME NEW b \in Nat, Times(NoncesVector, b),
         NEW k \in Nat, NEW h \in Hashes, NEW w \in HashPlaces
  PROVE  Place(b + k, h, w) = b * NonceWords + Place(k, h, w)
<1>1. PICK c \in Nat : /\ k = NoncesVector * c + (k % NoncesVector)
                       /\ k % NoncesVector \in 0 .. NoncesVector - 1
  BY AlignDownIs
<1>2. PICK e \in Int : b = NoncesVector * e
  BY DEF Times
<1> DEFINE r == k % NoncesVector
<1>3. r \in 0 .. NoncesVector - 1 /\ k = NoncesVector * c + r
  BY <1>1
<1> HIDE DEF r
<1>4. b + k = NoncesVector * (e + c) + r /\ e + c \in Int
  BY <1>2, <1>3, LayoutIs
<1>5. Place(b + k, h, w) =
        NoncesVector * (HashWords * (NumHashes * (e + c) + h) + w) + r
  BY <1>3, <1>4, PlaceIs DEF Hashes, HashPlaces
<1>6. Place(k, h, w) = NoncesVector * (HashWords * (NumHashes * c + h) + w) + r
  BY <1>3, PlaceIs DEF Hashes, HashPlaces
<1>7. \A V, W, H \in Int :
        V * (W * (H * (e + c) + h) + w) + r =
          (V * e) * (W * H) + (V * (W * (H * c + h) + w) + r)
  BY <1>3 DEF Hashes, HashPlaces
<1>8. NoncesVector * (HashWords * (NumHashes * (e + c) + h) + w) + r =
        (NoncesVector * e) * (HashWords * NumHashes)
          + (NoncesVector * (HashWords * (NumHashes * c + h) + w) + r)
  <2>1. NoncesVector \in Int /\ HashWords \in Int /\ NumHashes \in Int
    BY LayoutIs
  <2>2. QED
    BY <1>7, <2>1, Zenon
<1>9. HashWords * NumHashes = NonceWords
  BY LayoutIs
<1>10. QED
  BY <1>2, <1>5, <1>6, <1>8, <1>9

\* An int in range stays what it is.
LEMMA WrapIs ==
  ASSUME NEW p \in 0 .. IntRange - 1
  PROVE  Wrap(p) = p
<1>1. p + IntRange = (2 * IntRange) * 0 + (p + IntRange)
      /\ p + IntRange \in 0 .. 2 * IntRange - 1 /\ 2 * IntRange \in Nat \ {0}
  BY LayoutIs
<1>2. (p + IntRange) % (2 * IntRange) = p + IntRange
  BY <1>1, DivModOf
<1>3. QED
  BY <1>2, LayoutIs DEF Wrap

\* If the vector of a nonce starts in range, all its addresses are right.
LEMMA AddressIs ==
  ASSUME NEW k \in Nat, AlignDown(k) * NonceWords < IntRange,
         NEW h \in Hashes, NEW w \in HashPlaces
  PROVE  Address(k, h, w) = Place(k, h, w)
<1>1. PICK c \in Nat : AlignDown(k) = NoncesVector * c
  BY AlignDownIs
<1> DEFINE x == NoncesVector * NonceWords
<1>2. x \in Nat \ {0}
  BY LayoutIs, ProductPositive
<1>3. PICK e \in Int : IntRange = x * e
  <2>1. IntRange % x = 0
    BY LayoutAssumption DEF NonceWords
  <2>2. Times(x, IntRange)
    BY <1>2, <2>1, TimesIs, LayoutIs
  <2>3. QED
    BY <2>2 DEF Times
<1>4. AlignDown(k) * NonceWords = x * c
  BY <1>1, LayoutIs
<1>5. (AlignDown(k) + NoncesVector) * NonceWords = x * (c + 1)
  BY <1>1, LayoutIs
<1> HIDE DEF x
<1>6. c + 1 <= e
  <2>1. ASSUME e <= c
        PROVE  FALSE
    <3>1. x * e <= x * c
      BY <1>1, <1>2, <1>3, <2>1, ProductMonotone
    <3>2. x * c \in Int
      BY <1>1, <1>2
    <3>3. QED
      BY <1>3, <1>4, <3>1, <3>2, LayoutIs
  <2>2. QED
    BY <1>1, <1>3, <2>1
<1>7. x * (c + 1) <= x * e
  BY <1>1, <1>2, <1>3, <1>6, ProductMonotone
<1>8. Place(k, h, w) \in Nat /\ Place(k, h, w) < x * (c + 1)
  BY <1>5, PlaceBounds
<1>9. Place(k, h, w) \in 0 .. IntRange - 1
  BY <1>1, <1>2, <1>3, <1>7, <1>8, LayoutIs
<1>10. QED
  BY <1>9, WrapIs DEF Address

-----------------------------------------------------------------------------
(* What the operators on memories and files return                         *)

LEMMA GarbageIs ==
  /\ Garbage \in Contents
  /\ Garbage[1] = -1
  /\ \A k \in Nat : \A h, w : Garbage # Word(k, h, w)
BY DEF Garbage, Contents, Word

LEMMA WordIs ==
  ASSUME NEW k \in Int, NEW h \in Nat, NEW w \in Nat
  PROVE  Word(k, h, w) \in Contents /\ Word(k, h, w)[1] = k
BY DEF Word, Contents

LEMMA AtIs ==
  ASSUME NEW N \in Nat, NEW mem \in Memory(N), NEW p
  PROVE  At(mem, p) \in Contents
BY GarbageIs DEF At, Memory

LEMMA ScoopIs ==
  ASSUME NEW N \in Nat, NEW mem \in Memory(N), NEW s, NEW k
  PROVE  Scoop(mem, s, k) \in Units
<1>1. \A p : At(mem, p) \in Contents
  BY AtIs
<1>2. QED
  BY <1>1 DEF Scoop, Units

LEMMA TranspositionIs ==
  ASSUME NEW N \in Nat, NEW mem \in Memory(N), NEW s, NEW b \in Nat, NEW m \in Nat
  PROVE  /\ transposition(mem, s, b, m) \in Seq(Units)
         /\ Len(transposition(mem, s, b, m)) = m
         /\ \A j \in 1 .. m : transposition(mem, s, b, m)[j] = Scoop(mem, s, b + j - 1)
<1>1. \A j \in 1 .. m : Scoop(mem, s, b + j - 1) \in Units
  BY ScoopIs
<1> DEFINE t == [j \in 1 .. m |-> Scoop(mem, s, b + j - 1)]
<1>2. t \in [1 .. m -> Units]
  BY <1>1
<1>3. t \in Seq(Units)
  <2> HIDE DEF t
  <2>1. t \in UNION {[1 .. l -> Units] : l \in Nat}
    BY <1>2
  <2>2. QED
    BY <2>1, SeqDef, Zenon
<1>4. DOMAIN t = 1 .. m /\ \A j \in 1 .. m : t[j] = Scoop(mem, s, b + j - 1)
  OBVIOUS
<1> HIDE DEF t
<1>5. Len(t) = m
  BY <1>3, <1>4, LenProperties
<1>6. t = transposition(mem, s, b, m)
  BY DEF t, transposition
<1>7. QED
  BY <1>3, <1>4, <1>5, <1>6

LEMMA EmptyBlockIs ==
  ASSUME NEW N \in Nat
  PROVE  /\ EmptyBlock(N) \in Memory(N)
         /\ \A p \in DOMAIN EmptyBlock(N) : EmptyBlock(N)[p] = Garbage
BY GarbageIs DEF EmptyBlock, Memory

\* What a batch leaves at a place: a word of one of its nonces with that
\* address or, if there is none, what was there.
Stale(mem, m, k, p) ==
  /\ Plotted(mem, m, k)[p] = mem[p]
  /\ \A a \in 0 .. k - 1, h \in Hashes, w \in HashPlaces : Address(a, h, w) # p

Fresh(mem, m, k, p) ==
  \E a \in 0 .. k - 1, h \in Hashes, w \in HashPlaces :
    Address(a, h, w) = p /\ Plotted(mem, m, k)[p] = Word(m + a, h, w)

LEMMA PlottedIs ==
  ASSUME NEW mem, NEW m, NEW k, NEW p \in DOMAIN mem
  PROVE  Stale(mem, m, k, p) \/ Fresh(mem, m, k, p)
<1> DEFINE here == {x \in WordsOf(k) : Address(x[1], x[2], x[3]) = p}
<1>1. Plotted(mem, m, k)[p] =
        IF here = {} THEN mem[p]
        ELSE LET x == CHOOSE x \in here : TRUE IN Word(m + x[1], x[2], x[3])
  BY DEF Plotted
<1>2. CASE here = {}
  <2>1. \A a \in 0 .. k - 1, h \in Hashes, w \in HashPlaces : Address(a, h, w) # p
    <3>1. SUFFICES ASSUME NEW a \in 0 .. k - 1, NEW h \in Hashes, NEW w \in HashPlaces,
                          Address(a, h, w) = p
                   PROVE  FALSE
      OBVIOUS
    <3>2. <<a, h, w>> \in WordsOf(k)
      BY DEF WordsOf, Hashes, HashPlaces
    <3>3. <<a, h, w>> \in here
      BY <3>1, <3>2
    <3>4. QED
      BY <1>2, <3>3
  <2>2. QED
    BY <1>1, <1>2, <2>1 DEF Stale
<1>3. CASE here # {}
  <2> DEFINE x == CHOOSE x \in here : TRUE
  <2>1. x \in here
    BY <1>3
  <2>2. x \in WordsOf(k) /\ Address(x[1], x[2], x[3]) = p
    BY <2>1
  <2>3. Plotted(mem, m, k)[p] = Word(m + x[1], x[2], x[3])
    BY <1>1, <1>3
  <2> HIDE DEF x
  <2>4. x[1] \in 0 .. k - 1 /\ x[2] \in Hashes /\ x[3] \in HashPlaces
    BY <2>2 DEF WordsOf, Hashes, HashPlaces
  <2>5. QED
    BY <2>2, <2>3, <2>4 DEF Fresh
<1>4. QED
  BY <1>2, <1>3

LEMMA PlottedType ==
  ASSUME NEW N \in Nat, NEW mem \in Memory(N), NEW m \in Nat, NEW k \in Nat
  PROVE  Plotted(mem, m, k) \in Memory(N)
<1>1. DOMAIN mem = 0 .. N * NonceWords - 1
  BY DEF Memory
<1>2. ASSUME NEW p \in DOMAIN mem
      PROVE  Plotted(mem, m, k)[p] \in Contents
  <2>1. CASE Plotted(mem, m, k)[p] = mem[p]
    BY <2>1 DEF Memory
  <2>2. ASSUME NEW a \in 0 .. k - 1, NEW h \in Hashes, NEW w \in HashPlaces,
               Plotted(mem, m, k)[p] = Word(m + a, h, w)
        PROVE  Plotted(mem, m, k)[p] \in Contents
    BY <2>2, WordIs DEF Hashes, HashPlaces
  <2>3. \/ Plotted(mem, m, k)[p] = mem[p]
        \/ \E a \in 0 .. k - 1, h \in Hashes, w \in HashPlaces :
             Plotted(mem, m, k)[p] = Word(m + a, h, w)
    <3>1. Stale(mem, m, k, p) \/ Fresh(mem, m, k, p)
      BY PlottedIs
    <3>2. QED
      BY <3>1 DEF Stale, Fresh
  <2>4. QED
    BY <2>1, <2>2, <2>3, Zenon
<1>3. Plotted(mem, m, k) = [p \in DOMAIN mem |-> Plotted(mem, m, k)[p]]
  BY DEF Plotted
<1>4. QED
  BY <1>1, <1>2, <1>3 DEF Memory

\* The vectors of the first nonces start in the range of int.
AllNear(c) == \A k \in 0 .. c - 1 : AlignDown(k) * NonceWords < IntRange

\* A batch all of whose addresses are right is right.
LEMMA PlottedRight ==
  ASSUME NEW mem, NEW m \in Nat, NEW c \in Nat, AllNear(c),
         NEW k \in 0 .. c - 1, NEW h \in Hashes, NEW w \in HashPlaces,
         NEW p \in DOMAIN mem, p = Place(k, h, w)
  PROVE  Plotted(mem, m, c)[p] = Word(m + k, h, w)
<1> DEFINE here == {x \in WordsOf(c) : Address(x[1], x[2], x[3]) = p}
           y == CHOOSE x \in here : TRUE
<1>1. Address(k, h, w) = p
  BY AddressIs DEF AllNear
<1>2. <<k, h, w>> \in here
  BY <1>1 DEF WordsOf, Hashes, HashPlaces
<1>3. y \in here
  BY <1>2
<1>4. y \in WordsOf(c) /\ Address(y[1], y[2], y[3]) = p
  BY <1>3
<1>5. Plotted(mem, m, c)[p] = Word(m + y[1], y[2], y[3])
  BY <1>2 DEF Plotted
<1> HIDE DEF y
<1>6. y[1] \in 0 .. c - 1 /\ y[2] \in Hashes /\ y[3] \in HashPlaces
  BY <1>4 DEF WordsOf, Hashes, HashPlaces
<1>7. Place(y[1], y[2], y[3]) = Place(k, h, w)
  BY <1>4, <1>6, AddressIs DEF AllNear
<1>8. y[1] = k /\ y[2] = h /\ y[3] = w
  BY <1>6, <1>7, PlaceUnique
<1>9. QED
  BY <1>5, <1>8

LEMMA CopiedIs ==
  ASSUME NEW N \in Nat, block \in Memory(N), NEW M \in Nat, NEW mem \in Memory(M)
  PROVE  Copied(mem) \in Memory(N)
<1> DEFINE b == host_buff \div WordBytes
<1>1. \A p \in DOMAIN block : (IF p - b \in DOMAIN mem THEN mem[p - b] ELSE block[p]) \in Contents
  BY DEF Memory
<1>2. Copied(mem) = [p \in DOMAIN block |-> IF p - b \in DOMAIN mem THEN mem[p - b] ELSE block[p]]
  BY DEF Copied
<1>3. QED
  BY <1>1, <1>2 DEF Memory

\* What may be in a file.
Stuff == Units \cup {Blank}

LEMMA FunctionIsSeq ==
  ASSUME NEW S, NEW m \in Nat, NEW f \in [1 .. m -> S]
  PROVE  f \in Seq(S) /\ Len(f) = m
<1>1. f \in UNION {[1 .. l -> S] : l \in Nat}
  OBVIOUS
<1>2. f \in Seq(S)
  BY <1>1, SeqDef, Zenon
<1>3. DOMAIN f = 1 .. m /\ DOMAIN f = 1 .. Len(f) /\ Len(f) \in Nat
  BY <1>2, LenProperties
<1>4. QED
  BY <1>2, <1>3

LEMMA LargerIs ==
  ASSUME NEW x \in Int, NEW y \in Int
  PROVE  /\ Larger(x, y) \in Int /\ Larger(x, y) >= x /\ Larger(x, y) >= y
         /\ Larger(x, y) = x \/ Larger(x, y) = y
         /\ Smaller(x, y) \in Int /\ Smaller(x, y) <= x /\ Smaller(x, y) <= y
         /\ Smaller(x, y) = x \/ Smaller(x, y) = y
BY DEF Larger, Smaller

LEMMA OverwrittenIs ==
  ASSUME data \in Seq(Stuff), NEW p \in Nat, NEW s \in Seq(Units)
  PROVE  /\ Overwritten(p, s) \in Seq(Stuff)
         /\ Len(Overwritten(p, s)) = Larger(size, p + Len(s))
         /\ \A x \in 1 .. Larger(size, p + Len(s)) :
              Overwritten(p, s)[x] =
                IF x - p \in 1 .. Len(s) THEN s[x - p]
                ELSE IF x <= size THEN data[x] ELSE Blank
<1> DEFINE m == Larger(size, p + Len(s))
           e(x) == IF x - p \in 1 .. Len(s) THEN s[x - p]
                   ELSE IF x <= size THEN data[x] ELSE Blank
<1>1. size \in Nat /\ Len(s) \in Nat
  BY LenProperties DEF size
<1>2. m \in Nat
  BY <1>1 DEF Larger
<1>3. ASSUME NEW x \in 1 .. m
      PROVE  e(x) \in Stuff
  <2>1. CASE x - p \in 1 .. Len(s)
    BY <2>1, ElementOfSeq DEF Stuff
  <2>2. CASE x - p \notin 1 .. Len(s) /\ x <= size
    <3>1. x \in 1 .. Len(data)
      BY <1>1, <1>2, <2>2 DEF size
    <3>2. data[x] \in Stuff
      BY <3>1, ElementOfSeq
    <3>3. QED
      BY <2>2, <3>2
  <2>3. CASE x - p \notin 1 .. Len(s) /\ ~(x <= size)
    BY <2>3 DEF Stuff
  <2>4. QED
    BY <2>1, <2>2, <2>3
<1>4. Overwritten(p, s) = [x \in 1 .. m |-> e(x)]
  BY DEF Overwritten
<1> HIDE DEF m
<1>5. Overwritten(p, s) \in [1 .. m -> Stuff]
  BY <1>3, <1>4
<1>6. Overwritten(p, s) \in Seq(Stuff) /\ Len(Overwritten(p, s)) = m
  BY <1>2, <1>5, FunctionIsSeq
<1>7. QED
  BY <1>4, <1>6 DEF m

LEMMA AllocatedIs ==
  ASSUME data \in Seq(Stuff), NEW u \in Nat, allocate(u)
  PROVE  /\ data' \in Seq(Stuff)
         /\ Len(data') = Larger(size, u)
         /\ \A x \in 1 .. Larger(size, u) :
              data'[x] = IF x <= size THEN data[x] ELSE Blank
<1> DEFINE m == Larger(size, u)
<1>1. size \in Nat /\ m \in Nat
  BY LenProperties DEF size, Larger
<1>2. data' = [x \in 1 .. m |-> IF x <= size THEN data[x] ELSE Blank]
  BY DEF allocate
<1> HIDE DEF m
<1>3. ASSUME NEW x \in 1 .. m
      PROVE  (IF x <= size THEN data[x] ELSE Blank) \in Stuff
  <2>1. CASE x <= size
    <3>1. x \in 1 .. Len(data)
      BY <1>1, <2>1 DEF size
    <3>2. QED
      BY <2>1, <3>1, ElementOfSeq
  <2>2. QED
    BY <2>1 DEF Stuff
<1>4. data' \in [1 .. m -> Stuff]
  BY <1>2, <1>3
<1>5. data' \in Seq(Stuff) /\ Len(data') = m
  BY <1>1, <1>4, FunctionIsSeq
<1>6. QED
  BY <1>2, <1>5 DEF m

-----------------------------------------------------------------------------
(* The constants in use                                                    *)

LEMMA UseIs ==
  ASSUME use \in Uses, run \in 1 .. Len(use.runs)
  PROVE  /\ init_nonces \in Nat \ {0}
         /\ gws \in Nat \ {0} /\ Times(NoncesVector, gws)
         /\ use.runs[run].buffers \in Nat \ {0}
         /\ WorkSize \in Nat \ {0} /\ Times(NoncesVector, WorkSize)
         /\ Times(gws, WorkSize) /\ gws <= WorkSize
<1>1. init_nonces \in Nat \ {0}
  BY UsesAssumption DEF init_nonces
<1>2. use.runs \in Seq([gws : Nat \ {0}, buffers : Nat \ {0}])
  BY UsesAssumption
<1>3. use.runs[run] \in [gws : Nat \ {0}, buffers : Nat \ {0}]
  BY <1>2, ElementOfSeq
<1>4. gws \in Nat \ {0} /\ use.runs[run].buffers \in Nat \ {0}
  BY <1>3 DEF gws
<1>5. gws % NoncesVector = 0
  BY UsesAssumption DEF gws
<1>6. Times(NoncesVector, gws)
  BY <1>4, <1>5, TimesIs, LayoutIs
<1>7. WorkSize = gws * use.runs[run].buffers
  BY DEF WorkSize
<1>8. WorkSize \in Nat \ {0}
  BY <1>4, <1>7, ProductPositive
<1>9. Times(NoncesVector, WorkSize) /\ Times(gws, WorkSize)
  <2> DEFINE c == use.runs[run].buffers
  <2>1. c \in Int /\ gws \in Int /\ WorkSize = gws * c
    BY <1>4, <1>7
  <2> HIDE DEF c
  <2>2. PICK q \in Int : gws = NoncesVector * q
    BY <1>6 DEF Times
  <2>3. WorkSize = NoncesVector * (q * c) /\ q * c \in Int
    BY <2>1, <2>2, LayoutIs
  <2>4. QED
    BY <2>1, <2>3 DEF Times
<1>10. gws <= WorkSize
  <2> DEFINE c == use.runs[run].buffers
  <2>1. c \in Int /\ 1 <= c /\ gws \in Nat /\ WorkSize = gws * c
    BY <1>4, <1>7
  <2> HIDE DEF c
  <2>2. gws * 1 <= gws * c
    BY <2>1, ProductMonotone
  <2>3. QED
    BY <2>1, <2>2
<1>11. QED
  BY <1>1, <1>4, <1>6, <1>8, <1>9, <1>10

LEMMA SectorIs ==
  /\ Sector \in Nat \ {0} /\ ScoopsPerWrite \in Nat \ {0}
  /\ Times(2, Sector) /\ Times(Sector, NoncesVector) /\ Times(Sector, ScoopsPerWrite)
  /\ StartNonce \in Nat /\ MaxFaults \in Nat
<1>1. /\ Sector \in Nat \ {0} /\ ScoopsPerWrite \in Nat \ {0}
      /\ Sector % 2 = 0 /\ NoncesVector % Sector = 0 /\ ScoopsPerWrite % Sector = 0
      /\ StartNonce \in Nat /\ MaxFaults \in Nat
  BY FileAssumption, WriteAssumption, SectorAssumption
<1>2. QED
  BY <1>1, TimesIs, LayoutIs

-----------------------------------------------------------------------------
(* Control: types, and where the loops are                                 *)

\* The type invariant, by the variables that change together, and what the
\* verification has tested.
TaskTypes ==
  /\ use \in Uses
  /\ run \in 1 .. Len(use.runs)
  /\ stopped \in BOOLEAN
  /\ pc \in {"cut", "hash", "open", "allocate", "perform", "scoop", "group",
             "write", "failed", "submit", "ended"}
  /\ prev \in 0 .. init_nonces
  /\ task \in [sn : Nat, nonces : 0 .. WorkSize]
  /\ task.sn + task.nonces = prev
  /\ total_nonces \in 0 .. task.nonces
  /\ submitted \in 0 .. prev
  /\ renamed \in BOOLEAN

MemoryTypes ==
  /\ dev_buff \in Memory(gws)
  /\ block \in Memory(WorkSize)
  /\ host_buff \in Int

LoopTypes ==
  /\ scoop \in 0 .. Scoops
  /\ nstart \in Nat
  /\ nonces \in Int
  /\ write_buffer \in Seq(Units)
  /\ Len(write_buffer) <= ScoopsPerWrite

FileTypes ==
  /\ handle \in {"closed", "buffered", "direct"}
  /\ pos \in 0 .. init_nonces * Scoops
  /\ exists \in BOOLEAN
  /\ data \in Seq(Stuff)
  /\ size <= init_nonces * Scoops
  /\ faults \in 0 .. MaxFaults

VerifyTypes ==
  /\ damage \in 0 .. MaxDamage
  /\ vpc \in {"idle", "unopened", "invalid", "batch", "compare", "unread",
              "bad", "good"}
  /\ vpc # "idle" => Left
  /\ vpc # "idle" => args \in Verifications
  /\ i \in Nat
  /\ vscoop \in 0 .. Scoops
  /\ vpc \in {"batch", "compare", "unread", "bad", "good"} =>
       FileNonces = init_nonces /\ size = FileNonces * Scoops
  /\ vpc = "compare" => i < FileNonces /\ vscoop < Scoops

\* There is a task in hand.
Plotting == pc \notin {"cut", "ended"}

\* The nonces of the task that the hasher has plotted.
Done == task.nonces - total_nonces

Phase ==
  /\ pc = "hash" <=> total_nonces > 0
  /\ Plotting => submitted = task.sn /\ task.nonces > 0
  /\ pc = "cut" => submitted = prev
  /\ renamed => pc = "ended"

Handle ==
  /\ handle = "direct" => Dio
  /\ is_open => exists
  /\ ~exists => data = <<>>
  /\ pc \in {"group", "write"} => is_open

\* Only the last task of a file may be short.
Aligned ==
  /\ Times(Sector, task.sn)
  /\ prev < init_nonces => Times(Sector, prev)

\* What one pass of the loop over the groups takes, and what of it is written.
Chunk == Smaller(nonces, ScoopsPerWrite)
Written == Chunk - Len(write_buffer)

\* Where the file pointer and the buffer are.
Loop ==
  /\ pc \in {"group", "write"} =>
       /\ scoop < Scoops
       /\ nonces = task.nonces - nstart
       /\ Times(ScoopsPerWrite, nstart)
  /\ pc = "group" => pos = Offset + Smaller(nstart, task.nonces)
  /\ pc = "write" =>
       /\ nonces > 0
       /\ Len(write_buffer) \in 1 .. Chunk
       /\ pos = Offset + nstart + Written
       /\ handle = "direct" => Times(Sector, Written)
       /\ \A j \in 1 .. Len(write_buffer) :
            write_buffer[j] = Scoop(block, scoop, nstart + Written + (j - 1))

Base ==
  /\ TaskTypes /\ MemoryTypes /\ LoopTypes /\ FileTypes /\ VerifyTypes
  /\ Phase /\ Handle /\ Aligned /\ Loop


LEMMA SameUse ==
  ASSUME UNCHANGED <<use, run>>
  PROVE  gws' = gws /\ WorkSize' = WorkSize /\ init_nonces' = init_nonces
BY DEF gws, WorkSize, init_nonces

LEMMA BaseUse ==
  ASSUME Base
  PROVE  use \in Uses /\ run \in 1 .. Len(use.runs)
BY DEF Base, TaskTypes

LEMMA BaseInit == VerifyInit => Base
<1> SUFFICES ASSUME VerifyInit
             PROVE  Base
  OBVIOUS
<1>1. use \in Uses /\ run = 1 /\ Len(use.runs) \in Nat \ {0}
  <2>1. use \in Uses /\ run = 1
    BY DEF VerifyInit, Init
  <2>2. use.runs \in Seq([gws : Nat \ {0}, buffers : Nat \ {0}]) /\ use.runs # <<>>
    BY <2>1, UsesAssumption
  <2>3. QED
    BY <2>1, <2>2, EmptySeq, LenProperties
<1>2. use \in Uses /\ run \in 1 .. Len(use.runs)
  BY <1>1
<1>3. /\ gws \in Nat \ {0} /\ WorkSize \in Nat \ {0} /\ init_nonces \in Nat \ {0}
  BY <1>2, UseIs
<1>4. TaskTypes
  <2>1. task = [sn |-> 0, nonces |-> 0] /\ task.sn = 0 /\ task.nonces = 0
    BY DEF VerifyInit, Init
  <2>2. task \in [sn : Nat, nonces : 0 .. WorkSize]
    BY <1>3, <2>1
  <2>3. /\ stopped \in BOOLEAN /\ pc = "cut" /\ renamed \in BOOLEAN
        /\ prev = 0 /\ total_nonces = 0 /\ submitted = 0
    BY DEF VerifyInit, Init
  <2>4. QED
    BY <1>2, <1>3, <2>1, <2>2, <2>3 DEF TaskTypes
<1>5. MemoryTypes
  BY <1>3, EmptyBlockIs DEF VerifyInit, Init, MemoryTypes
<1>6. LoopTypes
  BY EmptySeq, LayoutIs, SectorIs DEF VerifyInit, Init, LoopTypes
<1>7. FileTypes
  <2>1. init_nonces * Scoops \in Nat
    BY <1>3, LayoutIs, ProductNat
  <2>2. <<>> \in Seq(Stuff) /\ Len(<<>>) = 0
    BY EmptySeq
  <2>3. /\ handle = "closed" /\ pos = 0 /\ exists = FALSE /\ data = <<>> /\ faults = 0
    BY DEF VerifyInit, Init, FileInit
  <2> DEFINE m == init_nonces * Scoops
  <2>4. 0 \in 0 .. m /\ 0 <= m /\ 0 \in 0 .. MaxFaults
    <3> HIDE DEF m
    <3>1. m \in Nat
      BY <2>1 DEF m
    <3>2. QED
      BY <3>1, SectorIs
  <2>5. size <= init_nonces * Scoops
    BY <2>2, <2>3, <2>4 DEF size
  <2>6. QED
    BY <2>2, <2>3, <2>4, <2>5 DEF FileTypes
<1>8. VerifyTypes
  BY VerificationsAssumption, LayoutIs DEF VerifyInit, VerifyTypes
<1>9. Phase /\ Handle
  BY DEF VerifyInit, Init, FileInit, Phase, Handle, Plotting, is_open
<1>10. Aligned
  <2>1. Times(Sector, 0)
    BY SectorIs DEF Times
  <2>2. QED
    BY <2>1 DEF VerifyInit, Init, Aligned
<1>11. Loop
  BY DEF VerifyInit, Init, Loop
<1>12. QED
  BY <1>4, <1>5, <1>6, <1>7, <1>8, <1>9, <1>10, <1>11 DEF Base

-----------------------------------------------------------------------------
(* Every step keeps it                                                     *)

\* What follows from the variables that a step leaves alone.
LEMMA SameMemory ==
  ASSUME Base, UNCHANGED <<use, run, dev_buff, block, host_buff>>
  PROVE  MemoryTypes'
BY SameUse DEF Base, MemoryTypes

LEMMA SameLoop ==
  ASSUME Base, UNCHANGED loopVars
  PROVE  LoopTypes'
BY DEF Base, LoopTypes, loopVars

LEMMA SameFile ==
  ASSUME Base, UNCHANGED <<use, run>>, UNCHANGED fileVars
  PROVE  FileTypes'
BY SameUse DEF Base, FileTypes, fileVars, size

LEMMA SameVerify ==
  ASSUME Base, vpc = "idle", UNCHANGED verifyVars
  PROVE  VerifyTypes'
BY DEF Base, VerifyTypes, verifyVars

LEMMA BaseCut ==
  ASSUME Base, vpc = "idle", Cut, UNCHANGED verifyVars
  PROVE  Base'
<1>1. /\ gws' = gws /\ WorkSize' = WorkSize /\ init_nonces' = init_nonces
      /\ init_nonces \in Nat \ {0} /\ WorkSize \in Nat \ {0} /\ gws \in Nat \ {0}
      /\ Times(NoncesVector, WorkSize)
  BY BaseUse, SameUse, UseIs DEF Cut, constVars
<1> DEFINE m == NextNonces(init_nonces - prev)
<1>2. /\ prev \in 0 .. init_nonces - 1
      /\ prev' = prev + m /\ task' = [sn |-> prev, nonces |-> m]
      /\ total_nonces' = m /\ host_buff' = 0 /\ pc' = "hash" /\ pc = "cut"
      /\ submitted' = submitted /\ submitted = prev
  BY <1>1 DEF Base, TaskTypes, Phase, Cut
<1>3. /\ m \in 1 .. WorkSize /\ m <= init_nonces - prev
      /\ m < init_nonces - prev => m = WorkSize
  BY <1>1, <1>2 DEF NextNonces, Smaller
<1> HIDE DEF m
<1>4. task'.sn = prev /\ task'.nonces = m
  BY <1>2
<1>5. TaskTypes'
  BY <1>1, <1>2, <1>3, <1>4 DEF Base, TaskTypes, Cut, constVars
<1>6. MemoryTypes'
  BY <1>1, <1>2 DEF Base, MemoryTypes, Cut
<1>7. LoopTypes' /\ FileTypes' /\ VerifyTypes'
  BY SameLoop, SameFile, SameVerify DEF Cut, constVars
<1>8. Phase' /\ Handle'
  BY <1>1, <1>2, <1>3, <1>4
     DEF Base, TaskTypes, Phase, Handle, Plotting, Cut, constVars, fileVars, is_open, Dio
<1>9. Aligned'
  <2>1. Times(Sector, prev)
    BY <1>1, <1>2 DEF Base, Aligned
  <2>2. Times(Sector, WorkSize)
    BY <1>1, SectorIs, LayoutIs, TimesTrans
  <2>3. prev' < init_nonces => prev' = prev + WorkSize
    BY <1>1, <1>2, <1>3
  <2>4. Times(Sector, prev + WorkSize)
    BY <1>1, <1>2, <2>1, <2>2, SectorIs, TimesSum
  <2>5. QED
    BY <1>1, <1>4, <2>1, <2>3, <2>4 DEF Aligned
<1>10. Loop'
  BY <1>2 DEF Loop
<1>11. QED
  BY <1>5, <1>6, <1>7, <1>8, <1>9, <1>10 DEF Base

LEMMA BasePlotBatch ==
  ASSUME Base, vpc = "idle", PlotBatch, UNCHANGED verifyVars
  PROVE  Base'
<1>1. /\ gws' = gws /\ WorkSize' = WorkSize /\ init_nonces' = init_nonces
      /\ init_nonces \in Nat \ {0} /\ WorkSize \in Nat \ {0} /\ gws \in Nat \ {0}
  BY BaseUse, SameUse, UseIs DEF PlotBatch, constVars
<1> DEFINE m == Smaller(total_nonces, gws)
           b == StartNonce + task.sn + (task.nonces - total_nonces)
<1>2. /\ pc = "hash" /\ total_nonces \in Nat \ {0} /\ total_nonces <= task.nonces
      /\ task.nonces \in Nat /\ task.sn \in Nat
      /\ dev_buff \in Memory(gws) /\ block \in Memory(WorkSize) /\ host_buff \in Int
  BY DEF Base, TaskTypes, MemoryTypes, Phase, PlotBatch
<1>3. /\ dev_buff' = Plotted(dev_buff, b, m)
      /\ block' = Copied(dev_buff')
      /\ total_nonces' = total_nonces - m /\ host_buff' = NextPlace(m)
      /\ pc' = IF total_nonces = m THEN "open" ELSE "hash"
  BY DEF PlotBatch
<1>4. m \in Nat \ {0} /\ m <= total_nonces
  BY <1>1, <1>2 DEF Smaller
<1>5. b \in Nat
  BY <1>2, SectorIs
<1> HIDE DEF m, b
<1>6. dev_buff' \in Memory(gws)
  BY <1>1, <1>2, <1>3, <1>4, <1>5, PlottedType
<1>7. block' \in Memory(WorkSize)
  BY <1>1, <1>2, <1>3, <1>6, CopiedIs
<1>8. host_buff' \in Int
  <2>1. Wrap(m * PlotSize) \in Int
    <3>1. m * PlotSize \in Int
      BY <1>4, LayoutIs
    <3>2. QED
      BY <3>1, LayoutIs DEF Wrap
  <2>2. QED
    BY <1>2, <1>3, <2>1 DEF NextPlace
<1>9. MemoryTypes'
  BY <1>1, <1>6, <1>7, <1>8 DEF MemoryTypes
<1>10. TaskTypes'
  BY <1>1, <1>2, <1>3, <1>4 DEF Base, TaskTypes, PlotBatch, constVars, taskVars
<1>11. LoopTypes' /\ FileTypes' /\ VerifyTypes'
  BY SameLoop, SameFile, SameVerify DEF PlotBatch, constVars
<1>12. Phase' /\ Handle'
  BY <1>1, <1>2, <1>3, <1>4
     DEF Base, Phase, Handle, Plotting, PlotBatch, constVars, taskVars, fileVars, is_open, Dio
<1>13. Aligned' /\ Loop'
  BY <1>1, <1>2, <1>3 DEF Base, Aligned, Loop, PlotBatch, taskVars
<1>14. QED
  BY <1>9, <1>10, <1>11, <1>12, <1>13 DEF Base

Places == {"cut", "hash", "open", "allocate", "perform", "scoop", "group",
           "write", "failed", "submit", "ended"}

LEMMA SameTask ==
  ASSUME Base, UNCHANGED <<use, run, prev, task, total_nonces>>,
         stopped' \in BOOLEAN, pc' \in Places, submitted' \in 0 .. prev, renamed' \in BOOLEAN
  PROVE  TaskTypes'
BY SameUse DEF Base, TaskTypes, Places

LEMMA SameAligned ==
  ASSUME Base, UNCHANGED <<use, run, prev, task>>
  PROVE  Aligned'
BY SameUse DEF Base, Aligned

\* The steps of the writer that leave the task and its memory alone.
LEMMA BaseKeeps ==
  ASSUME Base, vpc = "idle", UNCHANGED verifyVars,
         UNCHANGED <<use, run, stopped, prev, task, submitted, renamed>>,
         UNCHANGED hasherVars, pc' \in Places
  PROVE  TaskTypes' /\ MemoryTypes' /\ VerifyTypes' /\ Aligned'
<1>1. /\ stopped' \in BOOLEAN /\ submitted' \in 0 .. prev /\ renamed' \in BOOLEAN
      /\ total_nonces' = total_nonces
  BY DEF Base, TaskTypes, hasherVars
<1>2. TaskTypes'
  BY <1>1, SameTask
<1>3. MemoryTypes'
  BY SameMemory DEF hasherVars
<1>4. QED
  BY <1>2, <1>3, SameVerify, SameAligned

\* Where the scoop in hand has its nonces of the task.
LEMMA OffsetIs ==
  ASSUME Base, scoop < Scoops
  PROVE  /\ Offset \in Nat
         /\ Offset + task.nonces <= init_nonces * Scoops
         /\ Dio => Times(Sector, Offset)
<1>1. /\ init_nonces \in Nat \ {0} /\ task.sn \in Nat /\ task.nonces \in Nat
      /\ task.sn + task.nonces <= init_nonces /\ scoop \in 0 .. Scoops - 1
  BY BaseUse, UseIs, LayoutIs DEF Base, TaskTypes, LoopTypes
<1>2. scoop * init_nonces \in Nat
  BY <1>1, LayoutIs, ProductNat
<1>3. init_nonces * (scoop + 1) <= init_nonces * Scoops
  BY <1>1, LayoutIs, ProductMonotone
<1>4. init_nonces * (scoop + 1) = scoop * init_nonces + init_nonces
  BY <1>1
<1> DEFINE x == scoop * init_nonces
           y == init_nonces * Scoops
<1>5. x \in Nat /\ y \in Int /\ x + init_nonces <= y
  BY <1>1, <1>2, <1>3, <1>4, LayoutIs
<1>6. ASSUME Dio
      PROVE  Times(Sector, Offset)
  <2>1. Times(Sector, init_nonces)
    BY <1>1, <1>6, SectorIs, TimesIs DEF Dio
  <2>2. Times(Sector, x)
    BY <1>1, <2>1, SectorIs, TimesProduct
  <2>3. Times(Sector, task.sn)
    BY DEF Base, Aligned
  <2> HIDE DEF x
  <2>4. Times(Sector, task.sn + x)
    <3>1. task.sn \in Int /\ x \in Int /\ Sector \in Nat \ {0}
      BY <1>1, <1>5, SectorIs
    <3>2. QED
      BY <2>2, <2>3, <3>1, TimesSum
  <2>5. QED
    BY <2>4 DEF Offset, x
<1>7. Offset = task.sn + x
  BY DEF Offset
<1>8. Offset \in Nat /\ Offset + task.nonces <= y
  <2> HIDE DEF x, y
  <2>1. QED
    BY <1>1, <1>5, <1>7
<1>9. QED
  BY <1>6, <1>8

LEMMA BaseOpen ==
  ASSUME Base, vpc = "idle", Open, UNCHANGED verifyVars
  PROVE  Base'
<1>1. /\ TaskTypes' /\ MemoryTypes' /\ VerifyTypes' /\ Aligned' /\ LoopTypes'
  BY BaseKeeps, SameLoop DEF Open, constVars, taskVars, Places
<1>2. init_nonces' = init_nonces /\ gws' = gws
  BY SameUse DEF Open, constVars
<1>3. \/ UNCHANGED fileVars
      \/ /\ handle' = IF Dio THEN "direct" ELSE "buffered"
         /\ pos' = 0 /\ exists' = TRUE /\ data' = data /\ faults' = faults
      \/ /\ faults < MaxFaults /\ faults' = faults + 1
         /\ handle' = handle /\ pos' = pos /\ exists' = exists /\ data' = data
  BY DEF Open, open, Fault, DoCreate, Base, Handle
<1>4. FileTypes'
  <2>1. CASE UNCHANGED fileVars
    BY <2>1, SameFile DEF Open, constVars
  <2>2. CASE /\ handle' = IF Dio THEN "direct" ELSE "buffered"
             /\ pos' = 0 /\ exists' = TRUE /\ data' = data /\ faults' = faults
    <3>1. 0 \in 0 .. init_nonces * Scoops
      <4> DEFINE y == init_nonces * Scoops
      <4>1. y \in Nat
        BY BaseUse, UseIs, LayoutIs, ProductNat
      <4> HIDE DEF y
      <4>2. 0 \in 0 .. y
        BY <4>1
      <4>3. QED
        BY <4>2 DEF y
    <3>2. QED
      BY <1>2, <2>2, <3>1 DEF Base, FileTypes, size
  <2>3. CASE /\ faults < MaxFaults /\ faults' = faults + 1
             /\ handle' = handle /\ pos' = pos /\ exists' = exists /\ data' = data
    BY <1>2, <2>3, SectorIs DEF Base, FileTypes, size
  <2>4. QED
    BY <1>3, <2>1, <2>2, <2>3
<1>5. Phase'
  BY DEF Base, Phase, Plotting, Open, constVars, taskVars, hasherVars
<1>6. Handle'
  <2>1. Dio' <=> Dio
    BY <1>2 DEF Dio
  <2>2. pc' \notin {"group", "write"}
    BY DEF Open
  <2>3. QED
    BY <1>3, <2>1, <2>2 DEF Base, Handle, fileVars, is_open
<1>7. Loop'
  BY DEF Open, Loop
<1>8. QED
  BY <1>1, <1>4, <1>5, <1>6, <1>7 DEF Base

LEMMA BaseAllocate ==
  ASSUME Base, vpc = "idle", Allocate, UNCHANGED verifyVars
  PROVE  Base'
<1>1. /\ TaskTypes' /\ MemoryTypes' /\ VerifyTypes' /\ Aligned' /\ LoopTypes'
  BY BaseKeeps, SameLoop DEF Allocate, constVars, taskVars, Places
<1>2. init_nonces' = init_nonces /\ gws' = gws
  BY SameUse DEF Allocate, constVars
<1> DEFINE y == init_nonces * Scoops
<1>3. y \in Nat /\ size \in Nat /\ size <= y /\ pos \in 0 .. y /\ data \in Seq(Stuff)
  BY BaseUse, UseIs, LayoutIs, ProductNat, LenProperties DEF Base, FileTypes, size
<1>4. /\ data' \in Seq(Stuff) /\ size' <= y /\ pos' \in 0 .. y /\ faults' \in 0 .. MaxFaults
      /\ handle' = handle /\ exists' = exists
      /\ ~exists => data' = data
  <2>1. CASE allocate(y)
    <3>1. data' \in Seq(Stuff) /\ Len(data') = Larger(size, y)
      BY <1>3, <2>1, AllocatedIs
    <3>2. pos' = IF y > size THEN y ELSE pos
      BY <2>1 DEF allocate
    <3>3. /\ handle' = handle /\ exists' = exists /\ faults' = faults /\ is_open
      BY <2>1 DEF allocate
    <3> HIDE DEF y
    <3>4. size' <= y /\ pos' \in 0 .. y
      BY <1>3, <3>1, <3>2 DEF size, Larger
    <3>5. QED
      BY <3>1, <3>3, <3>4 DEF Base, FileTypes, Handle
  <2>2. CASE fails
    <3>1. /\ data' = data /\ pos' = pos /\ handle' = handle /\ exists' = exists
          /\ faults' \in 0 .. MaxFaults
      BY <2>2, SectorIs DEF fails, Fault, Base, FileTypes
    <3> HIDE DEF y
    <3>2. QED
      BY <1>3, <3>1 DEF size
  <2>3. QED
    BY <2>1, <2>2 DEF Allocate
<1>5. FileTypes'
  <2>1. handle \in {"closed", "buffered", "direct"} /\ exists \in BOOLEAN
    BY DEF Base, FileTypes
  <2>2. /\ data' \in Seq(Stuff) /\ size' <= init_nonces * Scoops
        /\ pos' \in 0 .. init_nonces * Scoops /\ faults' \in 0 .. MaxFaults
        /\ handle' = handle /\ exists' = exists
    BY <1>4
  <2>3. QED
    BY <1>2, <2>1, <2>2 DEF FileTypes
<1> HIDE DEF y
<1>6. Phase'
  BY DEF Base, Phase, Plotting, Allocate, constVars, taskVars, hasherVars
<1>7. Handle'
  <2>1. Dio' <=> Dio
    BY <1>2 DEF Dio
  <2>2. pc' \notin {"group", "write"}
    BY DEF Allocate
  <2>3. QED
    BY <1>4, <2>1, <2>2 DEF Base, Handle, fileVars, is_open
<1>8. Loop'
  BY DEF Allocate, Loop
<1>9. QED
  BY <1>1, <1>5, <1>6, <1>7, <1>8 DEF Base

LEMMA BasePerform ==
  ASSUME Base, vpc = "idle", Perform, UNCHANGED verifyVars
  PROVE  Base'
<1>1. /\ TaskTypes' /\ MemoryTypes' /\ VerifyTypes' /\ Aligned'
  BY BaseKeeps DEF Perform, constVars, taskVars, Places
<1>2. FileTypes'
  BY SameFile DEF Perform, constVars
<1>3. LoopTypes'
  BY LayoutIs DEF Base, LoopTypes, Perform
<1>4. Phase'
  BY DEF Base, Phase, Plotting, Perform, constVars, taskVars, hasherVars
<1>5. Handle'
  BY DEF Base, Handle, Perform, fileVars, is_open, Dio, init_nonces, constVars
<1>6. Loop'
  BY DEF Perform, Loop
<1>7. QED
  BY <1>1, <1>2, <1>3, <1>4, <1>5, <1>6 DEF Base

LEMMA BaseScoopLoop ==
  ASSUME Base, vpc = "idle", ScoopLoop, UNCHANGED verifyVars
  PROVE  Base'
<1>1. /\ TaskTypes' /\ MemoryTypes' /\ VerifyTypes' /\ Aligned'
  BY BaseKeeps DEF ScoopLoop, constVars, taskVars, Places
<1>2. /\ init_nonces' = init_nonces /\ Scoops \in Nat \ {0} /\ scoop \in 0 .. Scoops
      /\ task.nonces \in Nat /\ scoop' = scoop /\ write_buffer' = write_buffer
      /\ task' = task /\ use' = use /\ run' = run
  BY SameUse, LayoutIs DEF ScoopLoop, constVars, taskVars, Base, TaskTypes, LoopTypes
<1>3. Phase'
  BY DEF Base, Phase, Plotting, ScoopLoop, constVars, taskVars, hasherVars
<1>4. CASE pc' = "submit" /\ UNCHANGED <<nonces, nstart, fileVars>>
  <2>1. LoopTypes' /\ FileTypes'
    BY <1>2, <1>4, SameFile DEF Base, LoopTypes
  <2>2. Handle' /\ Loop'
    BY <1>2, <1>4 DEF Base, Handle, Loop, fileVars, is_open, Dio
  <2>3. QED
    BY <1>1, <1>3, <2>1, <2>2 DEF Base
<1>5. CASE /\ scoop < Scoops /\ seek(Offset)
           /\ nonces' = task.nonces /\ nstart' = 0 /\ pc' = "group"
  <2>1. LoopTypes'
    BY <1>2, <1>5 DEF Base, LoopTypes
  <2>2. Offset \in Nat /\ Offset + task.nonces <= init_nonces * Scoops
    BY <1>5, OffsetIs
  <2>3. Offset \in 0 .. init_nonces * Scoops
    <3> DEFINE y == init_nonces * Scoops
    <3>1. y \in Nat /\ Offset + task.nonces <= y
      BY <2>2, BaseUse, UseIs, LayoutIs, ProductNat
    <3> HIDE DEF y
    <3>2. Offset \in 0 .. y
      BY <1>2, <2>2, <3>1
    <3>3. QED
      BY <3>2 DEF y
  <2>4. FileTypes'
    BY <1>2, <1>5, <2>3 DEF Base, FileTypes, seek, size
  <2>5. Handle'
    BY <1>2, <1>5 DEF Base, Handle, seek, is_open, Dio
  <2>6. Loop'
    <3>1. Times(ScoopsPerWrite, 0)
      BY SectorIs DEF Times
    <3>2. Offset' = Offset
      BY <1>2 DEF Offset
    <3>3. Smaller(0, task.nonces) = 0
      BY <1>2 DEF Smaller
    <3>4. pos' = Offset
      BY <1>5 DEF seek
    <3>5. pos' = Offset' + Smaller(nstart', task'.nonces)
      BY <1>2, <1>5, <2>2, <3>2, <3>3, <3>4
    <3>6. nonces' = task'.nonces - nstart'
      BY <1>2, <1>5
    <3>7. QED
      BY <1>2, <1>5, <3>1, <3>5, <3>6 DEF Loop
  <2>7. QED
    BY <1>1, <1>3, <2>1, <2>4, <2>5, <2>6 DEF Base
<1>6. CASE fails /\ pc' = "failed" /\ UNCHANGED <<nonces, nstart>>
  <2>1. LoopTypes'
    BY <1>2, <1>6 DEF Base, LoopTypes
  <2>2. FileTypes'
    BY <1>2, <1>6, SectorIs DEF Base, FileTypes, fails, Fault, size
  <2>3. Handle' /\ Loop'
    BY <1>2, <1>6 DEF Base, Handle, Loop, fails, is_open, Dio
  <2>4. QED
    BY <1>1, <1>3, <2>1, <2>2, <2>3 DEF Base
<1>7. QED
  BY <1>4, <1>5, <1>6 DEF ScoopLoop

\* What the writer has in hand at a group of nonces.
LEMMA GroupIs ==
  ASSUME Base, pc \in {"group", "write"}
  PROVE  /\ scoop \in 0 .. Scoops - 1 /\ nstart \in Nat
         /\ nonces = task.nonces - nstart /\ nonces \in Int
         /\ task.nonces \in Nat \ {0}
         /\ nonces > 0 => Chunk \in 1 .. ScoopsPerWrite
         /\ Chunk <= nonces /\ Chunk <= ScoopsPerWrite /\ Chunk \in Int
         /\ Chunk = nonces \/ Chunk = ScoopsPerWrite
<1>1. /\ scoop \in 0 .. Scoops - 1 /\ nstart \in Nat
      /\ nonces = task.nonces - nstart /\ nonces \in Int
      /\ task.nonces \in Nat \ {0}
  BY LayoutIs DEF Base, TaskTypes, LoopTypes, Loop, Phase, Plotting
<1>2. QED
  BY <1>1, SectorIs DEF Chunk, Smaller

LEMMA BaseGroupLoop ==
  ASSUME Base, vpc = "idle", GroupLoop, UNCHANGED verifyVars
  PROVE  Base'
<1>1. /\ TaskTypes' /\ MemoryTypes' /\ VerifyTypes' /\ Aligned' /\ FileTypes'
  BY BaseKeeps, SameFile DEF GroupLoop, constVars, taskVars, Places
<1>2. /\ init_nonces' = init_nonces /\ Scoops \in Nat \ {0}
      /\ nstart' = nstart /\ nonces' = nonces /\ pos' = pos /\ handle' = handle
      /\ task' = task /\ use' = use /\ run' = run /\ block' = block
      /\ pc = "group" /\ exists' = exists /\ data' = data
  BY SameUse, LayoutIs DEF GroupLoop, constVars, taskVars, hasherVars, fileVars
<1>3. Phase'
  BY DEF Base, Phase, Plotting, GroupLoop, constVars, taskVars, hasherVars
<1>4. /\ scoop \in 0 .. Scoops - 1 /\ nstart \in Nat
      /\ nonces = task.nonces - nstart /\ nonces \in Int
      /\ task.nonces \in Nat \ {0}
      /\ nonces > 0 => Chunk \in 1 .. ScoopsPerWrite
      /\ Chunk <= nonces
  BY <1>2, GroupIs
<1>5. Handle'
  BY <1>2 DEF Base, Handle, is_open, Dio
<1>6. CASE scoop' = scoop + 1 /\ pc' = "scoop" /\ UNCHANGED write_buffer
  <2>1. LoopTypes'
    BY <1>2, <1>4, <1>6 DEF Base, LoopTypes
  <2>2. Loop'
    BY <1>6 DEF Loop
  <2>3. QED
    BY <1>1, <1>3, <1>5, <2>1, <2>2 DEF Base
<1>7. CASE /\ nonces > 0 /\ pc' = "write" /\ scoop' = scoop
           /\ write_buffer' = transposition(block, scoop, nstart, Chunk)
  <2>1. block \in Memory(WorkSize) /\ WorkSize \in Nat
    BY BaseUse, UseIs DEF Base, MemoryTypes
  <2>2. Chunk \in 1 .. ScoopsPerWrite /\ Chunk \in Nat
    BY <1>4, <1>7, SectorIs
  <2>3. /\ write_buffer' \in Seq(Units) /\ Len(write_buffer') = Chunk
        /\ \A j \in 1 .. Chunk : write_buffer'[j] = Scoop(block, scoop, nstart + j - 1)
    BY <1>4, <1>7, <2>1, <2>2, TranspositionIs
  <2>4. LoopTypes'
    BY <1>2, <1>4, <1>7, <2>2, <2>3, SectorIs, LayoutIs DEF Base, LoopTypes
  <2>5. Chunk' = Chunk /\ Offset' = Offset /\ Written' = 0
    BY <1>2, <1>7, <2>2, <2>3 DEF Chunk, Offset, Written
  <2>6. pos' = Offset' + nstart' + Written'
    <3>1. pos = Offset + Smaller(nstart, task.nonces)
      BY <1>2 DEF Base, Loop
    <3>2. Smaller(nstart, task.nonces) = nstart
      BY <1>4, <1>7 DEF Smaller
    <3>3. Offset \in Nat
      BY <1>2, <1>4, OffsetIs
    <3>4. QED
      BY <1>2, <1>4, <2>5, <3>1, <3>2, <3>3
  <2>7. Times(Sector, Written')
    BY <2>5, SectorIs DEF Times
  <2>8. \A j \in 1 .. Len(write_buffer') :
          write_buffer'[j] = Scoop(block', scoop', nstart' + Written' + (j - 1))
    BY <1>2, <1>4, <1>7, <2>3, <2>5
  <2>9. /\ scoop' < Scoops /\ nonces' = task'.nonces - nstart' /\ nonces' > 0
        /\ Times(ScoopsPerWrite, nstart') /\ Len(write_buffer') \in 1 .. Chunk'
        /\ pc' # "group"
    BY <1>2, <1>4, <1>7, <2>2, <2>3, <2>5 DEF Base, Loop
  <2>10. Loop'
    BY <2>6, <2>7, <2>8, <2>9 DEF Loop
  <2>11. QED
    BY <1>1, <1>3, <1>5, <2>4, <2>10 DEF Base
<1>8. QED
  BY <1>4, <1>6, <1>7 DEF GroupLoop, Chunk

\* A write of k units of the buffer.
LEMMA WriteIs ==
  ASSUME Base, pc = "write"
  PROVE  /\ Offset \in Nat /\ nstart \in Nat /\ Written \in Nat
         /\ Len(write_buffer) \in Nat \ {0}
         /\ Chunk = Written + Len(write_buffer) /\ Chunk <= task.nonces - nstart
         /\ nonces = task.nonces - nstart
         /\ pos \in Nat /\ pos = Offset + nstart + Written
         /\ task.nonces \in Nat
         /\ pos + Len(write_buffer) <= Offset + task.nonces
         /\ Offset + task.nonces <= init_nonces * Scoops
<1>1. /\ scoop \in 0 .. Scoops - 1 /\ nstart \in Nat
      /\ nonces = task.nonces - nstart /\ task.nonces \in Nat
      /\ Chunk <= nonces
  BY GroupIs
<1>2. /\ Len(write_buffer) \in 1 .. Chunk /\ pos = Offset + nstart + Written
      /\ nonces > 0
  BY DEF Base, Loop
<1>3. Chunk \in Nat
  BY <1>1, <1>2, GroupIs, SectorIs
<1>4. Written = Chunk - Len(write_buffer)
  BY DEF Written
<1>5. Written \in Nat /\ Len(write_buffer) \in Nat \ {0} /\ Chunk = Written + Len(write_buffer)
  BY <1>2, <1>3, <1>4
<1>6. Offset \in Nat /\ Offset + task.nonces <= init_nonces * Scoops
  BY <1>1, LayoutIs, OffsetIs
<1> DEFINE y == init_nonces * Scoops
<1>7. Offset \in Nat /\ Offset + task.nonces <= y
  BY <1>6
<1> HIDE DEF y
<1>8. pos \in Nat /\ pos + Len(write_buffer) <= Offset + task.nonces
  BY <1>1, <1>2, <1>3, <1>5, <1>7
<1>9. QED
  BY <1>1, <1>2, <1>5, <1>6, <1>8

\* What a WriteFile does, in terms of the buffer.
LEMMA WriteFileIs ==
  ASSUME Base, pc = "write", NEW k \in 1 .. Len(write_buffer),
         WriteFile(write_buffer, k), write_buffer' = Remaining(k)
  PROVE  /\ write_buffer' \in Seq(Units)
         /\ Len(write_buffer') = Len(write_buffer) - k
         /\ \A j \in 1 .. Len(write_buffer) - k : write_buffer'[j] = write_buffer[k + j]
         /\ data' \in Seq(Stuff)
         /\ size' = Larger(size, pos + k)
         /\ \A x \in 1 .. Larger(size, pos + k) :
              data'[x] = IF x - pos \in 1 .. k THEN write_buffer[x - pos]
                         ELSE IF x <= size THEN data[x] ELSE Blank
         /\ pos' = pos + k
<1>1. write_buffer \in Seq(Units) /\ data \in Seq(Stuff)
  BY DEF Base, LoopTypes, FileTypes
<1>2. \A x \in 1 .. Len(write_buffer) : write_buffer[x] \in Units
  BY <1>1, ElementOfSeq
<1>3. Len(write_buffer) \in Nat /\ k \in Nat /\ pos \in Nat
  BY <1>1, LenProperties, WriteIs
<1>4. \A x \in k + 1 .. Len(write_buffer) : write_buffer[x] \in Units
  BY <1>2, <1>3
<1>5. /\ write_buffer' \in Seq(Units)
      /\ Len(write_buffer') = IF k + 1 <= Len(write_buffer) THEN Len(write_buffer) - (k + 1) + 1 ELSE 0
      /\ \A x \in 1 .. Len(write_buffer) - (k + 1) + 1 : write_buffer'[x] = write_buffer[k + 1 + x - 1]
  BY <1>3, <1>4, SubSeqProperties DEF Remaining
<1> DEFINE s == SubSeq(write_buffer, 1, k)
<1>6. \A x \in 1 .. k : write_buffer[x] \in Units
  BY <1>2, <1>3
<1>7. /\ s \in Seq(Units) /\ Len(s) = k
      /\ \A x \in 1 .. k : s[x] = write_buffer[x]
  <2>1. /\ s \in Seq(Units)
        /\ Len(s) = IF 1 <= k THEN k - 1 + 1 ELSE 0
        /\ \A x \in 1 .. k - 1 + 1 : s[x] = write_buffer[1 + x - 1]
    BY <1>3, <1>6, SubSeqProperties
  <2> HIDE DEF s
  <2>2. QED
    BY <1>3, <2>1
<1>8. data' = Overwritten(pos, s) /\ pos' = pos + k
  BY DEF WriteFile
<1> HIDE DEF s
<1>9. /\ data' \in Seq(Stuff)
      /\ Len(data') = Larger(size, pos + k)
      /\ \A x \in 1 .. Larger(size, pos + k) :
           data'[x] = IF x - pos \in 1 .. k THEN s[x - pos]
                      ELSE IF x <= size THEN data[x] ELSE Blank
  BY <1>1, <1>3, <1>7, <1>8, OverwrittenIs
<1>10. size' = Larger(size, pos + k)
  BY <1>9 DEF size
<1>11. QED
  BY <1>3, <1>5, <1>7, <1>8, <1>9, <1>10

LEMMA BaseWrite ==
  ASSUME Base, vpc = "idle", Write, UNCHANGED verifyVars
  PROVE  Base'
<1>1. /\ TaskTypes' /\ MemoryTypes' /\ VerifyTypes' /\ Aligned'
  <2>1. pc' \in Places
    BY DEF Write, Places
  <2>2. QED
    BY <2>1, BaseKeeps DEF Write, constVars, taskVars
<1>2. /\ init_nonces' = init_nonces /\ scoop' = scoop /\ pc = "write"
      /\ task' = task /\ use' = use /\ run' = run /\ block' = block
  BY SameUse DEF Write, constVars, taskVars, hasherVars
<1>3. Phase'
  BY DEF Base, Phase, Plotting, Write, constVars, taskVars, hasherVars
<1>4. ASSUME NEW k \in Portions(write_buffer),
             WriteFile(write_buffer, k), write_buffer' = Remaining(k), UNCHANGED faults
      PROVE  FileTypes' /\ Handle' /\ write_buffer' \in Seq(Units)
  <2>1. k \in 1 .. Len(write_buffer)
    BY DEF Portions
  <2>2. /\ Offset \in Nat /\ Len(write_buffer) \in Nat \ {0} /\ pos \in Nat
        /\ task.nonces \in Nat
        /\ pos + Len(write_buffer) <= Offset + task.nonces
        /\ Offset + task.nonces <= init_nonces * Scoops
    BY <1>2, WriteIs
  <2>3. /\ write_buffer' \in Seq(Units) /\ data' \in Seq(Stuff)
        /\ size' = Larger(size, pos + k) /\ pos' = pos + k
    BY <1>2, <1>4, <2>1, WriteFileIs
  <2>4. handle' = handle /\ exists' = exists /\ faults' = faults /\ is_open
    BY <1>4 DEF WriteFile
  <2> DEFINE y == init_nonces * Scoops
  <2>5. /\ size \in Nat /\ size <= y /\ y \in Nat
        /\ Offset + task.nonces <= y
    BY <2>2, BaseUse, UseIs, LayoutIs, ProductNat, LenProperties DEF Base, FileTypes, size
  <2> HIDE DEF y
  <2>6. pos' \in 0 .. y /\ size' <= y
    BY <2>1, <2>2, <2>3, <2>5 DEF Larger
  <2>7. FileTypes'
    BY <1>2, <2>3, <2>4, <2>6 DEF Base, FileTypes, y
  <2>8. Handle'
    BY <1>2, <2>4 DEF Base, Handle, is_open, Dio
  <2>9. QED
    BY <2>3, <2>7, <2>8
<1>5. ASSUME NEW k \in Portions(write_buffer),
             WriteFile(write_buffer, k), write_buffer' = Remaining(k), UNCHANGED faults,
             write_buffer' = <<>>, nonces' = nonces - ScoopsPerWrite,
             nstart' = nstart + ScoopsPerWrite, pc' = "group"
      PROVE  Base'
  <2>1. FileTypes' /\ Handle' /\ write_buffer' \in Seq(Units)
    BY <1>4, <1>5
  <2>2. k \in 1 .. Len(write_buffer)
    BY DEF Portions
  <2>3. /\ Offset \in Nat /\ nstart \in Nat /\ Written \in Nat
        /\ Len(write_buffer) \in Nat \ {0}
        /\ Chunk = Written + Len(write_buffer) /\ Chunk <= task.nonces - nstart
        /\ nonces = task.nonces - nstart
        /\ pos = Offset + nstart + Written /\ task.nonces \in Nat
    BY <1>2, WriteIs
  <2>4. Len(write_buffer') = 0 /\ k = Len(write_buffer) /\ pos' = pos + k
    <3>1. Len(write_buffer') = Len(write_buffer) - k /\ pos' = pos + k
      BY <1>2, <1>5, <2>2, WriteFileIs
    <3>2. Len(<<>>) = 0
      OBVIOUS
    <3>3. QED
      BY <1>5, <2>2, <2>3, <3>1, <3>2
  <2>5. pos' = Offset + nstart + Chunk
    BY <2>3, <2>4
  <2>6. Offset' = Offset
    BY <1>2 DEF Offset
  <2>7. Smaller(nstart', task'.nonces) = nstart + Chunk
    <3>1. task'.nonces = task.nonces
      BY <1>2
    <3>2. ScoopsPerWrite \in Nat \ {0}
      BY SectorIs
    <3>3. CASE nonces < ScoopsPerWrite
      <4>1. Chunk = nonces
        BY <3>3 DEF Chunk, Smaller
      <4>2. ~(nstart' < task.nonces)
        BY <1>5, <2>3, <3>2, <3>3
      <4>3. Smaller(nstart', task'.nonces) = task.nonces
        BY <3>1, <4>2 DEF Smaller
      <4>4. QED
        BY <2>3, <4>1, <4>3
    <3>4. CASE ~(nonces < ScoopsPerWrite)
      <4>1. Chunk = ScoopsPerWrite
        BY <3>4 DEF Chunk, Smaller
      <4>2. nstart' < task.nonces \/ nstart' = task.nonces
        BY <1>5, <2>3, <3>2, <3>4
      <4>3. Smaller(nstart', task'.nonces) = nstart'
        BY <3>1, <4>2 DEF Smaller
      <4>4. QED
        BY <1>5, <4>1, <4>3
    <3>5. QED
      BY <3>3, <3>4
  <2>8. Times(ScoopsPerWrite, nstart')
    <3>1. Times(ScoopsPerWrite, nstart)
      BY <1>2 DEF Base, Loop
    <3>2. Times(ScoopsPerWrite, ScoopsPerWrite)
      <4>1. ScoopsPerWrite = ScoopsPerWrite * 1 /\ 1 \in Int
        BY SectorIs
      <4>2. QED
        BY <4>1 DEF Times
    <3>3. nstart \in Int /\ ScoopsPerWrite \in Int /\ ScoopsPerWrite \in Nat \ {0}
      BY <2>3, SectorIs
    <3>4. QED
      BY <1>5, <3>1, <3>2, <3>3, TimesSum
  <2>9. scoop' < Scoops /\ nonces' = task'.nonces - nstart'
    <3>1. scoop < Scoops
      BY <1>2 DEF Base, Loop
    <3>2. QED
      BY <1>2, <1>5, <2>3, <3>1, SectorIs
  <2>10. Loop'
    <3>1. pos' = Offset' + Smaller(nstart', task'.nonces)
      BY <2>3, <2>5, <2>6, <2>7
    <3>2. QED
      BY <1>5, <2>8, <2>9, <3>1 DEF Loop
  <2>11. LoopTypes'
    <3>1. scoop' \in 0 .. Scoops /\ nstart' \in Nat /\ nonces' \in Int
      BY <1>2, <1>5, <2>3, SectorIs DEF Base, LoopTypes
    <3>2. QED
      BY <2>1, <2>4, <3>1, SectorIs DEF LoopTypes
  <2>12. QED
    BY <1>1, <1>3, <2>1, <2>10, <2>11 DEF Base
<1>6. ASSUME NEW k \in Portions(write_buffer),
             WriteFile(write_buffer, k), write_buffer' = Remaining(k), UNCHANGED faults,
             write_buffer' # <<>>, UNCHANGED <<nonces, nstart, pc>>
      PROVE  Base'
  <2>1. FileTypes' /\ Handle' /\ write_buffer' \in Seq(Units)
    BY <1>4, <1>6
  <2>2. k \in 1 .. Len(write_buffer)
    BY DEF Portions
  <2>3. /\ Offset \in Nat /\ nstart \in Nat /\ Written \in Nat
        /\ Len(write_buffer) \in Nat \ {0}
        /\ Chunk = Written + Len(write_buffer)
        /\ pos = Offset + nstart + Written
    BY <1>2, WriteIs
  <2>4. /\ Len(write_buffer') = Len(write_buffer) - k /\ pos' = pos + k
        /\ \A j \in 1 .. Len(write_buffer) - k : write_buffer'[j] = write_buffer[k + j]
    BY <1>2, <1>6, <2>2, WriteFileIs
  <2>5. Len(write_buffer') \in Nat \ {0}
    BY <1>6, <2>1, EmptySeq
  <2>6. Chunk' = Chunk /\ Offset' = Offset /\ Written' = Written + k
    BY <1>2, <1>6, <2>2, <2>3, <2>4 DEF Chunk, Offset, Written
  <2>7. pos' = Offset' + nstart' + Written'
    BY <1>6, <2>2, <2>3, <2>4, <2>6
  <2>8. handle' = "direct" => Times(Sector, Written')
    <3>1. SUFFICES ASSUME handle' = "direct"
                   PROVE  Times(Sector, Written + k)
      BY <2>6
    <3>2. handle = "direct"
      BY <1>6, <3>1 DEF WriteFile
    <3>3. k < Len(write_buffer)
      BY <2>2, <2>3, <2>4, <2>5
    <3>4. k % Sector = 0
      BY <3>2, <3>3 DEF Portions
    <3>5. Times(Sector, k)
      BY <2>2, <3>4, SectorIs, TimesIs
    <3>6. Times(Sector, Written)
      BY <1>2, <3>2 DEF Base, Loop
    <3>7. QED
      BY <2>2, <2>3, <3>5, <3>6, SectorIs, TimesSum
  <2>9. ASSUME NEW j \in 1 .. Len(write_buffer')
        PROVE  write_buffer'[j] = Scoop(block', scoop', nstart' + Written' + (j - 1))
    <3>1. /\ write_buffer'[j] = write_buffer[k + j]
          /\ k + j \in 1 .. Len(write_buffer)
      BY <2>2, <2>3, <2>4
    <3>2. write_buffer[k + j] = Scoop(block, scoop, nstart + Written + ((k + j) - 1))
      BY <1>2, <3>1 DEF Base, Loop
    <3>3. nstart + Written + ((k + j) - 1) = nstart' + Written' + (j - 1)
      BY <1>6, <2>2, <2>3, <2>6
    <3>4. QED
      BY <1>2, <3>1, <3>2, <3>3
  <2>10. Loop'
    <3>1. /\ scoop < Scoops /\ nonces = task.nonces - nstart
          /\ Times(ScoopsPerWrite, nstart) /\ nonces > 0
      BY <1>2 DEF Base, Loop
    <3>2. Len(write_buffer') \in 1 .. Chunk'
      BY <2>2, <2>3, <2>4, <2>5, <2>6
    <3>3. QED
      BY <1>2, <1>6, <2>7, <2>8, <2>9, <3>1, <3>2 DEF Loop
  <2>11. LoopTypes'
    <3>1. Len(write_buffer) <= ScoopsPerWrite
      BY DEF Base, LoopTypes
    <3>2. Len(write_buffer') <= ScoopsPerWrite
      BY <2>2, <2>3, <2>4, <3>1, SectorIs
    <3>3. QED
      BY <1>2, <1>6, <2>1, <3>2 DEF Base, LoopTypes
  <2>12. QED
    BY <1>1, <1>3, <2>1, <2>10, <2>11 DEF Base
<1>7. CASE fails /\ pc' = "failed" /\ UNCHANGED <<nonces, nstart, write_buffer>>
  <2>1. LoopTypes'
    BY <1>2, <1>7 DEF Base, LoopTypes
  <2>2. FileTypes'
    BY <1>2, <1>7, SectorIs DEF Base, FileTypes, fails, Fault, size
  <2>3. Handle' /\ Loop'
    BY <1>2, <1>7 DEF Base, Handle, Loop, fails, is_open, Dio
  <2>4. QED
    BY <1>1, <1>3, <2>1, <2>2, <2>3 DEF Base
<1>8. QED
  BY <1>5, <1>6, <1>7 DEF Write

LEMMA BaseRetry ==
  ASSUME Base, vpc = "idle", Retry, UNCHANGED verifyVars
  PROVE  Base'
<1>1. /\ TaskTypes' /\ MemoryTypes' /\ VerifyTypes' /\ Aligned' /\ LoopTypes'
  <2>1. pc' \in Places
    BY DEF Retry, Places
  <2>2. QED
    BY <2>1, BaseKeeps, SameLoop DEF Retry, constVars, taskVars
<1>2. init_nonces' = init_nonces /\ gws' = gws
  BY SameUse DEF Retry, constVars
<1>3. FileTypes'
  BY <1>2 DEF Retry, close, Base, FileTypes, size
<1>4. Phase'
  BY DEF Base, Phase, Plotting, Retry, constVars, taskVars, hasherVars
<1>5. Handle' /\ Loop'
  BY <1>2 DEF Base, Handle, Loop, Retry, close, is_open, Dio
<1>6. QED
  BY <1>1, <1>3, <1>4, <1>5 DEF Base

LEMMA BaseSubmit ==
  ASSUME Base, vpc = "idle", Submit, UNCHANGED verifyVars
  PROVE  Base'
<1>1. /\ init_nonces' = init_nonces /\ pc = "submit" /\ pc' \in {"cut", "ended"}
      /\ prev' = prev /\ task' = task /\ use' = use /\ run' = run
      /\ total_nonces' = total_nonces /\ stopped' = stopped
      /\ submitted' = submitted + task.nonces
      /\ renamed' = (submitted' = init_nonces)
  BY SameUse DEF Submit, constVars, hasherVars
<1>2. submitted' = prev
  BY <1>1 DEF Base, TaskTypes, Phase, Plotting
<1>3. TaskTypes'
  <2>1. stopped' \in BOOLEAN /\ pc' \in Places /\ submitted' \in 0 .. prev /\ renamed' \in BOOLEAN
    BY <1>1, <1>2, BaseUse, UseIs DEF Base, TaskTypes, Places
  <2>2. QED
    BY <1>1, <2>1, SameTask
<1>4. MemoryTypes' /\ LoopTypes' /\ VerifyTypes' /\ Aligned'
  BY <1>1, SameMemory, SameLoop, SameVerify, SameAligned DEF Submit, hasherVars
<1>5. /\ handle' = "closed" \/ handle' = handle
      /\ pos' = pos /\ exists' = exists /\ data' = data /\ faults' = faults
  BY DEF Submit, close, fileVars
<1>6. FileTypes'
  BY <1>1, <1>5 DEF Base, FileTypes, size
<1>7. Phase'
  <2>1. renamed' => pc' = "ended"
    BY <1>1 DEF Submit
  <2>2. total_nonces = 0
    BY <1>1, BaseUse, UseIs DEF Base, Phase, TaskTypes
  <2>3. QED
    BY <1>1, <1>2, <2>1, <2>2 DEF Phase, Plotting
<1>8. Handle' /\ Loop'
  BY <1>1, <1>5 DEF Base, Handle, Loop, is_open, Dio
<1>9. QED
  BY <1>3, <1>4, <1>6, <1>7, <1>8 DEF Base

LEMMA BaseStop ==
  ASSUME Base, vpc = "idle", Stop, UNCHANGED verifyVars
  PROVE  Base'
<1>1. TaskTypes'
  <2>1. /\ UNCHANGED <<use, run, prev, task, total_nonces>>
        /\ stopped' \in BOOLEAN /\ pc' \in Places /\ submitted' \in 0 .. prev /\ renamed' \in BOOLEAN
    BY DEF Stop, constVars, taskVars, hasherVars, Base, TaskTypes, Places
  <2>2. QED
    BY <2>1, SameTask
<1>2. MemoryTypes' /\ LoopTypes' /\ VerifyTypes' /\ Aligned' /\ FileTypes'
  BY SameMemory, SameLoop, SameVerify, SameAligned, SameFile
     DEF Stop, constVars, taskVars, hasherVars
<1>3. Phase' /\ Handle'
  BY SameUse DEF Base, Phase, Handle, Plotting, Stop, constVars, taskVars, hasherVars, fileVars,
                 is_open, Dio
<1>4. Loop'
  <2>1. /\ pc' = pc /\ scoop' = scoop /\ nonces' = nonces /\ task' = task /\ nstart' = nstart
        /\ pos' = pos /\ handle' = handle /\ write_buffer' = write_buffer /\ block' = block
        /\ init_nonces' = init_nonces
    BY SameUse DEF Stop, constVars, taskVars, hasherVars, loopVars, fileVars
  <2>2. Offset' = Offset /\ Chunk' = Chunk /\ Written' = Written
    BY <2>1 DEF Offset, Chunk, Written
  <2>3. QED
    BY <2>1, <2>2 DEF Base, Loop
<1>5. QED
  BY <1>1, <1>2, <1>3, <1>4 DEF Base

LEMMA BaseRestart ==
  ASSUME Base, vpc = "idle", Restart, UNCHANGED verifyVars
  PROVE  Base'
<1>1. /\ use' = use /\ run' = run + 1 /\ run < Len(use.runs) /\ renamed' = renamed
      /\ pc' = "cut" /\ stopped' = FALSE /\ prev' = 0 /\ submitted' = 0
      /\ task' = [sn |-> 0, nonces |-> 0] /\ total_nonces' = 0 /\ ~renamed
  BY DEF Restart
<1>2. use' \in Uses /\ run' \in 1 .. Len(use'.runs)
  <2>1. use \in Uses /\ run \in 1 .. Len(use.runs)
    BY BaseUse
  <2>2. Len(use.runs) \in Nat
    BY <2>1, UsesAssumption, LenProperties
  <2>3. QED
    BY <1>1, <2>1, <2>2
<1>3. /\ (use.runs[run'].gws) \in Nat \ {0}
      /\ use.runs[run'].gws * use.runs[run'].buffers \in Nat \ {0}
  <2>1. use.runs \in Seq([gws : Nat \ {0}, buffers : Nat \ {0}])
    BY BaseUse, UsesAssumption
  <2>2. \A x \in 1 .. Len(use.runs) : use.runs[x] \in [gws : Nat \ {0}, buffers : Nat \ {0}]
    BY <2>1, ElementOfSeq
  <2>3. use.runs[run'] \in [gws : Nat \ {0}, buffers : Nat \ {0}]
    BY <1>1, <1>2, <2>2
  <2>4. QED
    BY <2>3, ProductPositive
<1>4. init_nonces' = init_nonces /\ init_nonces \in Nat \ {0}
  BY <1>1, BaseUse, UseIs DEF init_nonces
<1>5. gws' = use.runs[run'].gws /\ WorkSize' = use.runs[run'].gws * use.runs[run'].buffers
  BY <1>1 DEF gws, WorkSize
<1>6. TaskTypes'
  <2>1. task'.sn = 0 /\ task'.nonces = 0 /\ task' \in [sn : Nat, nonces : 0 .. WorkSize']
    BY <1>1, <1>3, <1>5
  <2>2. /\ prev' \in 0 .. init_nonces' /\ total_nonces' \in 0 .. task'.nonces
        /\ submitted' \in 0 .. prev' /\ task'.sn + task'.nonces = prev'
    BY <1>1, <1>4, <2>1
  <2>3. stopped' \in BOOLEAN /\ renamed' \in BOOLEAN
    BY <1>1 DEF Base, TaskTypes
  <2>4. QED
    BY <1>1, <1>2, <2>1, <2>2, <2>3 DEF TaskTypes
<1>7. MemoryTypes'
  <2>1. /\ dev_buff' = EmptyBlock(gws') /\ block' = EmptyBlock(WorkSize') /\ host_buff' = 0
        /\ gws' \in Nat /\ WorkSize' \in Nat
    BY <1>3, <1>5 DEF Restart
  <2>2. dev_buff' \in Memory(gws') /\ block' \in Memory(WorkSize')
    BY <2>1, EmptyBlockIs
  <2>3. QED
    BY <2>1, <2>2 DEF MemoryTypes
<1>8. LoopTypes'
  <2>1. <<>> \in Seq(Units) /\ Len(<<>>) = 0
    BY EmptySeq
  <2>2. QED
    BY <2>1, LayoutIs, SectorIs DEF Restart, LoopTypes
<1>9. FileTypes'
  BY <1>4 DEF Restart, close, Base, FileTypes, size
<1>10. VerifyTypes'
  BY SameVerify
<1>11. Phase' /\ Handle' /\ Loop'
  BY <1>1, <1>4 DEF Base, Phase, Handle, Loop, Plotting, Restart, close, is_open
<1>12. Aligned'
  <2>1. Times(Sector, 0)
    BY SectorIs DEF Times
  <2>2. QED
    BY <1>1, <2>1 DEF Aligned
<1>13. QED
  BY <1>6, <1>7, <1>8, <1>9, <1>10, <1>11, <1>12 DEF Base

LEMMA BaseWriter ==
  ASSUME Base, vpc = "idle", WriterNext, UNCHANGED verifyVars
  PROVE  Base'
BY BaseCut, BasePlotBatch, BaseOpen, BaseAllocate, BasePerform, BaseScoopLoop,
   BaseGroupLoop, BaseWrite, BaseRetry, BaseSubmit, BaseStop, BaseRestart
   DEF WriterNext, WriterStep

\* The steps after the writer's.
LEMMA BaseAfter ==
  ASSUME Base, UNCHANGED writerVars, Left, exists' = exists,
         handle' \in {"closed", "buffered"} \/ handle' = handle,
         FileTypes', VerifyTypes', exists
  PROVE  Base'
<1>1. /\ use' = use /\ run' = run /\ pc' = pc /\ pc = "ended" /\ task' = task /\ prev' = prev
      /\ init_nonces' = init_nonces
  BY SameUse DEF writerVars, constVars, taskVars, Left
<1>2. TaskTypes'
  BY <1>1, SameTask DEF writerVars, taskVars, hasherVars, Base, TaskTypes, Places
<1>3. MemoryTypes' /\ LoopTypes' /\ Aligned'
  BY <1>1, SameMemory, SameLoop, SameAligned DEF writerVars, hasherVars
<1>4. Phase' /\ Loop'
  BY <1>1 DEF Base, Phase, Plotting, Loop, writerVars, taskVars, hasherVars
<1>5. Handle'
  BY <1>1 DEF Base, Handle, is_open, Dio
<1>6. QED
  BY <1>2, <1>3, <1>4, <1>5 DEF Base

LEMMA BaseDamage ==
  ASSUME Base, Damage
  PROVE  Base'
<1>1. PICK p \in DamagePlaces \cap DOMAIN data : data' = [data EXCEPT ![p] = Blank]
  BY DEF Damage
<1>2. data \in Seq(Stuff) /\ p \in 1 .. Len(data) /\ Blank \in Stuff
  <2>1. data \in Seq(Stuff)
    BY DEF Base, FileTypes
  <2>2. QED
    BY <1>1, <2>1, LenProperties DEF Stuff
<1>3. data' \in Seq(Stuff) /\ size' = size
  BY <1>1, <1>2, ExceptSeq DEF size
<1>4. init_nonces' = init_nonces
  BY SameUse DEF Damage, writerVars, constVars
<1>5. FileTypes'
  BY <1>3, <1>4 DEF Damage, Base, FileTypes
<1>6. VerifyTypes'
  BY VerificationsAssumption DEF Damage, Base, VerifyTypes
<1>7. Left /\ exists /\ UNCHANGED writerVars /\ exists' = exists /\ handle' = handle
  BY DEF Damage, Left
<1>8. QED
  BY <1>5, <1>6, <1>7, BaseAfter

LEMMA BaseCheck ==
  ASSUME Base, Check
  PROVE  Base'
<1>1. Left /\ exists /\ UNCHANGED writerVars
  BY DEF Check, Left
<1>2. init_nonces' = init_nonces /\ pc' = pc
  BY SameUse DEF Check, writerVars, constVars
<1>3. \/ /\ handle' = "buffered" /\ pos' = 0 /\ exists' = TRUE /\ data' = data
         /\ faults' = faults
      \/ /\ faults < MaxFaults /\ faults' = faults + 1
         /\ handle' = handle /\ pos' = pos /\ exists' = exists /\ data' = data
  BY DEF Check, open, Fault
<1>4. FileTypes'
  <2>1. 0 \in 0 .. init_nonces * Scoops
    <3> DEFINE y == init_nonces * Scoops
    <3>1. y \in Nat
      BY BaseUse, UseIs, LayoutIs, ProductNat
    <3> HIDE DEF y
    <3>2. 0 \in 0 .. y
      BY <3>1
    <3>3. QED
      BY <3>2 DEF y
  <2>2. CASE /\ handle' = "buffered" /\ pos' = 0 /\ exists' = TRUE /\ data' = data
             /\ faults' = faults
    BY <1>2, <2>1, <2>2 DEF Base, FileTypes, size
  <2>3. CASE /\ faults < MaxFaults /\ faults' = faults + 1
             /\ handle' = handle /\ pos' = pos /\ exists' = exists /\ data' = data
    BY <1>2, <2>3, SectorIs DEF Base, FileTypes, size
  <2>4. QED
    BY <1>3, <2>2, <2>3
<1>5. exists' = exists
  BY <1>1, <1>3
<1>6. VerifyTypes'
  <2>1. args' \in Verifications /\ damage' = damage /\ i' = i /\ vscoop' = vscoop
    BY DEF Check
  <2>2. vpc' \in {"unopened", "batch", "invalid"}
    BY DEF Check
  <2>3. Left'
    BY <1>1, <1>2, <1>5 DEF Left
  <2>4. FileNonces' = FileNonces /\ size' = size
    BY <1>3 DEF FileNonces, size
  <2>5. vpc' = "batch" => FileNonces = init_nonces /\ size = FileNonces * Scoops
    BY DEF Check
  <2>6. QED
    BY <1>2, <2>1, <2>2, <2>3, <2>4, <2>5 DEF Base, VerifyTypes
<1>7. QED
  BY <1>1, <1>3, <1>4, <1>5, <1>6, BaseAfter

LEMMA BaseBatch ==
  ASSUME Base, Batch
  PROVE  Base'
<1>1. Left /\ exists /\ UNCHANGED writerVars /\ UNCHANGED fileVars /\ exists' = exists
      /\ handle' = handle /\ pc' = pc
  BY DEF Batch, Left, Base, VerifyTypes, fileVars, writerVars
<1>2. FileTypes'
  BY <1>1, SameFile DEF writerVars, constVars
<1>3. Left'
  BY <1>1 DEF Left
<1>4. vpc # "idle" /\ vpc' \in {"compare", "good"} /\ vscoop' \in {0, vscoop}
      /\ args' = args /\ damage' = damage /\ i' = i
  BY DEF Batch
<1>5. VerifyTypes'
  <2>1. FileNonces' = FileNonces /\ size' = size /\ init_nonces' = init_nonces
    BY <1>1, SameUse DEF FileNonces, size, fileVars, writerVars, constVars
  <2>2. vpc = "batch" /\ (vpc' = "compare" => i < FileNonces /\ vscoop' = 0)
    BY DEF Batch
  <2>3. QED
    BY <1>3, <1>4, <2>1, <2>2, LayoutIs DEF Base, VerifyTypes
<1>6. QED
  BY <1>1, <1>2, <1>5, BaseAfter

\* A batch of the verification is in the file.
LEMMA BatchIs ==
  ASSUME Base, vpc = "compare"
  PROVE  /\ args.gws \in Nat \ {0} /\ args.step \in Nat
         /\ off \in Nat /\ n \in Nat \ {0} /\ n <= args.gws
         /\ FileNonces = init_nonces /\ size = init_nonces * Scoops
         /\ off + n <= init_nonces
         /\ i < init_nonces /\ i \in Nat /\ vscoop \in 0 .. Scoops - 1
         /\ init_nonces \in Nat \ {0}
<1>1. args \in [gws : Nat \ {0}, step : Nat]
  BY VerificationsAssumption DEF Base, VerifyTypes
<1>2. /\ FileNonces = init_nonces /\ size = init_nonces * Scoops
      /\ i < init_nonces /\ i \in Nat /\ vscoop \in 0 .. Scoops - 1
      /\ init_nonces \in Nat \ {0}
  BY BaseUse, UseIs, LayoutIs DEF Base, VerifyTypes
<1>3. off \in Nat /\ n \in Nat \ {0} /\ n <= args.gws /\ off + n <= init_nonces
  BY <1>1, <1>2 DEF off, n, Larger, Smaller
<1>4. QED
  BY <1>1, <1>2, <1>3

\* The place of a nonce in a scoop of a file.
LEMMA FilePlace ==
  ASSUME NEW m \in Nat \ {0}, NEW k \in 0 .. m - 1, NEW s \in 0 .. Scoops - 1
  PROVE  /\ k + s * m \in Nat
         /\ k + s * m < m * Scoops
         /\ s * m + m <= m * Scoops
         /\ s * m \in Nat /\ m * Scoops \in Nat
<1>1. s * m \in Nat /\ m * Scoops \in Nat
  BY LayoutIs, ProductNat
<1>2. m * (s + 1) <= m * Scoops
  BY LayoutIs, ProductMonotone
<1>3. m * (s + 1) = s * m + m
  OBVIOUS
<1> DEFINE x == s * m
           y == m * Scoops
<1>4. x \in Nat /\ y \in Nat /\ x + m <= y
  BY <1>1, <1>2, <1>3
<1> HIDE DEF x, y
<1>5. k + x \in Nat /\ k + x < y
  BY <1>4
<1>6. QED
  BY <1>4, <1>5 DEF x, y

LEMMA BaseCompareScoop ==
  ASSUME Base, CompareScoop
  PROVE  Base'
<1>1. /\ Left /\ exists /\ UNCHANGED writerVars /\ vpc = "compare"
      /\ damage' = damage /\ args' = args
  BY DEF CompareScoop, Base, VerifyTypes, Left
<1>2. init_nonces' = init_nonces /\ pc' = pc
  BY <1>1, SameUse DEF writerVars, constVars
<1>3. /\ args.gws \in Nat \ {0} /\ args.step \in Nat
      /\ off \in Nat /\ n \in Nat \ {0}
      /\ FileNonces = init_nonces /\ size = init_nonces * Scoops
      /\ off + n <= init_nonces
      /\ i < init_nonces /\ i \in Nat /\ vscoop \in 0 .. Scoops - 1
      /\ init_nonces \in Nat \ {0}
  BY <1>1, BatchIs
<1>4. /\ handle' = handle /\ exists' = exists /\ data' = data
      /\ \/ pos' = off + vscoop * FileNonces /\ faults' = faults
         \/ pos' = pos /\ faults' \in {faults} \cup (IF faults < MaxFaults THEN {faults + 1} ELSE {})
  BY DEF CompareScoop, seek, fails, Fault
<1>5. off + vscoop * FileNonces \in 0 .. init_nonces * Scoops
  <2>1. off \in 0 .. init_nonces - 1
    BY <1>3
  <2>2. /\ off + vscoop * init_nonces \in Nat
        /\ off + vscoop * init_nonces < init_nonces * Scoops
        /\ init_nonces * Scoops \in Nat
    BY <1>3, <2>1, FilePlace
  <2> DEFINE x == vscoop * init_nonces
             y == init_nonces * Scoops
  <2>3. off + x \in Nat /\ off + x < y /\ y \in Nat
    BY <2>2
  <2> HIDE DEF x, y
  <2>4. off + x \in 0 .. y
    BY <2>3
  <2>5. QED
    BY <1>3, <2>4 DEF x, y
<1>6. FileTypes'
  <2>1. pos' \in 0 .. init_nonces * Scoops
    BY <1>4, <1>5 DEF Base, FileTypes
  <2>2. faults' \in 0 .. MaxFaults
    BY <1>4, SectorIs DEF Base, FileTypes
  <2>3. size' = size
    BY <1>4 DEF size
  <2>4. QED
    BY <1>2, <1>4, <2>1, <2>2, <2>3 DEF Base, FileTypes
<1>7. VerifyTypes'
  <2>1. Left' /\ FileNonces' = FileNonces /\ size' = size
    BY <1>1, <1>2, <1>4 DEF Left, FileNonces, size
  <2>2. \/ /\ vscoop' = vscoop + 1 /\ vscoop + 1 # Scoops /\ vpc' = "compare" /\ i' = i
        \/ /\ vscoop' = vscoop + 1 /\ vpc' = "batch" /\ i' = NextBatch
        \/ /\ vpc' \in {"bad", "unread"} /\ i' = i /\ vscoop' = vscoop
    BY DEF CompareScoop
  <2>3. i' \in Nat /\ vscoop' \in 0 .. Scoops
    BY <1>3, <2>2, LayoutIs DEF NextBatch
  <2>4. vpc' = "compare" => i' < FileNonces' /\ vscoop' < Scoops
    BY <1>3, <2>1, <2>2, LayoutIs
  <2>5. vpc' \in {"compare", "batch", "bad", "unread"}
    BY <2>2
  <2>6. args' \in Verifications /\ damage' \in 0 .. MaxDamage
    BY <1>1 DEF Base, VerifyTypes
  <2>7. FileNonces' = init_nonces' /\ size' = FileNonces' * Scoops
    BY <1>2, <1>3, <2>1
  <2>8. QED
    BY <2>1, <2>3, <2>4, <2>5, <2>6, <2>7 DEF VerifyTypes
<1>8. QED
  BY <1>1, <1>4, <1>6, <1>7, BaseAfter

LEMMA BaseStep == Base /\ [Next]_<<vars, verifyVars>> => Base'
<1> SUFFICES ASSUME Base, [Next]_<<vars, verifyVars>>
             PROVE  Base'
  OBVIOUS
<1>1. CASE vpc = "idle" /\ WriterNext /\ UNCHANGED verifyVars
  BY <1>1, BaseWriter
<1>2. CASE Damage
  BY <1>2, BaseDamage
<1>3. CASE Verify
  BY <1>3, BaseCheck, BaseBatch, BaseCompareScoop DEF Verify
<1>4. CASE UNCHANGED <<vars, verifyVars>>
  <2>1. /\ UNCHANGED <<use, run, pc, task, prev>> /\ UNCHANGED hasherVars /\ UNCHANGED loopVars
        /\ UNCHANGED fileVars /\ UNCHANGED verifyVars
        /\ UNCHANGED <<stopped, submitted, total_nonces, renamed, exists>>
    BY <1>4 DEF vars, writerVars, constVars, taskVars, hasherVars, fileVars
  <2>2. TaskTypes'
    BY <2>1, SameTask DEF Base, TaskTypes, Places
  <2>3. MemoryTypes' /\ LoopTypes' /\ FileTypes' /\ Aligned'
    BY <2>1, SameMemory, SameLoop, SameFile, SameAligned DEF hasherVars
  <2>4. VerifyTypes'
    BY <2>1, SameUse DEF Base, VerifyTypes, verifyVars, Left, FileNonces, size, fileVars
  <2>5. Phase' /\ Handle'
    BY <2>1, SameUse DEF Base, Phase, Handle, Plotting, fileVars, is_open, Dio
  <2>6. Loop'
    <3>1. /\ pc' = pc /\ scoop' = scoop /\ nonces' = nonces /\ task' = task /\ nstart' = nstart
          /\ pos' = pos /\ handle' = handle /\ write_buffer' = write_buffer /\ block' = block
          /\ init_nonces' = init_nonces
      BY <2>1, SameUse DEF hasherVars, loopVars, fileVars
    <3>2. Offset' = Offset /\ Chunk' = Chunk /\ Written' = Written
      BY <3>1 DEF Offset, Chunk, Written
    <3>3. QED
      BY <3>1, <3>2 DEF Base, Loop
  <2>7. QED
    BY <2>2, <2>3, <2>4, <2>5, <2>6 DEF Base
<1>5. QED
  BY <1>1, <1>2, <1>3, <1>4 DEF Next

LEMMA BaseAlways == Spec => []Base
<1>1. VerifyInit => Base
  BY BaseInit
<1>2. Base /\ [Next]_<<vars, verifyVars>> => Base'
  BY BaseStep
<1>3. QED
  BY <1>1, <1>2, PTL DEF Spec

\* The types are as declared: no count leaves its range, and nothing but words
\* and unwritten places is in a memory or in the file.
THEOREM TypesHold == Spec => []VerifyTypeOK
<1>1. Base => VerifyTypeOK
  BY DEF Base, VerifyTypeOK, TypeOK, TaskTypes, MemoryTypes, LoopTypes, FileTypes,
         VerifyTypes, Stuff
<1>2. QED
  BY <1>1, BaseAlways, PTL

\* With direct I/O every write starts at a sector of the disk and is a whole
\* number of sectors long, wherever an earlier write of the buffer broke off, for
\* a file, a group of scoops and a work size that are multiples of a sector
\* (src/src/worker_writer.cpp:57-66, src/src/plotter.cpp:151).
THEOREM WritesAreAligned == Spec => []AlignedIO
<1>1. ASSUME Base, pc = "write", handle = "direct"
      PROVE  pos % Sector = 0 /\ Len(write_buffer) % Sector = 0
  <2>1. /\ Offset \in Nat /\ nstart \in Nat /\ Written \in Nat
        /\ Len(write_buffer) \in Nat \ {0}
        /\ Chunk = Written + Len(write_buffer)
        /\ nonces = task.nonces - nstart
        /\ pos \in Nat /\ pos = Offset + nstart + Written
        /\ task.nonces \in Nat
    BY <1>1, WriteIs
  <2>2. Dio /\ Times(Sector, Written) /\ scoop < Scoops
    BY <1>1 DEF Base, Handle, Loop
  <2>3. Times(Sector, Offset)
    BY <1>1, <2>2, OffsetIs
  <2>4. Times(Sector, nstart)
    <3>1. Times(ScoopsPerWrite, nstart)
      BY <1>1 DEF Base, Loop
    <3>2. QED
      BY <2>1, <3>1, SectorIs, TimesTrans
  <2>5. Times(Sector, pos)
    <3>1. Times(Sector, Offset + nstart)
      BY <2>1, <2>3, <2>4, SectorIs, TimesSum
    <3>2. Offset + nstart \in Int /\ Written \in Int
      BY <2>1
    <3>3. QED
      BY <2>1, <2>2, <3>1, <3>2, SectorIs, TimesSum
  <2>6. Times(Sector, task.nonces)
    <3>1. Times(Sector, init_nonces)
      BY <1>1, <2>2, BaseUse, UseIs, SectorIs, TimesIs DEF Dio
    <3>2. Times(Sector, task.sn) /\ (prev < init_nonces => Times(Sector, prev))
      BY <1>1 DEF Base, Aligned
    <3>3. /\ task.sn \in Int /\ prev \in Int /\ prev <= init_nonces
          /\ task.nonces = prev - task.sn /\ init_nonces \in Int
      BY <1>1, BaseUse, UseIs DEF Base, TaskTypes
    <3>4. Times(Sector, prev)
      BY <3>1, <3>2, <3>3
    <3>5. Times(Sector, prev - task.sn)
      BY <3>2, <3>3, <3>4, SectorIs, TimesSum
    <3>6. QED
      BY <3>3, <3>5
  <2>7. Times(Sector, Chunk)
    <3>1. CASE Chunk = ScoopsPerWrite
      BY <3>1, SectorIs
    <3>2. CASE Chunk = nonces
      <4>1. Times(Sector, task.nonces - nstart)
        <5>1. task.nonces \in Int /\ nstart \in Int /\ Sector \in Nat \ {0}
          BY <2>1, SectorIs
        <5>2. QED
          BY <2>4, <2>6, <5>1, TimesSum
      <4>2. QED
        BY <2>1, <3>2, <4>1
    <3>3. QED
      BY <1>1, <3>1, <3>2, GroupIs
  <2>8. Times(Sector, Len(write_buffer))
    <3>1. Chunk \in Int /\ Written \in Int /\ Len(write_buffer) = Chunk - Written
      BY <2>1
    <3>2. Times(Sector, Chunk - Written)
      BY <2>2, <2>7, <3>1, SectorIs, TimesSum
    <3>3. QED
      BY <3>1, <3>2
  <2>9. QED
    BY <2>1, <2>5, <2>8, SectorIs, TimesIs
<1>2. Base => AlignedIO
  BY <1>1 DEF AlignedIO
<1>3. QED
  BY <1>2, BaseAlways, PTL
-----------------------------------------------------------------------------
(* What is in the memories                                                 *)

\* host_buff, in batches.
Batches ==
  pc = "hash" =>
    \E c \in Nat :
      /\ Done = c * gws
      /\ c = 0 => host_buff = 0
      /\ c = 1 => host_buff = Wrap(gws * PlotSize)
      /\ gws * PlotSize < IntRange => host_buff = c * (gws * PlotSize)

\* No nonce is in memory before it is plotted.
Past ==
  /\ \A p \in DOMAIN dev_buff : dev_buff[p][1] < StartNonce + task.sn + Done
  /\ \A p \in DOMAIN block : block[p][1] < StartNonce + task.sn + Done

\* The first word of the second batch.
Second == Word(StartNonce + task.sn + gws, 0, 0)

\* Its place is at the start of dev_buff, and if host_buff overflows it does not
\* get to its place in the block.
Stray ==
  /\ \A p \in DOMAIN dev_buff : dev_buff[p] = Second => p = 0
  /\ gws * PlotSize >= IntRange /\ gws < task.nonces =>
       block[gws * NonceWords] # Second

\* The nonces plotted are in their places.
Hashed ==
  InRange(use.runs[run], task.nonces) =>
    \A k \in 0 .. Done - 1 : \A h \in Hashes, w \in HashPlaces :
      block[Place(k, h, w)] = Word(StartNonce + task.sn + k, h, w)

Memories == Batches /\ Past /\ Stray /\ Hashed

LEMMA MemoriesInit == VerifyInit /\ Base => Memories
<1> SUFFICES ASSUME VerifyInit, Base
             PROVE  Memories
  OBVIOUS
<1>1. /\ gws \in Nat \ {0} /\ WorkSize \in Nat \ {0} /\ StartNonce \in Nat
  BY BaseUse, UseIs, SectorIs
<1>2. /\ task.sn = 0 /\ task.nonces = 0 /\ total_nonces = 0 /\ pc = "cut"
      /\ dev_buff = EmptyBlock(gws) /\ block = EmptyBlock(WorkSize)
  <2>1. task = [sn |-> 0, nonces |-> 0]
    BY DEF VerifyInit, Init
  <2>2. QED
    BY <2>1 DEF VerifyInit, Init
<1>3. /\ \A p \in DOMAIN dev_buff : dev_buff[p] = Garbage
      /\ \A p \in DOMAIN block : block[p] = Garbage
  BY <1>1, <1>2, EmptyBlockIs
<1>4. Past
  BY <1>1, <1>2, <1>3, GarbageIs DEF Past, Done
<1>5. Stray
  BY <1>1, <1>2, <1>3, GarbageIs DEF Stray, Second
<1>6. Batches /\ Hashed
  BY <1>2 DEF Batches, Hashed, Done
<1>7. QED
  BY <1>4, <1>5, <1>6 DEF Memories

LEMMA MemoriesSame ==
  ASSUME Memories, UNCHANGED <<use, run, task>>, UNCHANGED hasherVars,
         pc' = "hash" => pc = "hash"
  PROVE  Memories'
<1>1. /\ gws' = gws /\ task' = task /\ total_nonces' = total_nonces /\ host_buff' = host_buff
      /\ dev_buff' = dev_buff /\ block' = block /\ use' = use /\ run' = run
  BY SameUse DEF hasherVars
<1>2. Done' = Done /\ Second' = Second
  BY <1>1 DEF Done, Second
<1>3. Batches'
  BY <1>1, <1>2 DEF Memories, Batches
<1>4. Past'
  BY <1>1, <1>2 DEF Memories, Past
<1>5. Stray'
  BY <1>1, <1>2 DEF Memories, Stray
<1>6. Hashed'
  BY <1>1, <1>2 DEF Memories, Hashed
<1>7. QED
  BY <1>3, <1>4, <1>5, <1>6 DEF Memories

LEMMA MemoriesCut ==
  ASSUME Base, Memories, Cut
  PROVE  Memories'
<1>1. /\ gws' = gws /\ dev_buff' = dev_buff /\ block' = block
      /\ gws \in Nat \ {0} /\ StartNonce \in Nat
  BY SameUse, BaseUse, UseIs, SectorIs DEF Cut, constVars
<1>2. /\ task'.sn = prev /\ total_nonces' = task'.nonces /\ host_buff' = 0
  BY DEF Cut
<1>3. /\ prev \in Nat /\ prev = task.sn + task.nonces /\ total_nonces = 0
      /\ task.sn \in Nat /\ task.nonces \in Nat
  BY BaseUse, UseIs DEF Cut, Base, TaskTypes, Phase
<1>4. task'.nonces \in Nat
  BY <1>3, BaseUse, UseIs DEF Cut, NextNonces, Smaller
<1>5. Done' = 0 /\ Done = task.nonces
  BY <1>2, <1>3, <1>4 DEF Done
<1>6. Batches'
  <2>1. /\ Done' = 0 * gws' /\ host_buff' = 0 * (gws' * PlotSize) /\ host_buff' = 0
        /\ 0 \in Nat /\ 0 # 1
    BY <1>1, <1>2, <1>5, LayoutIs
  <2>2. QED
    BY <2>1 DEF Batches
<1>7. /\ \A p \in DOMAIN dev_buff : dev_buff[p][1] < StartNonce + prev
      /\ \A p \in DOMAIN block : block[p][1] < StartNonce + prev
  BY <1>1, <1>3, <1>5 DEF Memories, Past
<1>8. Past'
  BY <1>1, <1>2, <1>3, <1>5, <1>7 DEF Past
<1>9. Stray'
  <2>1. Second' = Word(StartNonce + prev + gws, 0, 0)
    BY <1>1, <1>2 DEF Second
  <2>2. Second'[1] = StartNonce + prev + gws
    BY <2>1 DEF Word
  <2>3. /\ \A p \in DOMAIN dev_buff : dev_buff[p] # Second'
        /\ \A p \in DOMAIN block : block[p] # Second'
    BY <1>1, <1>3, <1>7, <2>2
  <2>4. task'.nonces <= WorkSize /\ WorkSize \in Nat \ {0}
    BY <1>3, BaseUse, UseIs DEF Cut, NextNonces, Smaller
  <2>5. ASSUME gws < task'.nonces
        PROVE  gws * NonceWords \in DOMAIN block
    <3>1. gws \in 0 .. WorkSize - 1
      BY <1>1, <1>4, <2>4, <2>5
    <3>2. NonceWords * gws \in Nat
      BY <1>1, LayoutIs, ProductNat
    <3>3. NonceWords * gws <= NonceWords * (WorkSize - 1)
      BY <1>1, <2>4, <3>1, LayoutIs, ProductMonotone
    <3>4. gws * NonceWords \in 0 .. WorkSize * NonceWords - 1
      BY <1>1, <2>4, <3>2, <3>3, LayoutIs
    <3>5. QED
      BY <3>4 DEF Base, MemoryTypes, Memory
  <2>6. QED
    BY <1>1, <2>3, <2>5 DEF Stray
<1>10. Hashed'
  BY <1>5 DEF Hashed
<1>11. QED
  BY <1>6, <1>8, <1>9, <1>10 DEF Memories

LEMMA MemoriesRestart ==
  ASSUME Base, Memories, Restart
  PROVE  Memories'
<1>1. /\ use' = use /\ pc' = "cut"
      /\ task'.sn = 0 /\ task'.nonces = 0 /\ total_nonces' = 0
  BY DEF Restart
<1>2. /\ (use.runs[run'].gws) \in Nat \ {0}
      /\ use.runs[run'].gws * use.runs[run'].buffers \in Nat \ {0}
  <2>1. use \in Uses /\ run \in 1 .. Len(use.runs) /\ run' = run + 1 /\ run < Len(use.runs)
    BY BaseUse DEF Restart
  <2>2. use.runs \in Seq([gws : Nat \ {0}, buffers : Nat \ {0}])
    BY <2>1, UsesAssumption
  <2>3. \A x \in 1 .. Len(use.runs) : use.runs[x] \in [gws : Nat \ {0}, buffers : Nat \ {0}]
    BY <2>2, ElementOfSeq
  <2>4. Len(use.runs) \in Nat
    BY <2>2, LenProperties
  <2>5. run' \in 1 .. Len(use.runs)
    BY <2>1, <2>4
  <2>6. use.runs[run'] \in [gws : Nat \ {0}, buffers : Nat \ {0}]
    BY <2>3, <2>5
  <2>7. QED
    BY <2>6, ProductPositive
<1>3. gws' = use.runs[run'].gws /\ gws' \in Nat \ {0} /\ StartNonce \in Nat
  BY <1>1, <1>2, SectorIs DEF gws
<1>4. /\ \A p \in DOMAIN dev_buff' : dev_buff'[p] = Garbage
      /\ \A p \in DOMAIN block' : block'[p] = Garbage
  <2>1. /\ dev_buff' = EmptyBlock(use.runs[run'].gws)
        /\ block' = EmptyBlock(use.runs[run'].gws * use.runs[run'].buffers)
    BY DEF Restart
  <2>2. QED
    BY <1>2, <2>1, EmptyBlockIs
<1>5. Past'
  BY <1>1, <1>3, <1>4, GarbageIs DEF Past, Done
<1>6. Stray'
  BY <1>1, <1>3, <1>4, GarbageIs DEF Stray, Second
<1>7. Batches' /\ Hashed'
  BY <1>1 DEF Batches, Hashed, Done
<1>8. QED
  BY <1>5, <1>6, <1>7 DEF Memories

LEMMA AddressZero == Address(0, 0, 0) = 0
<1>1. 0 \in Nat /\ 0 \in Hashes /\ 0 \in HashPlaces
  BY LayoutIs DEF Hashes, HashPlaces
<1>2. AlignDown(0) = 0
  <2>1. \E c \in Nat : AlignDown(0) \in 0 .. 0
    BY AlignDownIs
  <2>2. QED
    BY <2>1
<1>3. AlignDown(0) * NonceWords < IntRange
  BY <1>2, LayoutIs
<1>4. Address(0, 0, 0) = Place(0, 0, 0)
  BY <1>1, <1>3, AddressIs
<1>5. 0 % NoncesVector = 0
  BY LayoutIs
<1>6. Place(0, 0, 0) = 0
  BY <1>2, <1>5, LayoutIs DEF Place
<1>7. QED
  BY <1>4, <1>6

LEMMA WrapRange ==
  ASSUME NEW x \in Int
  PROVE  Wrap(x) \in Int /\ Wrap(x) < IntRange
BY LayoutIs DEF Wrap

\* The part of the batch that follows from the code of the loop alone.
LEMMA BatchStep ==
  ASSUME Base, Memories, PlotBatch,
         NEW m, m = Smaller(total_nonces, gws)
  PROVE  /\ gws' = gws /\ task' = task /\ use' = use /\ run' = run
         /\ gws \in Nat \ {0} /\ task.sn \in Nat /\ task.nonces \in Nat
         /\ Times(NoncesVector, gws) /\ Times(NoncesVector, WorkSize)
         /\ m \in Nat \ {0} /\ m <= gws /\ Done \in Nat
         /\ Done + m <= task.nonces /\ task.nonces <= WorkSize /\ WorkSize \in Nat
         /\ Done' = Done + m /\ StartNonce \in Nat
         /\ dev_buff' = Plotted(dev_buff, StartNonce + task.sn + Done, m)
         /\ block' = Copied(dev_buff')
         /\ host_buff' = NextPlace(m)
         /\ pc' = "hash" => m = gws
         /\ dev_buff \in Memory(gws) /\ block \in Memory(WorkSize) /\ host_buff \in Int
         /\ Done > 0 => gws < task.nonces
<1>1. /\ gws' = gws /\ task' = task /\ use' = use /\ run' = run
      /\ gws \in Nat \ {0} /\ Times(NoncesVector, gws) /\ Times(NoncesVector, WorkSize)
      /\ WorkSize \in Nat
  BY SameUse, BaseUse, UseIs DEF PlotBatch, constVars, taskVars
<1>2. /\ task.sn \in Nat /\ task.nonces \in Nat /\ total_nonces \in Nat \ {0}
      /\ total_nonces <= task.nonces /\ StartNonce \in Nat /\ task.nonces <= WorkSize
      /\ dev_buff \in Memory(gws) /\ block \in Memory(WorkSize) /\ host_buff \in Int
      /\ pc = "hash"
  BY <1>1, SectorIs DEF Base, TaskTypes, MemoryTypes, Phase, PlotBatch
<1>3. m \in Nat \ {0} /\ m <= gws /\ m <= total_nonces /\ (m = total_nonces \/ m = gws)
  BY <1>1, <1>2 DEF Smaller
<1>4. total_nonces' = total_nonces - m /\ (pc' = "hash" => m # total_nonces)
      /\ dev_buff' = Plotted(dev_buff, StartNonce + task.sn + (task.nonces - total_nonces), m)
      /\ block' = Copied(dev_buff')
      /\ host_buff' = NextPlace(m)
  BY DEF PlotBatch
<1>5. Done' = Done + m /\ Done \in Nat /\ Done + m <= task.nonces
  BY <1>1, <1>2, <1>3, <1>4 DEF Done
<1>6. ASSUME Done > 0
      PROVE  gws < task.nonces
  <2>1. PICK c \in Nat : Done = c * gws
    BY <1>2 DEF Memories, Batches
  <2>2. c >= 1
    <3>1. CASE c = 0
      <4>1. 0 * gws = 0
        BY <1>1
      <4>2. QED
        BY <1>6, <2>1, <3>1, <4>1
    <3>2. QED
      BY <3>1
  <2>3. gws * 1 <= gws * c
    BY <1>1, <2>1, <2>2, ProductMonotone
  <2>4. gws <= Done
    BY <1>1, <2>1, <2>3
  <2>5. QED
    BY <1>1, <1>2, <1>3, <1>5, <2>4
<1>7. QED
  <2>1. dev_buff' = Plotted(dev_buff, StartNonce + task.sn + Done, m)
    BY <1>4 DEF Done
  <2>2. pc' = "hash" => m = gws
    BY <1>3, <1>4
  <2>3. QED
    BY <1>1, <1>2, <1>3, <1>4, <1>5, <1>6, <2>1, <2>2

LEMMA BatchesKept ==
  ASSUME Base, Memories, PlotBatch
  PROVE  Batches'
<1> DEFINE m == Smaller(total_nonces, gws)
<1>1. /\ gws' = gws /\ gws \in Nat \ {0} /\ Done \in Nat
      /\ Done' = Done + m /\ host_buff' = NextPlace(m) /\ host_buff \in Int
      /\ pc' = "hash" => m = gws
  BY BatchStep
<1> HIDE DEF m
<1>2. SUFFICES ASSUME pc' = "hash"
               PROVE  Batches'
  BY DEF Batches
<1>3. m = gws
  BY <1>1, <1>2
<1>4. PICK c \in Nat :
        /\ Done = c * gws
        /\ c = 0 => host_buff = 0
        /\ gws * PlotSize < IntRange => host_buff = c * (gws * PlotSize)
  BY DEF Memories, Batches, PlotBatch
<1> DEFINE x == gws * PlotSize
<1>5. x \in Nat \ {0}
  BY <1>1, LayoutIs, ProductPositive
<1>6. host_buff' = host_buff + Wrap(x)
  BY <1>1, <1>3 DEF NextPlace
<1>7. Wrap(x) \in Int /\ (x < IntRange => Wrap(x) = x)
  BY <1>5, WrapIs, WrapRange, LayoutIs
<1>8. x < IntRange => host_buff = c * x
  BY <1>4
<1> HIDE DEF x
<1>9. x < IntRange => host_buff' = (c + 1) * x
  <2>1. (c + 1) * x = c * x + x
    BY <1>4, <1>5
  <2>2. QED
    BY <1>6, <1>7, <1>8, <2>1
<1>10. Done' = (c + 1) * gws
  <2>1. (c + 1) * gws = c * gws + gws
    BY <1>1, <1>4
  <2>2. QED
    BY <1>1, <1>3, <1>4, <2>1
<1>11. c = 0 => host_buff' = Wrap(x)
  BY <1>4, <1>6, <1>7
<1>12. /\ c + 1 \in Nat /\ c + 1 # 0 /\ (c + 1 = 1 => host_buff' = Wrap(gws' * PlotSize))
       /\ Done' = (c + 1) * gws'
       /\ gws' * PlotSize < IntRange => host_buff' = (c + 1) * (gws' * PlotSize)
  BY <1>1, <1>4, <1>9, <1>10, <1>11 DEF x
<1>13. QED
  BY <1>12 DEF Batches

LEMMA PastKept ==
  ASSUME Base, Memories, PlotBatch
  PROVE  Past'
<1> DEFINE m == Smaller(total_nonces, gws)
           b == StartNonce + task.sn + Done
<1>1. /\ task' = task /\ task.sn \in Nat /\ m \in Nat \ {0} /\ Done \in Nat
      /\ Done' = Done + m /\ StartNonce \in Nat
      /\ dev_buff' = Plotted(dev_buff, b, m)
      /\ block' = Copied(dev_buff')
  BY BatchStep
<1> HIDE DEF m
<1>2. b \in Nat /\ b + m = StartNonce + task'.sn + Done'
  BY <1>1
<1>3. /\ \A p \in DOMAIN dev_buff : dev_buff[p][1] < b
      /\ \A p \in DOMAIN block : block[p][1] < b
  BY DEF Memories, Past
<1> HIDE DEF b
<1>4. DOMAIN dev_buff' = DOMAIN dev_buff /\ DOMAIN block' = DOMAIN block
  BY <1>1 DEF Plotted, Copied
<1>5. ASSUME NEW p \in DOMAIN dev_buff'
      PROVE  dev_buff'[p][1] < b + m
  <2>1. CASE dev_buff'[p] = dev_buff[p]
    <3>1. dev_buff[p][1] < b /\ p \in DOMAIN dev_buff
      BY <1>3, <1>4
    <3>2. dev_buff[p][1] \in Int
      BY <3>1 DEF Base, MemoryTypes, Memory, Contents
    <3>3. QED
      BY <1>1, <1>2, <2>1, <3>1, <3>2
  <2>2. ASSUME NEW a \in 0 .. m - 1, NEW h, NEW w, dev_buff'[p] = Word(b + a, h, w)
        PROVE  dev_buff'[p][1] < b + m
    BY <1>1, <1>2, <2>2 DEF Word
  <2>3. \/ Plotted(dev_buff, b, m)[p] = dev_buff[p]
        \/ \E a \in 0 .. m - 1, h \in Hashes, w \in HashPlaces :
             Plotted(dev_buff, b, m)[p] = Word(b + a, h, w)
    <3>1. p \in DOMAIN dev_buff
      BY <1>4
    <3>2. Stale(dev_buff, b, m, p) \/ Fresh(dev_buff, b, m, p)
      BY <3>1, PlottedIs
    <3>3. QED
      BY <3>2 DEF Stale, Fresh
  <2>4. QED
    BY <1>1, <2>1, <2>2, <2>3
<1>6. ASSUME NEW p \in DOMAIN block'
      PROVE  block'[p][1] < b + m
  <2> DEFINE from == p - host_buff \div WordBytes
  <2>1. block'[p] = IF from \in DOMAIN dev_buff' THEN dev_buff'[from] ELSE block[p]
    BY <1>1, <1>4 DEF Copied
  <2> HIDE DEF from
  <2>2. CASE from \in DOMAIN dev_buff'
    BY <1>5, <2>1, <2>2
  <2>3. CASE from \notin DOMAIN dev_buff'
    <3>1. block[p][1] < b /\ p \in DOMAIN block
      BY <1>3, <1>4
    <3>2. block[p][1] \in Int
      BY <3>1 DEF Base, MemoryTypes, Memory, Contents
    <3>3. QED
      BY <1>1, <1>2, <2>1, <2>3, <3>1, <3>2
  <2>4. QED
    BY <2>2, <2>3
<1>7. QED
  BY <1>2, <1>5, <1>6 DEF Past

LEMMA StrayKept ==
  ASSUME Base, Memories, PlotBatch
  PROVE  Stray'
<1> DEFINE m == Smaller(total_nonces, gws)
           b == StartNonce + task.sn + Done
<1>1. /\ gws' = gws /\ task' = task /\ gws \in Nat \ {0} /\ task.sn \in Nat
      /\ m \in Nat \ {0} /\ m <= gws /\ Done \in Nat /\ Done' = Done + m
      /\ StartNonce \in Nat /\ task.nonces \in Nat
      /\ dev_buff' = Plotted(dev_buff, b, m) /\ block' = Copied(dev_buff')
      /\ dev_buff \in Memory(gws) /\ host_buff \in Int
  BY BatchStep
<1> HIDE DEF m
<1>2. b \in Nat /\ b = StartNonce + task.sn + Done
  BY <1>1
<1>3. Past'
  BY PastKept
<1> HIDE DEF b
<1>4. Second' = Second /\ Second = <<StartNonce + task.sn + gws, 0, 0>>
  BY <1>1 DEF Second, Word
<1>5. PICK c \in Nat :
        /\ Done = c * gws
        /\ c = 1 => host_buff = Wrap(gws * PlotSize)
  BY DEF Memories, Batches, PlotBatch
<1>6. /\ c = 0 => Done = 0
      /\ c = 1 => Done = gws
      /\ c >= 2 => Done > gws
  <2>1. c = 0 => Done = 0
    BY <1>1, <1>5
  <2>2. c = 1 => Done = gws
    BY <1>1, <1>5
  <2>3. ASSUME c >= 2
        PROVE  Done > gws
    <3>1. gws * 2 <= gws * c
      BY <1>1, <1>5, <2>3, ProductMonotone
    <3>2. gws * c = Done
      BY <1>1, <1>5
    <3>3. QED
      BY <1>1, <3>1, <3>2
  <2>4. QED
    BY <2>1, <2>2, <2>3
<1>7. DOMAIN dev_buff' = DOMAIN dev_buff /\ DOMAIN block' = DOMAIN block
  BY <1>1 DEF Plotted, Copied
<1>8. ASSUME NEW p \in DOMAIN dev_buff', dev_buff'[p] = Second
      PROVE  p = 0
  <2>1. CASE Stale(dev_buff, b, m, p)
    BY <1>1, <1>7, <1>8, <2>1 DEF Stale, Memories, Stray
  <2>2. CASE Fresh(dev_buff, b, m, p)
    <3>1. PICK a \in 0 .. m - 1, h \in Hashes, w \in HashPlaces :
            Address(a, h, w) = p /\ Plotted(dev_buff, b, m)[p] = Word(b + a, h, w)
      BY <2>2 DEF Fresh
    <3>2. <<b + a, h, w>> = <<StartNonce + task.sn + gws, 0, 0>>
      BY <1>1, <1>4, <1>8, <3>1 DEF Word
    <3>3. b + a = StartNonce + task.sn + gws /\ h = 0 /\ w = 0
      BY <3>2
    <3>4. Done + a = gws
      BY <1>1, <1>2, <3>3
    <3>5. a = 0
      <4>1. CASE c = 0
        BY <1>1, <1>6, <3>4, <4>1
      <4>2. CASE c = 1
        BY <1>1, <1>6, <3>4, <4>2
      <4>3. CASE c >= 2
        BY <1>1, <1>6, <3>4, <4>3
      <4>4. QED
        BY <4>1, <4>2, <4>3
    <3>6. QED
      BY <3>1, <3>3, <3>5, AddressZero
  <2>3. QED
    BY <1>7, <2>1, <2>2, PlottedIs
<1>9. ASSUME gws * PlotSize >= IntRange, gws < task.nonces
      PROVE  block'[gws * NonceWords] # Second
  <2> DEFINE q == gws * NonceWords
             from == q - host_buff \div WordBytes
  <2>1. q \in Nat /\ gws * PlotSize = 4 * q
    BY <1>1, LayoutIs, ProductNat
  <2>2. block[q] # Second
    BY <1>9 DEF Memories, Stray
  <2>3. q \in DOMAIN block
    <3>1. task.nonces <= WorkSize /\ WorkSize \in Nat
      BY BatchStep
    <3>2. NonceWords * gws <= NonceWords * (WorkSize - 1)
      BY <1>1, <1>9, <3>1, LayoutIs, ProductMonotone
    <3>3. q \in 0 .. WorkSize * NonceWords - 1
      BY <1>1, <2>1, <3>1, <3>2, LayoutIs
    <3>4. QED
      BY <3>3 DEF Base, MemoryTypes, Memory
  <2>4. block'[q] = IF from \in DOMAIN dev_buff' THEN dev_buff'[from] ELSE block[q]
    BY <1>1, <2>3 DEF Copied
  <2>5. ASSUME from \in DOMAIN dev_buff', dev_buff'[from] = Second
        PROVE  FALSE
    <3>1. from = 0
      BY <1>8, <2>5
    <3>2. CASE c = 0
      <4>1. dev_buff'[from][1] < StartNonce + task'.sn + Done'
        BY <1>3, <2>5 DEF Past
      <4>2. dev_buff'[from][1] = StartNonce + task.sn + gws
        BY <1>4, <2>5
      <4>3. Done' <= gws /\ Done' \in Nat
        BY <1>1, <1>6, <3>2
      <4>4. QED
        BY <1>1, <4>1, <4>2, <4>3
    <3>3. CASE c = 1
      <4>1. host_buff < IntRange
        <5>1. gws * PlotSize \in Int
          BY <2>1
        <5>2. QED
          BY <1>5, <3>3, <5>1, WrapRange
      <4>2. host_buff < 4 * q
        BY <1>1, <1>9, <2>1, <4>1, LayoutIs
      <4> HIDE DEF q
      <4>3. host_buff \div WordBytes < q
        BY <1>1, <2>1, <4>2 DEF WordBytes
      <4>4. host_buff \div WordBytes \in Int
        BY <1>1 DEF WordBytes
      <4>5. QED
        BY <2>1, <3>1, <4>3, <4>4
    <3>4. CASE c >= 2
      <4>1. 0 \in DOMAIN dev_buff
        BY <1>7, <2>5, <3>1
      <4>2. 0 \in 0 .. m - 1 /\ 0 \in Hashes /\ 0 \in HashPlaces
        BY <1>1, LayoutIs DEF Hashes, HashPlaces
      <4>3. ~Stale(dev_buff, b, m, 0)
        BY <4>2, AddressZero DEF Stale
      <4>4. Fresh(dev_buff, b, m, 0)
        BY <4>1, <4>3, PlottedIs
      <4>5. PICK a \in 0 .. m - 1, h \in Hashes, w \in HashPlaces :
              Plotted(dev_buff, b, m)[0] = Word(b + a, h, w)
        BY <4>4 DEF Fresh
      <4>6. <<b + a, h, w>> = <<StartNonce + task.sn + gws, 0, 0>>
        BY <1>1, <1>4, <2>5, <3>1, <4>5 DEF Word
      <4>7. b + a = StartNonce + task.sn + gws
        BY <4>6
      <4>8. QED
        BY <1>1, <1>2, <1>6, <3>4, <4>7
    <3>5. QED
      BY <3>2, <3>3, <3>4
  <2>6. QED
    BY <2>2, <2>4, <2>5
<1>10. QED
  BY <1>1, <1>4, <1>8, <1>9 DEF Stray

LEMMA HashedKept ==
  ASSUME Base, Memories, PlotBatch
  PROVE  Hashed'
<1> DEFINE m == Smaller(total_nonces, gws)
           b == StartNonce + task.sn + Done
<1>1. /\ gws' = gws /\ task' = task /\ use' = use /\ run' = run
      /\ gws \in Nat \ {0} /\ task.sn \in Nat /\ task.nonces \in Nat
      /\ Times(NoncesVector, gws) /\ Times(NoncesVector, WorkSize)
      /\ m \in Nat \ {0} /\ m <= gws /\ Done \in Nat
      /\ Done + m <= task.nonces /\ task.nonces <= WorkSize /\ WorkSize \in Nat
      /\ Done' = Done + m /\ StartNonce \in Nat
      /\ dev_buff' = Plotted(dev_buff, b, m) /\ block' = Copied(dev_buff')
      /\ dev_buff \in Memory(gws) /\ block \in Memory(WorkSize) /\ host_buff \in Int
      /\ Done > 0 => gws < task.nonces
  BY BatchStep
<1> HIDE DEF m
<1>2. b \in Nat /\ b = StartNonce + task.sn + Done
  BY <1>1
<1> HIDE DEF b
<1>3. SUFFICES ASSUME InRange(use.runs[run], task.nonces),
                      NEW k \in 0 .. Done + m - 1, NEW h \in Hashes, NEW w \in HashPlaces
               PROVE  block'[Place(k, h, w)] = Word(StartNonce + task.sn + k, h, w)
  BY <1>1 DEF Hashed
<1>4. PICK c \in Nat :
        /\ Done = c * gws
        /\ c = 0 => host_buff = 0
        /\ gws * PlotSize < IntRange => host_buff = c * (gws * PlotSize)
  BY DEF Memories, Batches, PlotBatch
<1>5. host_buff = 4 * (Done * NonceWords)
  <2>1. CASE Done = 0
    <3>1. c = 0
      <4>1. c \in Nat \ {0} => c * gws \in Nat \ {0}
        BY <1>1, ProductPositive
      <4>2. QED
        BY <1>4, <2>1, <4>1
    <3>2. QED
      BY <1>4, <2>1, <3>1, LayoutIs
  <2>2. CASE Done > 0
    <3>1. gws * PlotSize < IntRange
      BY <1>1, <1>3, <2>2 DEF InRange, gws
    <3>2. c * (gws * PlotSize) = 4 * ((c * gws) * NonceWords)
      BY <1>1, <1>4, LayoutIs
    <3>3. QED
      BY <1>4, <3>1, <3>2
  <2>3. QED
    BY <1>1, <2>1, <2>2
<1> DEFINE base == Done * NonceWords
<1>6. base \in Nat /\ host_buff \div WordBytes = base
  <2>1. base \in Nat
    BY <1>1, LayoutIs, ProductNat
  <2>2. host_buff = 4 * base
    BY <1>5
  <2> HIDE DEF base
  <2>3. QED
    BY <2>1, <2>2 DEF WordBytes
<1>7. Times(NoncesVector, Done)
  <2>1. Times(NoncesVector, c * gws)
    BY <1>1, <1>4, LayoutIs, TimesProduct
  <2>2. QED
    BY <1>4, <2>1
<1>8. k \in 0 .. WorkSize - 1 /\ k \in Nat
  BY <1>1
<1> DEFINE p == Place(k, h, w)
           from == p - host_buff \div WordBytes
<1>9. p \in DOMAIN block /\ p \in Nat
  <2>1. p \in 0 .. WorkSize * NonceWords - 1
    BY <1>1, <1>8, PlaceBelow
  <2>2. p \in Nat
    BY <1>8, PlaceBounds
  <2>3. QED
    BY <2>1, <2>2 DEF Base, MemoryTypes, Memory
<1>10. block'[p] = IF from \in DOMAIN dev_buff' THEN dev_buff'[from] ELSE block[p]
  BY <1>1, <1>9 DEF Copied
<1>11. DOMAIN dev_buff' = DOMAIN dev_buff /\ DOMAIN dev_buff = 0 .. gws * NonceWords - 1
  BY <1>1 DEF Plotted, Memory
<1>12. CASE k < Done
  <2>1. p \in 0 .. Done * NonceWords - 1
    BY <1>1, <1>7, <1>8, <1>12, PlaceBelow
  <2>2. p < base
    BY <1>6, <2>1
  <2>3. from < 0
    <3> HIDE DEF p, base
    <3>1. QED
      BY <1>6, <1>9, <2>2
  <2>4. from \notin DOMAIN dev_buff'
    <3> HIDE DEF from
    <3>1. QED
      BY <1>11, <2>3
  <2>5. block[p] = Word(StartNonce + task.sn + k, h, w)
    BY <1>1, <1>3, <1>8, <1>12 DEF Memories, Hashed
  <2>6. QED
    BY <1>10, <2>4, <2>5
<1>13. CASE k >= Done
  <2> DEFINE a == k - Done
  <2>1. a \in 0 .. m - 1 /\ a \in Nat /\ k = Done + a
    BY <1>1, <1>8, <1>13
  <2> HIDE DEF a
  <2>2. Place(Done + a, h, w) = Done * NonceWords + Place(a, h, w)
    BY <1>1, <1>7, <2>1, PlaceShift
  <2>3. p = base + Place(a, h, w)
    BY <2>1, <2>2
  <2>4. Place(a, h, w) \in Nat
    BY <2>1, PlaceBounds
  <2>5. from = Place(a, h, w)
    <3> HIDE DEF p, base
    <3>1. QED
      BY <1>6, <1>9, <2>3, <2>4
  <2>6. Place(a, h, w) \in DOMAIN dev_buff
    <3>1. a \in 0 .. gws - 1
      BY <1>1, <2>1
    <3>2. Place(a, h, w) \in 0 .. gws * NonceWords - 1
      BY <1>1, <3>1, PlaceBelow
    <3>3. QED
      BY <1>11, <3>2
  <2>7. AllNear(m)
    <3>1. m <= task.nonces
      BY <1>1
    <3>2. \A x \in 0 .. m - 1 : x \in 0 .. task.nonces - 1
      BY <1>1, <3>1
    <3>3. QED
      BY <1>3, <3>2 DEF InRange, AllNear
  <2>8. ASSUME NEW x \in DOMAIN dev_buff, x = Place(a, h, w)
        PROVE  Plotted(dev_buff, b, m)[x] = Word(b + a, h, w)
    <3>1. m \in Nat
      BY <1>1
    <3>2. QED
      BY <1>2, <2>1, <2>7, <2>8, <3>1, PlottedRight
  <2>9. dev_buff'[from] = Word(b + a, h, w)
    BY <1>1, <2>5, <2>6, <2>8
  <2>10. b + a = StartNonce + task.sn + k
    BY <1>1, <1>2, <2>1
  <2>11. QED
    BY <1>10, <1>11, <2>5, <2>6, <2>9, <2>10
<1>14. QED
  BY <1>1, <1>8, <1>12, <1>13

LEMMA MemoriesStep == Base /\ Memories /\ [Next]_<<vars, verifyVars>> => Memories'
<1> SUFFICES ASSUME Base, Memories, [Next]_<<vars, verifyVars>>
             PROVE  Memories'
  OBVIOUS
<1>1. CASE Cut
  BY <1>1, MemoriesCut
<1>2. CASE PlotBatch
  BY <1>2, BatchesKept, PastKept, StrayKept, HashedKept DEF Memories
<1>3. CASE Restart
  BY <1>3, MemoriesRestart
<1>4. ASSUME UNCHANGED <<use, run, task>>, UNCHANGED hasherVars, pc' = "hash" => pc = "hash"
      PROVE  Memories'
  BY <1>4, MemoriesSame
<1>5. CASE Open \/ Allocate \/ Perform \/ ScoopLoop \/ GroupLoop
  <2>1. UNCHANGED <<use, run, task>> /\ UNCHANGED hasherVars /\ pc' # "hash"
    BY <1>5 DEF Open, Allocate, Perform, ScoopLoop, GroupLoop, constVars, taskVars
  <2>2. QED
    BY <1>4, <2>1
<1>6. CASE Write \/ Retry \/ Submit \/ Stop
  <2>1. UNCHANGED <<use, run, task>> /\ UNCHANGED hasherVars /\ (pc' = "hash" => pc = "hash")
    BY <1>6 DEF Write, Retry, Submit, Stop, constVars, taskVars
  <2>2. QED
    BY <1>4, <2>1
<1>7. CASE UNCHANGED writerVars
  BY <1>4, <1>7 DEF writerVars, constVars, taskVars
<1>8. QED
  BY <1>1, <1>2, <1>3, <1>5, <1>6, <1>7
     DEF Next, WriterNext, WriterStep, Damage, Verify, Check, Batch, CompareScoop, vars

LEMMA MemoriesAlways == Spec => []Memories
<1>1. VerifyInit => Base /\ Memories
  BY BaseInit, MemoriesInit
<1>2. Base /\ Memories /\ [Next]_<<vars, verifyVars>> => (Base /\ Memories)'
  BY BaseStep, MemoriesStep
<1>3. QED
  BY <1>1, <1>2, PTL DEF Spec

-----------------------------------------------------------------------------
(* What is in the file                                                     *)

\* The unit of a scoop of a nonce is what the block has for it.
WrittenAt(k, s) ==
  /\ k + s * init_nonces < size
  /\ data[k + s * init_nonces + 1] = Scoop(block, s, k - task.sn)

\* The nonces of the task of which the scoop in hand is written.
Ahead ==
  IF pc = "group" THEN Smaller(nstart, task.nonces)
  ELSE IF pc = "write" THEN nstart + Written
  ELSE 0

Wrote ==
  /\ pc = "submit" /\ ~stopped => scoop = Scoops
  /\ pc = "write" \/ (pc \in {"scoop", "group", "submit"} /\ ~stopped) =>
       /\ \A s \in 0 .. scoop - 1 : \A k \in TaskNonces : WrittenAt(k, s)
       /\ \A k \in task.sn .. task.sn + Ahead - 1 : WrittenAt(k, scoop)

\* The unit of a scoop of a nonce is right.
RightAt(k, s) ==
  /\ k + s * init_nonces < size
  /\ data[k + s * init_nonces + 1] = RightScoop(StartNonce + k, s)

\* The last scoop of a nonce is written last, and stays.
LastMeansWhole ==
  AllInRange /\ ~renamed =>
    \A k \in 0 .. init_nonces - 1 :
      RightAt(k, Scoops - 1) => \A s \in 0 .. Scoops - 1 : RightAt(k, s)

LEMMA WroteInit == VerifyInit => Wrote
BY DEF VerifyInit, Init, Wrote

\* What is written stays written while the file only grows behind it.
LEMMA WrittenStays ==
  ASSUME init_nonces' = init_nonces, block' = block, task' = task,
         size \in Nat, size' \in Nat, size <= size',
         NEW k \in Int, NEW s \in Int, k + s * init_nonces \in Nat, WrittenAt(k, s),
         data'[k + s * init_nonces + 1] = data[k + s * init_nonces + 1]
  PROVE  WrittenAt(k, s)'
<1> DEFINE x == k + s * init_nonces
<1>1. x \in Nat /\ x < size /\ data[x + 1] = Scoop(block, s, k - task.sn)
  BY DEF WrittenAt
<1>2. data'[x + 1] = Scoop(block', s, k - task'.sn)
  BY <1>1
<1>3. x < size'
  <2> HIDE DEF x
  <2>1. QED
    BY <1>1
<1>4. k + s * init_nonces' = x
  OBVIOUS
<1>5. QED
  BY <1>2, <1>3, <1>4 DEF WrittenAt

\* The nonces of the task in the scoops before the one in hand are before it in
\* the file.
LEMMA EarlierPlace ==
  ASSUME Base, Plotting, scoop \in 0 .. Scoops, NEW k \in TaskNonces, NEW s \in 0 .. scoop - 1
  PROVE  /\ k \in 0 .. init_nonces - 1
         /\ k + s * init_nonces \in Nat
         /\ k + s * init_nonces < Offset
<1>1. /\ init_nonces \in Nat \ {0} /\ task.sn \in Nat /\ task.nonces \in Nat
      /\ task.sn + task.nonces <= init_nonces
  BY BaseUse, UseIs DEF Base, TaskTypes
<1>2. k \in 0 .. init_nonces - 1
  BY <1>1 DEF TaskNonces
<1>3. s \in 0 .. Scoops - 1 /\ s + 1 <= scoop /\ s \in Int /\ scoop \in Nat
  BY LayoutIs
<1>4. init_nonces * (s + 1) <= init_nonces * scoop
  BY <1>1, <1>3, ProductMonotone
<1>5. init_nonces * (s + 1) = s * init_nonces + init_nonces /\ init_nonces * scoop = scoop * init_nonces
  BY <1>1, <1>3
<1> DEFINE x == s * init_nonces
           y == scoop * init_nonces
<1>6. x + init_nonces <= y /\ x \in Nat /\ y \in Nat
  BY <1>1, <1>3, <1>4, <1>5, ProductNat
<1>7. Offset = task.sn + y
  BY DEF Offset
<1> HIDE DEF x, y
<1>8. k + x \in Nat /\ k + x < Offset
  BY <1>1, <1>2, <1>6, <1>7
<1>9. QED
  BY <1>2, <1>8 DEF x

\* The file pointer is behind what is written of the scoop in hand.
LEMMA AheadIs ==
  ASSUME Base, pc \in {"group", "write"}
  PROVE  /\ pos = Offset + Ahead /\ Ahead \in Nat /\ Ahead <= task.nonces
         /\ Offset \in Nat /\ pos \in Nat /\ task.nonces \in Nat
         /\ task.sn \in Nat /\ scoop \in 0 .. Scoops - 1
         /\ Offset = task.sn + scoop * init_nonces
<1>1. /\ scoop \in 0 .. Scoops - 1 /\ nstart \in Nat
      /\ nonces = task.nonces - nstart /\ task.nonces \in Nat \ {0}
  BY GroupIs
<1>2. Offset \in Nat /\ task.sn \in Nat /\ Offset = task.sn + scoop * init_nonces
  BY <1>1, OffsetIs, LayoutIs DEF Base, TaskTypes, Offset
<1>3. CASE pc = "group"
  <2>1. Ahead = Smaller(nstart, task.nonces) /\ pos = Offset + Ahead
    BY <1>3 DEF Ahead, Base, Loop
  <2>2. Ahead \in Nat /\ Ahead <= task.nonces
    BY <1>1, <2>1 DEF Smaller
  <2>3. QED
    BY <1>1, <1>2, <2>1, <2>2
<1>4. CASE pc = "write"
  <2>1. /\ Ahead = nstart + Written
    BY <1>4 DEF Ahead
  <2>2. /\ Written \in Nat /\ Len(write_buffer) \in Nat \ {0}
        /\ Chunk = Written + Len(write_buffer) /\ Chunk <= task.nonces - nstart
        /\ pos = Offset + nstart + Written
    BY <1>4, WriteIs
  <2>3. Ahead \in Nat /\ Ahead <= task.nonces /\ pos = Offset + Ahead
    <3>1. Offset \in Nat /\ nstart \in Nat /\ task.nonces \in Nat
      BY <1>1, <1>2
    <3>2. QED
      BY <2>1, <2>2, <3>1
  <2>4. QED
    BY <1>1, <1>2, <2>3
<1>5. QED
  BY <1>3, <1>4

\* A write takes the first c units of the buffer to the file pointer.
Advances(c) ==
  /\ c \in 1 .. Len(write_buffer)
  /\ size' = Larger(size, pos + c)
  /\ \A x \in 1 .. Larger(size, pos + c) :
       data'[x] = IF x - pos \in 1 .. c THEN write_buffer[x - pos]
                  ELSE IF x <= size THEN data[x] ELSE Blank
  /\ Ahead' = Ahead + c

LEMMA WriteAdvances ==
  ASSUME Base, Base', Write, pc' # "failed"
  PROVE  /\ \E c \in Nat \ {0} : Advances(c)
         /\ pc' \in {"write", "group"}
<1>1. pc = "write"
  BY DEF Write
<1>2. PICK c \in Portions(write_buffer) :
        /\ WriteFile(write_buffer, c) /\ write_buffer' = Remaining(c)
        /\ pc' \in {"write", "group"}
  BY DEF Write
<1>3. task' = task /\ scoop' = scoop /\ init_nonces' = init_nonces
  BY SameUse DEF Write, constVars, taskVars
<1>4. c \in 1 .. Len(write_buffer) /\ Len(write_buffer) \in Nat /\ c \in Nat \ {0}
  BY <1>1, WriteIs DEF Portions
<1>5. /\ size' = Larger(size, pos + c)
      /\ \A x \in 1 .. Larger(size, pos + c) :
           data'[x] = IF x - pos \in 1 .. c THEN write_buffer[x - pos]
                      ELSE IF x <= size THEN data[x] ELSE Blank
      /\ pos' = pos + c
  BY <1>1, <1>2, <1>4, WriteFileIs
<1>6. /\ pos = Offset + Ahead /\ Ahead \in Nat /\ Offset \in Nat /\ pos \in Nat
      /\ task.nonces \in Nat
  BY <1>1, AheadIs
<1>7. Offset' = Offset
  BY <1>3 DEF Offset
<1>8. pos' = Offset' + Ahead' /\ Ahead' \in Int
  <2>1. nstart' \in Nat /\ nonces' \in Int /\ Len(write_buffer') \in Nat /\ task'.nonces \in Nat
    BY <1>3, <1>6, LenProperties DEF Base, LoopTypes
  <2>2. CASE pc' = "group"
    <3>1. pos' = Offset' + Smaller(nstart', task'.nonces)
      BY <2>2 DEF Base, Loop
    <3>2. Ahead' = Smaller(nstart', task'.nonces)
      BY <2>2 DEF Ahead
    <3>3. QED
      BY <2>1, <3>1, <3>2 DEF Smaller
  <2>3. CASE pc' = "write"
    <3>1. pos' = Offset' + nstart' + Written'
      BY <2>3 DEF Base, Loop
    <3>2. Ahead' = nstart' + Written'
      BY <2>3 DEF Ahead
    <3>3. Written' \in Int
      BY <2>1, SectorIs DEF Written, Chunk, Smaller
    <3>4. Offset' \in Int
      BY <1>6, <1>7
    <3>5. QED
      BY <2>1, <3>1, <3>2, <3>3, <3>4
  <2>4. QED
    BY <1>2, <2>2, <2>3
<1>9. Ahead' = Ahead + c
  <2>1. pos' = pos + c
    BY <1>5
  <2>2. Offset + Ahead' = (Offset + Ahead) + c
    BY <1>6, <1>7, <1>8, <2>1
  <2> DEFINE o == Offset
             a == Ahead
             b == Ahead'
  <2>3. o \in Int /\ a \in Int
    BY <1>6
  <2>4. c \in Int
    BY <1>4
  <2>5. b \in Int
    BY <1>8
  <2>6. o + b = (o + a) + c
    BY <2>2
  <2> HIDE DEF o, a, b
  <2>7. b = a + c
    BY <2>3, <2>4, <2>5, <2>6
  <2>8. QED
    BY <2>7 DEF a, b
<1>10. QED
  BY <1>2, <1>4, <1>5, <1>9 DEF Advances

LEMMA WroteWrite ==
  ASSUME Base, Base', Wrote, Write
  PROVE  Wrote'
<1>1. /\ pc = "write" /\ pc' \in {"write", "group", "failed"} /\ scoop' = scoop
      /\ task' = task /\ block' = block /\ use' = use /\ run' = run
      /\ init_nonces' = init_nonces
  BY SameUse DEF Write, constVars, taskVars, hasherVars
<1>2. CASE pc' = "failed"
  BY <1>2 DEF Wrote
<1>3. ASSUME NEW c \in Nat \ {0}, Advances(c), pc' \in {"write", "group"}
      PROVE  Wrote'
  <2>1. c \in 1 .. Len(write_buffer)
    BY <1>3 DEF Advances
  <2>2. /\ size' = Larger(size, pos + c)
        /\ \A x \in 1 .. Larger(size, pos + c) :
             data'[x] = IF x - pos \in 1 .. c THEN write_buffer[x - pos]
                        ELSE IF x <= size THEN data[x] ELSE Blank
    BY <1>3 DEF Advances
  <2>3. /\ pos = Offset + Ahead /\ Ahead \in Nat /\ Ahead <= task.nonces
        /\ Offset \in Nat /\ pos \in Nat /\ task.nonces \in Nat
        /\ task.sn \in Nat /\ scoop \in 0 .. Scoops - 1
        /\ Offset = task.sn + scoop * init_nonces
    BY <1>1, AheadIs
  <2>4. Offset' = Offset
    BY <1>1 DEF Offset
  <2>6. Ahead' = Ahead + c /\ c \in Nat
    BY <1>3 DEF Advances
  <2>7. size \in Nat /\ size' \in Nat /\ size <= size'
    <3>1. size \in Nat
      BY LenProperties DEF Base, FileTypes, size
    <3>2. QED
      BY <2>2, <2>3, <2>6, <3>1 DEF Larger
  <2>8. /\ \A s \in 0 .. scoop - 1 : \A k \in TaskNonces : WrittenAt(k, s)
        /\ \A k \in task.sn .. task.sn + Ahead - 1 : WrittenAt(k, scoop)
    BY <1>1 DEF Wrote
  <2>9. ASSUME NEW x \in Nat, x < pos, x < size
        PROVE  data'[x + 1] = data[x + 1]
    <3> DEFINE z == x + 1
    <3>1. z \in 1 .. Larger(size, pos + c) /\ z - pos \notin 1 .. c /\ z <= size
      BY <2>3, <2>6, <2>7, <2>9 DEF Larger
    <3> HIDE DEF z
    <3>2. data'[z] = data[z]
      BY <2>2, <3>1
    <3>3. QED
      BY <3>2 DEF z
  <2>10. ASSUME NEW s \in 0 .. scoop - 1, NEW k \in TaskNonces
         PROVE  WrittenAt(k, s)'
    <3>1. /\ k \in 0 .. init_nonces - 1
          /\ k + s * init_nonces \in Nat
          /\ k + s * init_nonces < Offset
      BY <1>1, <2>3, LayoutIs, EarlierPlace DEF Plotting
    <3>2. WrittenAt(k, s)
      BY <2>8
    <3> DEFINE x == k + s * init_nonces
    <3>3. x \in Nat /\ x < Offset /\ x < size
      BY <3>1, <3>2 DEF WrittenAt
    <3>4. data'[x + 1] = data[x + 1]
      <4> HIDE DEF x
      <4>1. QED
        BY <2>3, <2>9, <3>3
    <3>5. k \in Int /\ s \in Int
      BY <2>3, <3>1
    <3>6. QED
      BY <1>1, <2>7, <3>1, <3>2, <3>4, <3>5, WrittenStays
  <2>11. ASSUME NEW k \in task.sn .. task.sn + Ahead' - 1
         PROVE  WrittenAt(k, scoop)'
    <3> DEFINE y == scoop * init_nonces
               x == k + y
    <3>1. Offset = task.sn + y /\ y \in Nat
      <4>1. init_nonces \in Nat /\ scoop \in Nat
        BY <2>3, BaseUse, UseIs
      <4>2. QED
        BY <2>3, <4>1, ProductNat
    <3>2. k \in Int /\ k >= task.sn /\ k < task.sn + Ahead + c
      BY <2>3, <2>4, <2>6
    <3>3. x \in Nat /\ x = Offset + (k - task.sn)
      <4> HIDE DEF y
      <4>1. QED
        BY <2>3, <3>1, <3>2
    <3>4. CASE k < task.sn + Ahead
      <4>1. k \in task.sn .. task.sn + Ahead - 1
        BY <2>3, <3>2, <3>4
      <4>2. WrittenAt(k, scoop)
        BY <2>8, <4>1
      <4>3. x < size
        BY <4>2 DEF WrittenAt
      <4>4. x < pos
        <5> HIDE DEF x
        <5>1. QED
          BY <2>3, <3>2, <3>3, <3>4
      <4>5. data'[x + 1] = data[x + 1]
        <5> HIDE DEF x
        <5>1. QED
          BY <2>9, <3>3, <4>3, <4>4
      <4>6. scoop \in Int
        BY <2>3
      <4>7. QED
        BY <1>1, <2>7, <3>2, <3>3, <4>2, <4>5, <4>6, WrittenStays
    <3>5. CASE k >= task.sn + Ahead
      <4> DEFINE j == k - task.sn - Ahead + 1
      <4>1. j \in 1 .. c /\ x = pos + (j - 1)
        <5> HIDE DEF x
        <5>1. QED
          BY <2>3, <2>6, <3>2, <3>3, <3>5
      <4>2. Ahead + (j - 1) = k - task.sn
        BY <2>3, <3>2
      <4> HIDE DEF j, x
      <4>3. pos \in Int /\ c \in Int /\ size \in Int
        BY <2>3, <2>6, <2>7
      <4>4. data'[x + 1] = write_buffer[j]
        <5> DEFINE z == x + 1
        <5>0. z = pos + j /\ j \in 1 .. c /\ z >= 1
          BY <2>3, <4>1, <4>3
        <5> HIDE DEF z
        <5>1. z \in 1 .. Larger(size, pos + c) /\ z - pos = j /\ j \in 1 .. c
          BY <4>3, <5>0 DEF Larger
        <5>2. data'[z] = write_buffer[j]
          BY <2>2, <5>1
        <5>3. QED
          BY <5>2 DEF z
      <4>5. write_buffer[j] = Scoop(block, scoop, nstart + Written + (j - 1))
        <5>1. j \in 1 .. Len(write_buffer)
          <6>1. Len(write_buffer) \in Nat
            BY <1>1, WriteIs
          <6>2. QED
            BY <2>1, <4>1, <6>1
        <5>2. QED
          BY <1>1, <5>1 DEF Base, Loop
      <4>6. Ahead = nstart + Written
        BY <1>1 DEF Ahead
      <4>7. data'[x + 1] = Scoop(block', scoop, k - task'.sn)
        BY <1>1, <4>2, <4>4, <4>5, <4>6
      <4>8. x < size'
        BY <2>2, <2>3, <2>6, <2>7, <4>1 DEF Larger
      <4>9. QED
        BY <1>1, <4>7, <4>8 DEF WrittenAt, x
    <3>6. QED
      BY <2>3, <3>2, <3>4, <3>5
  <2>12. TaskNonces' = TaskNonces
    BY <1>1 DEF TaskNonces
  <2>13. pc' # "submit"
    BY <1>3
  <2>14. /\ \A s \in 0 .. scoop' - 1 : \A k \in TaskNonces' : WrittenAt(k, s)'
         /\ \A k \in task'.sn .. task'.sn + Ahead' - 1 : WrittenAt(k, scoop)'
    BY <1>1, <2>10, <2>11, <2>12
  <2>15. QED
    BY <2>13, <2>14 DEF Wrote
<1>4. QED
  BY <1>1, <1>2, <1>3, WriteAdvances

\* What the places of the scoops have and the block are the same.
SameWords == UNCHANGED <<use, run, task, block, data, stopped>>

LEMMA WroteEnded ==
  ASSUME pc' \notin {"write", "scoop", "group", "submit"}
  PROVE  Wrote'
BY DEF Wrote

LEMMA WroteScoopLoop ==
  ASSUME Base, Base', Wrote, ScoopLoop
  PROVE  Wrote'
<1>1. /\ pc = "scoop" /\ SameWords /\ scoop' = scoop /\ UNCHANGED <<constVars>>
      /\ pc' \in {"submit", "group", "failed"}
      /\ pc' = "submit" => stopped \/ scoop = Scoops
      /\ pc' = "group" => nstart' = 0 /\ ~stopped
  BY DEF ScoopLoop, SameWords, constVars, taskVars, hasherVars, seek, fails, fileVars, Fault
<1>2. init_nonces' = init_nonces
  BY <1>1, SameUse DEF SameWords
<1>3. TaskNonces' = TaskNonces /\ \A k, s : WrittenAt(k, s)' <=> WrittenAt(k, s)
  BY <1>1, <1>2 DEF SameWords, WrittenAt, TaskNonces, size
<1>4. task.sn \in Int /\ task'.sn = task.sn /\ task.nonces \in Nat
  BY <1>1, BaseUse, UseIs DEF Base, TaskTypes, SameWords
<1>5. Ahead' = 0 \/ pc' = "failed"
  BY <1>1, <1>4 DEF Ahead, Smaller, SameWords
<1>6. \A k \in task'.sn .. task'.sn + Ahead' - 1 : pc' = "failed"
  BY <1>4, <1>5
<1>7. ~stopped /\ pc' # "failed" => \A s \in 0 .. scoop' - 1 : \A k \in TaskNonces' : WrittenAt(k, s)'
  BY <1>1, <1>3 DEF Wrote
<1>8. stopped' = stopped
  BY <1>1 DEF SameWords
<1>9. QED
  BY <1>1, <1>6, <1>7, <1>8 DEF Wrote

LEMMA WroteGroupLoop ==
  ASSUME Base, Base', Wrote, GroupLoop
  PROVE  Wrote'
<1>1. /\ pc = "group" /\ SameWords /\ nstart' = nstart /\ nonces' = nonces
      /\ pc' \in {"scoop", "write"}
      /\ pc' = "scoop" => (stopped \/ nonces <= 0) /\ scoop' = scoop + 1
      /\ pc' = "write" => /\ ~stopped /\ nonces > 0 /\ scoop' = scoop
                          /\ write_buffer' = transposition(block, scoop, nstart, Smaller(nonces, ScoopsPerWrite))
  <2>1. /\ pc = "group" /\ SameWords /\ nstart' = nstart /\ nonces' = nonces
    BY DEF GroupLoop, SameWords, constVars, taskVars, hasherVars, fileVars
  <2>2. nonces \in Int
    BY DEF Base, LoopTypes
  <2>3. CASE stopped \/ nonces <= 0
    BY <2>1, <2>2, <2>3 DEF GroupLoop
  <2>4. CASE ~(stopped \/ nonces <= 0)
    BY <2>1, <2>2, <2>4 DEF GroupLoop
  <2>5. QED
    BY <2>3, <2>4
<1>2. init_nonces' = init_nonces
  BY <1>1, SameUse DEF SameWords
<1>3. TaskNonces' = TaskNonces /\ (\A k, s : WrittenAt(k, s)' <=> WrittenAt(k, s)) /\ task' = task
  BY <1>1, <1>2 DEF SameWords, WrittenAt, TaskNonces, size
<1>4. /\ nstart \in Nat /\ nonces = task.nonces - nstart /\ nonces \in Int /\ scoop \in 0 .. Scoops - 1
      /\ nonces > 0 => Chunk \in 1 .. ScoopsPerWrite
  BY <1>1, GroupIs
<1>5. task.sn \in Int /\ task.nonces \in Nat /\ scoop \in Nat
  BY <1>4, LayoutIs, BaseUse, UseIs DEF Base, TaskTypes
<1>6. CASE stopped
  BY <1>1, <1>6 DEF Wrote, SameWords
<1>7. ASSUME ~stopped
      PROVE  /\ \A s \in 0 .. scoop - 1 : \A k \in TaskNonces : WrittenAt(k, s)
             /\ \A k \in task.sn .. task.sn + Ahead - 1 : WrittenAt(k, scoop)
  BY <1>1, <1>7 DEF Wrote
<1>8. CASE ~stopped /\ pc' = "scoop"
  <2>1. Ahead = task.nonces
    BY <1>1, <1>4, <1>5, <1>8 DEF Ahead, Smaller
  <2>2. \A k \in TaskNonces : WrittenAt(k, scoop)
    BY <1>7, <1>8, <2>1 DEF TaskNonces
  <2>3. \A s \in 0 .. scoop' - 1 : s \in 0 .. scoop - 1 \/ s = scoop
    BY <1>1, <1>5, <1>8
  <2>4. \A s \in 0 .. scoop' - 1 : \A k \in TaskNonces' : WrittenAt(k, s)'
    BY <1>3, <1>7, <1>8, <2>2, <2>3
  <2>5. Ahead' = 0
    BY <1>8 DEF Ahead
  <2>6. \A k \in task'.sn .. task'.sn + Ahead' - 1 : WrittenAt(k, scoop)'
    BY <1>3, <1>5, <2>5
  <2>7. QED
    BY <1>8, <2>4, <2>6 DEF Wrote
<1>9. CASE ~stopped /\ pc' = "write"
  <2>1. Ahead = nstart
    BY <1>1, <1>4, <1>5, <1>9 DEF Ahead, Smaller
  <2>2. Len(write_buffer') = Chunk /\ Chunk \in Nat
    <3>1. block \in Memory(WorkSize) /\ WorkSize \in Nat
      BY BaseUse, UseIs DEF Base, MemoryTypes
    <3>2. Chunk \in Nat
      BY <1>1, <1>4, <1>9, SectorIs
    <3>3. QED
      BY <1>1, <1>4, <1>9, <3>1, <3>2, TranspositionIs DEF Chunk
  <2>3. Chunk' = Chunk
    BY <1>1 DEF Chunk
  <2>4. Ahead' = Ahead
    BY <1>1, <1>4, <1>9, <2>1, <2>2, <2>3 DEF Ahead, Written
  <2>5. QED
    BY <1>1, <1>3, <1>7, <1>9, <2>4 DEF Wrote
<1>10. QED
  BY <1>1, <1>6, <1>8, <1>9

LEMMA WroteStep == Base /\ Base' /\ Wrote /\ [Next]_<<vars, verifyVars>> => Wrote'
<1> SUFFICES ASSUME Base, Base', Wrote, [Next]_<<vars, verifyVars>>
             PROVE  Wrote'
  OBVIOUS
<1>1. CASE Cut \/ PlotBatch \/ Open \/ Allocate \/ Retry \/ Restart
  <2>1. pc' \notin {"write", "scoop", "group", "submit"}
    BY <1>1 DEF Cut, PlotBatch, Open, Allocate, Retry, Restart
  <2>2. QED
    BY <2>1, WroteEnded
<1>2. CASE Submit
  <2>1. pc' \notin {"write", "scoop", "group", "submit"}
    BY <1>2 DEF Submit
  <2>2. QED
    BY <2>1, WroteEnded
<1>3. CASE Damage \/ Verify
  <2>1. pc' = pc /\ pc = "ended"
    BY <1>3 DEF Damage, Verify, Check, Batch, CompareScoop, writerVars, Left, Base, VerifyTypes
  <2>2. QED
    BY <2>1, WroteEnded
<1>4. CASE Perform
  <2>1. pc' = "scoop" /\ scoop' = 0 /\ task' = task
    BY <1>4 DEF Perform, taskVars
  <2>2. task.sn \in Int
    BY BaseUse, UseIs DEF Base, TaskTypes
  <2>3. Ahead' = 0
    BY <2>1 DEF Ahead
  <2>4. 0 .. scoop' - 1 = {} /\ task'.sn .. task'.sn + Ahead' - 1 = {}
    BY <2>1, <2>2, <2>3
  <2>5. QED
    BY <2>1, <2>4 DEF Wrote
<1>5. CASE ScoopLoop
  BY <1>5, WroteScoopLoop
<1>6. CASE GroupLoop
  BY <1>6, WroteGroupLoop
<1>7. CASE Write
  BY <1>7, WroteWrite
<1>8. ASSUME UNCHANGED <<use, run, task, block, data, pc, scoop, nstart, nonces, write_buffer>>,
             ~stopped' => ~stopped
      PROVE  Wrote'
  <2>1. init_nonces' = init_nonces
    BY <1>8, SameUse
  <2>2. /\ TaskNonces' = TaskNonces /\ (\A k, s : WrittenAt(k, s)' <=> WrittenAt(k, s))
        /\ task' = task /\ pc' = pc /\ scoop' = scoop
    BY <1>8, <2>1 DEF WrittenAt, TaskNonces, size
  <2>3. Ahead' = Ahead
    BY <1>8 DEF Ahead, Written, Chunk
  <2>4. QED
    BY <1>8, <2>2, <2>3 DEF Wrote
<1>9. CASE Stop
  BY <1>8, <1>9 DEF Stop, constVars, taskVars, hasherVars, loopVars, fileVars
<1>10. CASE UNCHANGED <<vars, verifyVars>>
  BY <1>8, <1>10 DEF vars, writerVars, constVars, taskVars, hasherVars, loopVars, fileVars
<1>11. QED
  BY <1>1, <1>2, <1>3, <1>4, <1>5, <1>6, <1>7, <1>9, <1>10 DEF Next, WriterNext, WriterStep

LEMMA WroteAlways == Spec => []Wrote
<1>1. VerifyInit => Base /\ Wrote
  BY BaseInit, WroteInit
<1>2. Base /\ Wrote /\ [Next]_<<vars, verifyVars>> => (Base /\ Wrote)'
  BY BaseStep, WroteStep
<1>3. QED
  BY <1>1, <1>2, PTL DEF Spec

-----------------------------------------------------------------------------
(* The scoops of the CPU                                                   *)

LEMMA MirrorIs ==
  ASSUME NEW s \in 0 .. Scoops - 1
  PROVE  s * 2 \in Hashes /\ Mirror(s) \in Hashes
BY LayoutIs DEF Mirror, Hashes

\* The exchange of every second hash is the mirror of PoC2.
LEMMA ExchangedIs ==
  ASSUME NEW s \in 0 .. Scoops - 1
  PROVE  Exchanged(s * 2) = s * 2 /\ Exchanged(s * 2 + 1) = Mirror(s)
<1> DEFINE swapped == {x \in 1 .. NumHashes \div 2 - 1 : x % 2 = 1}
<1>1. /\ Scoops \in Nat \ {0} /\ NumHashes = 2 * Scoops /\ Scoops % 2 = 0 /\ NumHashes \div 2 = Scoops
  BY LayoutIs DEF Scoops
<1>2. s * 2 \notin swapped /\ NumHashes - s * 2 \notin swapped
  BY <1>1
<1>3. s * 2 + 1 \in swapped \/ NumHashes - (s * 2 + 1) \in swapped
  <2>1. s * 2 + 1 # Scoops
    BY <1>1
  <2>2. CASE s * 2 + 1 < Scoops
    BY <1>1, <2>2
  <2>3. CASE s * 2 + 1 > Scoops
    BY <1>1, <2>3
  <2>4. QED
    BY <1>1, <2>1, <2>2, <2>3
<1>4. QED
  BY <1>2, <1>3 DEF Exchanged, Mirror

\* The words of a unit: those of its first hash, then those of its second.
UnitWord(m, s, j) ==
  IF j <= HashWords THEN Word(m, s * 2, j - 1)
  ELSE Word(m, Mirror(s), j - 1 - HashWords)

LEMMA RightScoopIs ==
  ASSUME NEW m, NEW s \in 0 .. Scoops - 1
  PROVE  RightScoop(m, s) = [j \in 1 .. 2 * HashWords |-> UnitWord(m, s, j)]
<1>1. HashWords \in Nat \ {0} /\ s \in Nat
  BY LayoutIs
<1>2. ASSUME NEW j \in 1 .. 2 * HashWords
      PROVE  LET at == s * 2 * HashWords + j - 1
             IN Word(m, Exchanged(at \div HashWords), at % HashWords) = UnitWord(m, s, j)
  <2> DEFINE at == s * 2 * HashWords + j - 1
  <2>1. CASE j <= HashWords
    <3>1. at = HashWords * (s * 2) + (j - 1)
      BY <1>1
    <3>2. s * 2 \in Int /\ j - 1 \in 0 .. HashWords - 1
      BY <1>1, <2>1
    <3>3. at \div HashWords = s * 2 /\ at % HashWords = j - 1
      BY <1>1, <3>1, <3>2, DivModOf
    <3>4. QED
      BY <2>1, <3>3, ExchangedIs DEF UnitWord
  <2>2. CASE j > HashWords
    <3>1. at = HashWords * (s * 2 + 1) + (j - 1 - HashWords)
      BY <1>1
    <3>2. s * 2 + 1 \in Int /\ j - 1 - HashWords \in 0 .. HashWords - 1
      BY <1>1, <2>2
    <3>3. at \div HashWords = s * 2 + 1 /\ at % HashWords = j - 1 - HashWords
      <4> DEFINE q == s * 2 + 1
                 r == j - 1 - HashWords
      <4>1. at = HashWords * q + r /\ q \in Int /\ r \in 0 .. HashWords - 1
        BY <3>1, <3>2
      <4> HIDE DEF at, q, r
      <4>2. at \div HashWords = q /\ at % HashWords = r
        BY <1>1, <4>1, DivModOf
      <4>3. QED
        BY <4>2 DEF q, r
    <3>4. ~(j <= HashWords)
      BY <1>1, <2>2
    <3>5. QED
      BY <3>3, <3>4, ExchangedIs DEF UnitWord
  <2>3. QED
    BY <1>1, <2>1, <2>2
<1>3. QED
  BY <1>2 DEF RightScoop

LEMMA RightScoopType ==
  ASSUME NEW m \in Int, NEW s \in 0 .. Scoops - 1
  PROVE  RightScoop(m, s) \in Units /\ RightScoop(m, s) # Blank
<1>1. HashWords \in Nat \ {0} /\ s * 2 \in Nat /\ Mirror(s) \in Nat
  BY MirrorIs, LayoutIs DEF Hashes
<1>2. ASSUME NEW j \in 1 .. 2 * HashWords
      PROVE  UnitWord(m, s, j) \in Contents
  <2>1. CASE j <= HashWords
    <3>1. j - 1 \in Nat
      BY <1>1
    <3>2. QED
      BY <1>1, <2>1, <3>1, WordIs DEF UnitWord
  <2>2. CASE ~(j <= HashWords)
    <3>1. j - 1 - HashWords \in Nat
      BY <1>1, <2>2
    <3>2. QED
      BY <1>1, <2>2, <3>1, WordIs DEF UnitWord
  <2>3. QED
    BY <2>1, <2>2
<1>3. RightScoop(m, s) \in Units
  BY <1>2, RightScoopIs DEF Units
<1>4. QED
  BY <1>3, BlankAssumption

\* What memory has at the addresses of nonce k.
NonceAt(mem, k, m) ==
  \A h \in Hashes, w \in HashPlaces : At(mem, Address(k, h, w)) = Word(m, h, w)

\* A nonce whose words are at its addresses yields right units.
LEMMA ScoopRight ==
  ASSUME NEW mem, NEW k, NEW m, NEW s \in 0 .. Scoops - 1, NonceAt(mem, k, m)
  PROVE  Scoop(mem, s, k) = RightScoop(m, s)
<1>1. HashWords \in Nat \ {0} /\ s * 2 \in Hashes /\ Mirror(s) \in Hashes
  BY MirrorIs, LayoutIs
<1>2. ASSUME NEW j \in 1 .. 2 * HashWords
      PROVE  UnitWord(m, s, j) = IF j <= HashWords
                                 THEN At(mem, Address(k, s * 2, j - 1))
                                 ELSE At(mem, Address(k, Mirror(s), j - 1 - HashWords))
  <2>1. CASE j <= HashWords
    <3>1. j - 1 \in HashPlaces
      BY <1>1, <2>1 DEF HashPlaces
    <3>2. QED
      BY <1>1, <2>1, <3>1 DEF UnitWord, NonceAt
  <2>2. CASE ~(j <= HashWords)
    <3>1. j - 1 - HashWords \in HashPlaces
      BY <1>1, <2>2 DEF HashPlaces
    <3>2. QED
      BY <1>1, <2>2, <3>1 DEF UnitWord, NonceAt
  <2>3. QED
    BY <2>1, <2>2
<1>3. QED
  BY <1>2, RightScoopIs DEF Scoop

\* The first word of a right unit.
LEMMA FirstWord ==
  ASSUME NEW mem, NEW k, NEW m, Scoop(mem, 0, k) = RightScoop(m, 0)
  PROVE  At(mem, Address(k, 0, 0)) = Word(m, 0, 0)
<1>1. HashWords \in Nat \ {0} /\ 0 \in 0 .. Scoops - 1 /\ 1 \in 1 .. 2 * HashWords /\ 1 <= HashWords
  BY LayoutIs
<1>2. Scoop(mem, 0, k)[1] = At(mem, Address(k, 0 * 2, 1 - 1))
  BY <1>1 DEF Scoop
<1>3. RightScoop(m, 0)[1] = Word(m, 0 * 2, 1 - 1)
  <2>1. RightScoop(m, 0)[1] = UnitWord(m, 0, 1)
    BY <1>1, RightScoopIs
  <2>2. QED
    BY <1>1, <2>1 DEF UnitWord
<1>4. 0 * 2 = 0 /\ 1 - 1 = 0
  OBVIOUS
<1>5. QED
  BY <1>2, <1>3, <1>4

-----------------------------------------------------------------------------
(* What the writer is done with                                            *)

\* While no int overflows, the block has every nonce of the task at its
\* addresses.
LEMMA BlockRight ==
  ASSUME Base, Memories, total_nonces = 0, InRange(use.runs[run], task.nonces),
         NEW k \in 0 .. task.nonces - 1
  PROVE  NonceAt(block, k, StartNonce + task.sn + k)
<1>1. /\ task.nonces \in Nat /\ task.nonces <= WorkSize /\ WorkSize \in Nat
      /\ Times(NoncesVector, WorkSize) /\ block \in Memory(WorkSize)
  BY BaseUse, UseIs DEF Base, TaskTypes, MemoryTypes
<1>2. k \in 0 .. WorkSize - 1 /\ k \in 0 .. Done - 1 /\ k \in Nat
  BY <1>1 DEF Done
<1>3. AlignDown(k) * NonceWords < IntRange
  BY DEF InRange
<1>4. ASSUME NEW h \in Hashes, NEW w \in HashPlaces
      PROVE  At(block, Address(k, h, w)) = Word(StartNonce + task.sn + k, h, w)
  <2>1. Address(k, h, w) = Place(k, h, w)
    BY <1>2, <1>3, AddressIs
  <2>2. Place(k, h, w) \in DOMAIN block
    BY <1>1, <1>2, PlaceBelow DEF Memory
  <2>3. block[Place(k, h, w)] = Word(StartNonce + task.sn + k, h, w)
    BY <1>2 DEF Memories, Hashed
  <2>4. QED
    BY <2>1, <2>2, <2>3 DEF At
<1>5. QED
  BY <1>4 DEF NonceAt

\* What is written is right.
LEMMA WrittenMeansRight ==
  ASSUME Base, Memories, total_nonces = 0, InRange(use.runs[run], task.nonces),
         NEW k \in TaskNonces, NEW s \in 0 .. Scoops - 1
  PROVE  Scoop(block, s, k - task.sn) = RightScoop(StartNonce + k, s)
<1>1. task.sn \in Nat /\ task.nonces \in Nat /\ StartNonce \in Nat
  BY BaseUse, UseIs, SectorIs DEF Base, TaskTypes
<1>2. k - task.sn \in 0 .. task.nonces - 1 /\ StartNonce + task.sn + (k - task.sn) = StartNonce + k
  BY <1>1 DEF TaskNonces
<1>3. NonceAt(block, k - task.sn, StartNonce + k)
  BY <1>2, BlockRight
<1>4. QED
  BY <1>3, ScoopRight

\* The first word of every nonce of a task that is written right is at its
\* address.
LEMMA RightMeansAt ==
  ASSUME Base, Wrote, pc = "submit", ~stopped, TaskNonces \subseteq Whole,
         NEW k \in 0 .. task.nonces - 1
  PROVE  At(block, Address(k, 0, 0)) = Word(StartNonce + task.sn + k, 0, 0)
<1>1. task.sn \in Nat /\ task.nonces \in Nat /\ StartNonce \in Nat
  BY BaseUse, UseIs, SectorIs DEF Base, TaskTypes
<1> DEFINE g == task.sn + k
<1>2. g \in TaskNonces /\ g - task.sn = k /\ StartNonce + g = StartNonce + task.sn + k
  BY <1>1 DEF TaskNonces
<1> HIDE DEF g
<1>3. 0 \in 0 .. Scoops - 1 /\ scoop = Scoops
  BY LayoutIs DEF Wrote
<1>4. WrittenAt(g, 0)
  BY <1>2, <1>3 DEF Wrote
<1>5. data[g + 0 * init_nonces + 1] = RightScoop(StartNonce + g, 0)
  BY <1>2, <1>3 DEF Whole
<1>6. Scoop(block, 0, k) = RightScoop(StartNonce + task.sn + k, 0)
  BY <1>2, <1>4, <1>5 DEF WrittenAt
<1>7. QED
  BY <1>6, FirstWord

\* The first nonce whose address is no int has none in memory.
LEMMA FirstFar ==
  ASSUME NEW k \in Nat, AlignDown(k) * NonceWords >= IntRange
  PROVE  \E l \in 0 .. k : Address(l, 0, 0) < 0
<1>1. PICK e \in Int : IntRange = (NoncesVector * NonceWords) * e
  <2>1. NoncesVector * NonceWords \in Nat \ {0} /\ IntRange \in Int
    BY LayoutIs, ProductPositive
  <2>2. IntRange % (NoncesVector * NonceWords) = 0
    BY LayoutAssumption DEF NonceWords
  <2>3. QED
    BY <2>1, <2>2, TimesIs DEF Times
<1> DEFINE l == NoncesVector * e
<1>2. l \in Int /\ NonceWords * l = IntRange
  BY <1>1, LayoutIs
<1>3. l > 0
  <2>1. CASE l <= 0
    <3>1. NonceWords * l <= NonceWords * 0
      BY <1>2, <2>1, LayoutIs, ProductMonotone
    <3>2. QED
      BY <1>2, <3>1, LayoutIs
  <2>2. QED
    BY <1>2, <2>1
<1>4. l <= k
  <2>1. AlignDown(k) \in 0 .. k
    BY AlignDownIs
  <2>2. CASE AlignDown(k) < l
    <3>1. AlignDown(k) + 1 <= l /\ AlignDown(k) + 1 \in Int
      BY <1>2, <2>1, <2>2
    <3>2. NonceWords * (AlignDown(k) + 1) <= NonceWords * l
      BY <1>2, <3>1, LayoutIs, ProductMonotone
    <3>3. NonceWords * (AlignDown(k) + 1) = AlignDown(k) * NonceWords + NonceWords
      BY <2>1, LayoutIs
    <3> DEFINE z == AlignDown(k) * NonceWords
    <3>4. z \in Int /\ z >= IntRange
      BY <2>1, LayoutIs
    <3>5. z + NonceWords <= IntRange
      BY <1>2, <3>2, <3>3
    <3> HIDE DEF z
    <3>6. QED
      BY <3>4, <3>5, LayoutIs
  <2>3. QED
    BY <1>2, <2>1, <2>2
<1>5. Place(l, 0, 0) = IntRange
  <2>1. l = NoncesVector * e + 0 /\ 0 \in 0 .. NoncesVector - 1
    BY <1>2, LayoutIs
  <2>2. l \in Nat
    BY <1>2, <1>3
  <2> HIDE DEF l
  <2>3. l % NoncesVector = 0 /\ AlignDown(l) = l
    BY <2>1, <2>2, PlaceIs DEF l
  <2>4. Place(l, 0, 0) = l * NonceWords + 0 * NoncesVector * HashWords + 0 * NoncesVector + 0
    BY <2>3 DEF Place
  <2>5. QED
    BY <1>2, <2>4, LayoutIs
<1>6. Wrap(IntRange) = -IntRange
  <2>1. (IntRange + IntRange) % (2 * IntRange) = 0
    <3>1. 2 * IntRange \in Nat \ {0} /\ IntRange + IntRange = (2 * IntRange) * 1 + 0
      BY LayoutIs
    <3> DEFINE d == 2 * IntRange
    <3>2. d \in Nat \ {0} /\ IntRange + IntRange = d * 1 + 0 /\ 0 \in 0 .. d - 1 /\ 1 \in Int
      BY <3>1
    <3> HIDE DEF d
    <3>3. (d * 1 + 0) % d = 0
      BY <3>2, DivModOf
    <3>4. QED
      BY <3>2, <3>3 DEF d
  <2>2. QED
    BY <2>1, LayoutIs DEF Wrap
<1>7. l \in 0 .. k /\ Address(l, 0, 0) < 0
  BY <1>2, <1>3, <1>4, <1>5, <1>6, LayoutIs DEF Address
<1>8. QED
  BY <1>7

\* The writer is done with a task.
LEMMA RightIfInRange ==
  ASSUME Base, Memories, Wrote, pc = "submit", ~stopped
  PROVE  TaskNonces \subseteq Whole <=> InRange(use.runs[run], task.nonces)
<1>1. /\ task.sn \in Nat /\ task.nonces \in Nat /\ StartNonce \in Nat /\ init_nonces \in Nat \ {0}
      /\ task.sn + task.nonces <= init_nonces
      /\ task.nonces <= WorkSize /\ WorkSize \in Nat /\ block \in Memory(WorkSize)
      /\ gws \in Nat \ {0} /\ Times(NoncesVector, gws) /\ Times(NoncesVector, WorkSize)
  BY BaseUse, UseIs, SectorIs DEF Base, TaskTypes, MemoryTypes
<1>2. total_nonces = 0
  BY DEF Base, Phase, TaskTypes
<1>3. ASSUME InRange(use.runs[run], task.nonces), NEW k \in TaskNonces
      PROVE  k \in Whole
  <2>1. k \in 0 .. init_nonces - 1
    BY <1>1 DEF TaskNonces
  <2>2. ASSUME NEW s \in 0 .. Scoops - 1
        PROVE  /\ k + s * init_nonces < size
               /\ data[k + s * init_nonces + 1] = RightScoop(StartNonce + k, s)
    <3>1. WrittenAt(k, s)
      BY DEF Wrote
    <3>2. QED
      BY <1>2, <1>3, <3>1, WrittenMeansRight DEF WrittenAt
  <2>3. QED
    BY <2>1, <2>2 DEF Whole
<1>4. ASSUME TaskNonces \subseteq Whole
      PROVE  InRange(use.runs[run], task.nonces)
  <2>1. ASSUME NEW k \in 0 .. task.nonces - 1, AlignDown(k) * NonceWords >= IntRange
        PROVE  FALSE
    <3>1. PICK l \in 0 .. k : Address(l, 0, 0) < 0
      BY <2>1, FirstFar
    <3>2. l \in 0 .. task.nonces - 1 /\ l \in Nat
      BY <1>1
    <3>3. At(block, Address(l, 0, 0)) = Word(StartNonce + task.sn + l, 0, 0)
      BY <1>4, <3>2, RightMeansAt
    <3>4. Address(l, 0, 0) \notin DOMAIN block
      BY <1>1, <3>1 DEF Memory
    <3>5. At(block, Address(l, 0, 0)) = Garbage
      BY <3>4 DEF At
    <3>6. StartNonce + task.sn + l \in Nat
      BY <1>1, <3>2
    <3>7. QED
      BY <3>3, <3>5, <3>6, GarbageIs
  <2>2. ASSUME NEW k \in 0 .. task.nonces - 1
        PROVE  AlignDown(k) * NonceWords < IntRange
    <3>1. AlignDown(k) * NonceWords \in Int
      BY AlignDownIs, LayoutIs
    <3>2. QED
      BY <2>1, <3>1, LayoutIs
  <2>3. ASSUME gws < task.nonces, gws * PlotSize >= IntRange
        PROVE  FALSE
    <3>1. gws \in 0 .. task.nonces - 1 /\ gws \in 0 .. WorkSize - 1 /\ 0 \in Hashes /\ 0 \in HashPlaces
      BY <1>1, <2>3, LayoutIs DEF Hashes, HashPlaces
    <3>2. Address(gws, 0, 0) = Place(gws, 0, 0) /\ Place(gws, 0, 0) \in DOMAIN block
      BY <1>1, <2>2, <3>1, AddressIs, PlaceBelow DEF Memory
    <3>3. Place(gws, 0, 0) = gws * NonceWords
      <4>1. 0 \in Nat /\ gws + 0 = gws
        BY <1>1
      <4>2. Place(gws + 0, 0, 0) = gws * NonceWords + Place(0, 0, 0)
        BY <1>1, <3>1, <4>1, PlaceShift
      <4>3. Place(0, 0, 0) = 0
        BY LayoutIs DEF Place, AlignDown
      <4>4. gws * NonceWords \in Int
        BY <1>1, LayoutIs
      <4>5. QED
        BY <4>1, <4>2, <4>3, <4>4
    <3>4. block[gws * NonceWords] = Second
      <4>1. At(block, Address(gws, 0, 0)) = Second
        BY <1>4, <3>1, RightMeansAt DEF Second
      <4>2. QED
        BY <3>2, <3>3, <4>1 DEF At
    <3>5. QED
      BY <2>3, <3>4 DEF Memories, Stray
  <2>4. gws * PlotSize \in Int
    BY <1>1, LayoutIs
  <2>5. gws < task.nonces => gws * PlotSize < IntRange
    BY <2>3, <2>4, LayoutIs
  <2>6. task.nonces > gws => gws * PlotSize < IntRange
    BY <1>1, <2>5
  <2>7. QED
    BY <2>2, <2>6 DEF InRange, gws
<1>5. QED
  BY <1>3, <1>4

\* Whenever the writer is done with a task that was not stopped, all its nonces
\* are in the file as the CPU would plot them if, and only if, no product of ints
\* overflowed in the copies of its batches and in its addresses, for any sizes of
\* nonces, works and files, however often writes failed and wherever earlier runs
\* ended (src/src/worker_hasher.cpp:29-42, src/src/worker_writer.cpp:13-72).
THEOREM WritesAreRight == Spec => []WrittenRight
<1>1. Base /\ Memories /\ Wrote => WrittenRight
  BY RightIfInRange DEF WrittenRight
<1>2. QED
  BY <1>1, BaseAlways, MemoriesAlways, WroteAlways, PTL

-----------------------------------------------------------------------------
(* The nonces that are stored                                              *)

LEMMA AllInRangeHere ==
  ASSUME Base, AllInRange
  PROVE  InRange(use.runs[run], task.nonces)
<1> DEFINE b == Smaller(init_nonces, WorkSize)
<1>1. /\ task.nonces \in Nat /\ task.nonces <= WorkSize /\ WorkSize \in Nat
      /\ task.sn \in Nat /\ task.sn + task.nonces <= init_nonces /\ init_nonces \in Nat
      /\ gws \in Nat
  BY BaseUse, UseIs DEF Base, TaskTypes
<1>2. task.nonces <= b /\ b \in Nat
  BY <1>1 DEF Smaller
<1>3. InRange(use.runs[run], b)
  BY BaseUse DEF AllInRange, WorkSize, gws
<1> HIDE DEF b
<1>4. task.nonces > gws => b > gws
  BY <1>1, <1>2
<1>5. \A k \in 0 .. task.nonces - 1 : k \in 0 .. b - 1
  BY <1>1, <1>2
<1>6. QED
  BY <1>3, <1>4, <1>5 DEF InRange, gws

\* A write makes right the units that it writes, and no others; it keeps what is
\* right.
NewlyWritten(k, s) == s = scoop /\ k \in task.sn + Ahead .. task.sn + Ahead' - 1

LEMMA WriteRight ==
  ASSUME Base, Base', Memories, AllInRange, Write, pc' # "failed",
         NEW k \in 0 .. init_nonces - 1, NEW s \in 0 .. Scoops - 1
  PROVE  /\ RightAt(k, s)' <=> RightAt(k, s) \/ NewlyWritten(k, s)
         /\ NewlyWritten(k, s) => k \in TaskNonces
<1>1. /\ pc = "write" /\ init_nonces' = init_nonces
      /\ init_nonces \in Nat \ {0} /\ StartNonce \in Nat
  BY SameUse, BaseUse, UseIs, SectorIs DEF Write, constVars
<1>2. PICK c \in Nat \ {0} : Advances(c)
  BY WriteAdvances
<1>3. /\ pos = Offset + Ahead /\ Ahead \in Nat
      /\ Offset \in Nat /\ pos \in Nat /\ task.nonces \in Nat
      /\ task.sn \in Nat /\ scoop \in 0 .. Scoops - 1
      /\ Offset = task.sn + scoop * init_nonces
  BY <1>1, AheadIs
<1>4. /\ c <= Len(write_buffer) /\ Len(write_buffer) \in Nat
      /\ Ahead + c <= task.nonces /\ Ahead = nstart + Written
      /\ nstart \in Nat /\ Written \in Nat
  <2>1. /\ nstart \in Nat /\ Written \in Nat /\ Len(write_buffer) \in Nat
        /\ Chunk = Written + Len(write_buffer) /\ Chunk <= task.nonces - nstart
    BY <1>1, WriteIs
  <2>2. c <= Len(write_buffer)
    BY <1>2, <2>1 DEF Advances
  <2>3. Ahead = nstart + Written
    BY <1>1 DEF Ahead
  <2>4. task.nonces \in Nat
    BY <1>3
  <2>5. nstart + Written + Len(write_buffer) <= task.nonces
    BY <2>1, <2>4
  <2>6. Ahead + c <= task.nonces
    BY <2>1, <2>2, <2>3, <2>4, <2>5
  <2>7. QED
    BY <2>1, <2>2, <2>3, <2>6
<1>5. Ahead' = Ahead + c
  BY <1>2 DEF Advances
<1>5a. /\ pos = Offset + Ahead /\ Ahead \in Nat /\ Offset \in Nat /\ pos \in Nat
       /\ task.nonces \in Nat /\ task.sn \in Nat /\ Ahead + c <= task.nonces
  BY <1>3, <1>4
<1> DEFINE y == scoop * init_nonces
           x == k + s * init_nonces
           l == task.sn + Ahead + (x - pos)
<1>6. x \in Nat /\ y \in Nat /\ s \in Nat /\ scoop \in Nat
  BY <1>1, <1>3, FilePlace, LayoutIs, ProductNat
<1>7. size \in Nat /\ size' = Larger(size, pos + c)
  BY <1>2, LenProperties DEF Base, FileTypes, size, Advances
<1>8. NewlyWritten(k, s) => k \in TaskNonces /\ x - pos \in 0 .. c - 1
  <2>1. ASSUME NewlyWritten(k, s)
        PROVE  k \in TaskNonces /\ x - pos \in 0 .. c - 1
    <3>1. s = scoop /\ k >= task.sn + Ahead /\ k < task.sn + Ahead + c /\ k \in Int
      BY <1>1, <1>3, <1>5, <2>1 DEF NewlyWritten
    <3>2. x = k + y
      BY <3>1
    <3> HIDE DEF x, y
    <3>3. Offset = task.sn + y
      BY <1>3 DEF y
    <3>4. x - pos \in 0 .. c - 1
      BY <1>3, <1>6, <3>1, <3>2, <3>3
    <3>5. k \in TaskNonces
      BY <1>5a, <3>1 DEF TaskNonces
    <3>6. QED
      BY <3>4, <3>5
  <2>2. QED
    BY <2>1
<1>9. CASE x - pos \in 0 .. c - 1
  <2>1. l \in TaskNonces /\ l \in Nat /\ x = l + y /\ l \in task.sn + Ahead .. task.sn + Ahead' - 1
    <3>1. Offset = task.sn + y
      BY <1>3
    <3> HIDE DEF x, y
    <3>2. x = l + y /\ l \in Nat
      BY <1>3, <1>6, <1>9, <3>1
    <3>3. l \in TaskNonces
      <4> DEFINE e == x - pos
      <4>1. e \in 0 .. c - 1 /\ l = task.sn + Ahead + e
        BY <1>9
      <4> HIDE DEF e, l
      <4>2. QED
        BY <1>5a, <4>1 DEF TaskNonces
    <3>4. l \in task.sn + Ahead .. task.sn + Ahead' - 1
      BY <1>3, <1>5, <1>6, <1>9
    <3>5. QED
      BY <3>2, <3>3, <3>4
  <2>2. l \in 0 .. init_nonces - 1
    <3>1. task.sn + task.nonces <= init_nonces
      BY <1>1 DEF Base, TaskTypes
    <3> HIDE DEF l
    <3>2. QED
      BY <1>1, <1>3, <2>1, <3>1 DEF TaskNonces
  <2>3. l = k /\ scoop = s
    <3>1. init_nonces * scoop + l = init_nonces * s + k
      BY <1>1, <1>3, <2>1
    <3> HIDE DEF l
    <3>2. scoop \in Int /\ s \in Int
      BY <1>6
    <3>3. QED
      BY <1>1, <2>2, <3>1, <3>2, OneQuotient
  <2>4. NewlyWritten(k, s)
    BY <2>1, <2>3 DEF NewlyWritten
  <2> DEFINE j == x - pos + 1
  <2>5. j \in 1 .. c /\ j \in 1 .. Len(write_buffer) /\ nstart + Written + (j - 1) = k - task.sn
    <3>1. l = k
      BY <2>3
    <3> HIDE DEF x
    <3>2. j \in 1 .. c
      BY <1>3, <1>6, <1>9
    <3>3. nstart + Written + (j - 1) = k - task.sn
      <4>1. Ahead + (j - 1) = k - task.sn
        BY <1>6, <1>5a, <3>1
      <4>2. nstart + Written = Ahead
        BY <1>4
      <4> HIDE DEF j
      <4>3. QED
        BY <4>1, <4>2
    <3> HIDE DEF j
    <3>4. QED
      BY <1>4, <3>2, <3>3
  <2>6. write_buffer[j] = RightScoop(StartNonce + k, s)
    <3>1. write_buffer[j] = Scoop(block, scoop, nstart + Written + (j - 1))
      BY <1>1, <2>5 DEF Base, Loop
    <3>2. total_nonces = 0
      BY <1>1 DEF Base, Phase, TaskTypes
    <3>3. k \in TaskNonces
      BY <1>8, <2>4
    <3>4. Scoop(block, s, k - task.sn) = RightScoop(StartNonce + k, s)
      BY <3>2, <3>3, AllInRangeHere, WrittenMeansRight
    <3>5. QED
      BY <2>3, <2>5, <3>1, <3>4
  <2>7. data'[x + 1] = write_buffer[j] /\ x < size'
    <3> DEFINE z == x + 1
    <3>1. z = pos + j /\ z \in Nat \ {0} /\ j \in 1 .. c
      <4> HIDE DEF x
      <4>1. z = pos + j /\ z \in Nat \ {0}
        BY <1>6, <1>5a
      <4>2. QED
        BY <2>5, <4>1
    <3> HIDE DEF j, x
    <3>2. x < z
      BY <1>6
    <3> HIDE DEF z
    <3>3. z \in 1 .. Larger(size, pos + c) /\ z - pos = j
      BY <1>3, <1>7, <3>1 DEF Larger
    <3>4. data'[z] = write_buffer[j]
      BY <1>2, <3>1, <3>3 DEF Advances
    <3>5. z <= size' /\ size' \in Int
      BY <1>3, <1>7, <3>3 DEF Larger
    <3>6. x < size'
      BY <1>6, <3>1, <3>2, <3>5
    <3>7. QED
      BY <3>4, <3>6 DEF z
  <2>8. RightAt(k, s)'
    <3>1. k + s * init_nonces' = x
      BY <1>1
    <3>2. QED
      BY <2>6, <2>7, <3>1 DEF RightAt
  <2>9. QED
    BY <1>8, <2>4, <2>8
<1>10. CASE x - pos \notin 0 .. c - 1
  <2>1. ~NewlyWritten(k, s)
    BY <1>8, <1>10
  <2>2. x < size' => data'[x + 1] = IF x < size THEN data[x + 1] ELSE Blank
    <3> DEFINE z == x + 1
    <3>1. z \in Nat \ {0} /\ (x < size' <=> z <= size') /\ (x < size <=> z <= size) /\ z - pos \notin 1 .. c
      <4> HIDE DEF x
      <4>1. size' \in Int
        BY <1>3, <1>7 DEF Larger
      <4>2. QED
        BY <1>3, <1>6, <1>7, <1>10, <4>1
    <3> HIDE DEF z
    <3>2. z <= size' => data'[z] = IF z <= size THEN data[z] ELSE Blank
      <4>1. z <= size' => z \in 1 .. Larger(size, pos + c)
        BY <1>3, <1>7, <3>1 DEF Larger
      <4>2. QED
        BY <1>2, <3>1, <4>1 DEF Advances
    <3>3. QED
      BY <3>1, <3>2 DEF z
  <2>3. x < size => x < size'
    <3> HIDE DEF x
    <3>1. QED
      BY <1>3, <1>6, <1>7 DEF Larger
  <2>4. RightScoop(StartNonce + k, s) # Blank
    BY <1>1, RightScoopType
  <2>5. k + s * init_nonces' = x
    BY <1>1
  <2>6. RightAt(k, s)' <=> RightAt(k, s)
    BY <2>2, <2>3, <2>4, <2>5 DEF RightAt
  <2>7. QED
    BY <2>1, <2>6
<1>11. QED
  BY <1>9, <1>10

\* The file keeps what it has and grows, if it does, by unwritten places.
Grows ==
  /\ size' \in Nat /\ size <= size'
  /\ \A x \in 1 .. size' : data'[x] = IF x <= size THEN data[x] ELSE Blank

LEMMA RightStays ==
  ASSUME Base, Grows, init_nonces' = init_nonces,
         NEW k \in 0 .. init_nonces - 1, NEW s \in 0 .. Scoops - 1
  PROVE  RightAt(k, s)' <=> RightAt(k, s)
<1> DEFINE x == k + s * init_nonces
           z == x + 1
<1>1. init_nonces \in Nat \ {0} /\ StartNonce \in Nat /\ size \in Nat
  BY BaseUse, UseIs, SectorIs, LenProperties DEF Base, FileTypes, size
<1>2. x \in Nat
  BY <1>1, FilePlace
<1>3. k + s * init_nonces' = x
  OBVIOUS
<1> HIDE DEF x
<1>4. z \in Nat \ {0} /\ (x < size <=> z <= size) /\ (x < size' <=> z <= size')
  BY <1>1, <1>2 DEF Grows
<1>5. x < size => x < size'
  BY <1>1, <1>2 DEF Grows
<1> HIDE DEF z
<1>6. z <= size' => data'[z] = IF z <= size THEN data[z] ELSE Blank
  BY <1>4 DEF Grows
<1>7. RightScoop(StartNonce + k, s) # Blank
  BY <1>1, RightScoopType
<1>8. RightAt(k, s)' <=> (x < size' /\ data'[z] = RightScoop(StartNonce + k, s))
  BY <1>3 DEF RightAt, z, x
<1>9. RightAt(k, s) <=> (x < size /\ data[z] = RightScoop(StartNonce + k, s))
  BY DEF RightAt, z, x
<1>10. QED
  BY <1>4, <1>5, <1>6, <1>7, <1>8, <1>9

LEMMA WholeIs ==
  Whole = {k \in 0 .. init_nonces - 1 : \A s \in 0 .. Scoops - 1 : RightAt(k, s)}
BY DEF Whole, RightAt

LEMMA WholeStays ==
  ASSUME Base, Grows, init_nonces' = init_nonces
  PROVE  Whole' = Whole
<1>1. Whole' = {k \in 0 .. init_nonces - 1 : \A s \in 0 .. Scoops - 1 : RightAt(k, s)'}
  BY DEF Whole, RightAt
<1>2. \A k \in 0 .. init_nonces - 1 : \A s \in 0 .. Scoops - 1 : RightAt(k, s)' <=> RightAt(k, s)
  BY RightStays
<1>3. QED
  BY <1>1, <1>2, WholeIs

LEMMA SameFileGrows ==
  ASSUME Base, data' = data
  PROVE  Grows
<1>1. size' = size /\ size \in Nat
  BY LenProperties DEF Base, FileTypes, size
<1>2. QED
  BY <1>1 DEF Grows

\* Everything but a write and damage leaves the file, or lets it grow.
LEMMA OthersGrow ==
  ASSUME Base, [Next]_<<vars, verifyVars>>, ~(Write /\ pc' # "failed"), ~Damage
  PROVE  Grows /\ use' = use /\ init_nonces' = init_nonces
<1>1. data \in Seq(Stuff)
  BY DEF Base, FileTypes
<1>2. use' = use /\ init_nonces' = init_nonces
  BY DEF Next, WriterNext, WriterStep, Verify, vars, writerVars, constVars, init_nonces,
         Cut, PlotBatch, Open, Allocate, Perform, ScoopLoop, GroupLoop, Write, Retry,
         Submit, Stop, Restart, Check, Batch, CompareScoop
<1>3. CASE Allocate
  <2>1. init_nonces * Scoops \in Nat
    BY BaseUse, UseIs, LayoutIs, ProductNat
  <2>2. allocate(init_nonces * Scoops) \/ data' = data
    BY <1>3 DEF Allocate, fails
  <2>3. CASE allocate(init_nonces * Scoops)
    <3>1. /\ Len(data') = Larger(size, init_nonces * Scoops) /\ data' \in Seq(Stuff)
          /\ \A x \in 1 .. Larger(size, init_nonces * Scoops) :
               data'[x] = IF x <= size THEN data[x] ELSE Blank
      BY <1>1, <2>1, <2>3, AllocatedIs
    <3>2. size' = Larger(size, init_nonces * Scoops)
      BY <3>1 DEF size
    <3>3. size \in Int
      BY <1>1, LenProperties DEF size
    <3>4. size' \in Nat /\ size <= size'
      BY <2>1, <3>1, <3>2, <3>3, LargerIs, LenProperties DEF size
    <3>5. QED
      BY <1>2, <3>1, <3>2, <3>4 DEF Grows
  <2>4. QED
    BY <1>2, <2>2, <2>3, SameFileGrows
<1>4. CASE Open
  <2>1. data' = data
    BY <1>4 DEF Open, open, fileVars, DoCreate, Base, Handle, FileTypes
  <2>2. QED
    BY <1>2, <2>1, SameFileGrows
<1>5. CASE Cut \/ PlotBatch \/ Perform \/ GroupLoop \/ ScoopLoop \/ Retry \/ Submit
  <2>1. data' = data
    BY <1>5 DEF Cut, PlotBatch, Perform, GroupLoop, ScoopLoop, Retry, Submit, close, fileVars,
                seek, fails
  <2>2. QED
    BY <1>2, <2>1, SameFileGrows
<1>6. CASE Write
  <2>1. data' = data
    <3>1. pc' = "failed" /\ pc = "write"
      BY <1>6 DEF Write
    <3>2. QED
      BY <1>6, <3>1 DEF Write, fails
  <2>2. QED
    BY <1>2, <2>1, SameFileGrows
<1>7. CASE Stop \/ Restart \/ Verify \/ UNCHANGED <<vars, verifyVars>>
  <2>1. data' = data
    BY <1>7 DEF Stop, Restart, Verify, vars, close, fileVars, Check, open, Batch, CompareScoop,
                seek, fails
  <2>2. QED
    BY <1>2, <2>1, SameFileGrows
<1>8. QED
  BY <1>3, <1>4, <1>5, <1>6, <1>7 DEF Next, WriterNext, WriterStep

LEMMA LastInit == VerifyInit => LastMeansWhole
<1> SUFFICES ASSUME VerifyInit
             PROVE  LastMeansWhole
  OBVIOUS
<1>1. size = 0 /\ init_nonces \in Nat \ {0}
  <2>1. size = 0
    BY DEF VerifyInit, Init, FileInit, size
  <2>2. QED
    BY <2>1, BaseInit, BaseUse, UseIs
<1>2. ASSUME NEW k \in 0 .. init_nonces - 1
      PROVE  ~RightAt(k, Scoops - 1)
  <2>1. k + (Scoops - 1) * init_nonces \in Nat
    BY <1>1, FilePlace, LayoutIs
  <2> DEFINE x == k + (Scoops - 1) * init_nonces
  <2>2. x \in Nat
    BY <2>1
  <2> HIDE DEF x
  <2>3. ~(x < size)
    BY <1>1, <2>2
  <2>4. QED
    BY <2>3 DEF RightAt, x
<1>3. QED
  BY <1>2 DEF LastMeansWhole

LEMMA LastScoop == Scoops - 1 \in 0 .. Scoops - 1
BY LayoutIs

LEMMA LastWrite ==
  ASSUME Base, Base', Memories, Wrote, LastMeansWhole, Write, pc' # "failed",
         AllInRange, ~renamed
  PROVE  LastMeansWhole'
<1>1. init_nonces' = init_nonces /\ pc = "write"
  BY SameUse DEF Write, constVars
<1>2. ASSUME NEW k \in 0 .. init_nonces - 1, RightAt(k, Scoops - 1)',
             NEW s \in 0 .. Scoops - 1
      PROVE  RightAt(k, s)'
  <2>1. RightAt(k, Scoops - 1) \/ NewlyWritten(k, Scoops - 1)
    BY <1>2, LastScoop, WriteRight
  <2>2. CASE RightAt(k, Scoops - 1)
    <3>1. RightAt(k, s)
      BY <2>2 DEF LastMeansWhole
    <3>2. QED
      BY <3>1, WriteRight
  <2>3. CASE NewlyWritten(k, Scoops - 1)
    <3>1. scoop = Scoops - 1 /\ k \in TaskNonces
      BY <2>3, LastScoop, WriteRight DEF NewlyWritten
    <3>2. CASE s = scoop
      BY <1>2, <3>1, <3>2
    <3>3. CASE s # scoop
      <4>1. s \in 0 .. scoop - 1
        BY <3>1, <3>3, LayoutIs
      <4>2. WrittenAt(k, s)
        BY <1>1, <3>1, <4>1 DEF Wrote
      <4>3. total_nonces = 0
        BY <1>1 DEF Base, Phase, TaskTypes
      <4>4. RightAt(k, s)
        BY <3>1, <4>2, <4>3, AllInRangeHere, WrittenMeansRight DEF WrittenAt, RightAt
      <4>5. QED
        BY <4>4, WriteRight
    <3>4. QED
      BY <3>2, <3>3
  <2>4. QED
    BY <2>1, <2>2, <2>3
<1>3. QED
  BY <1>1, <1>2 DEF LastMeansWhole

LEMMA LastStep ==
  ASSUME Base, Base', Memories, Wrote, LastMeansWhole, [Next]_<<vars, verifyVars>>
  PROVE  LastMeansWhole'
<1>1. CASE Damage
  <2>1. renamed'
    BY <1>1 DEF Damage, writerVars
  <2>2. QED
    BY <2>1 DEF LastMeansWhole
<1>2. CASE Write /\ pc' # "failed"
  <2>1. use' = use /\ renamed' = renamed
    BY <1>2 DEF Write, constVars
  <2>2. AllInRange' = AllInRange
    BY <2>1 DEF AllInRange, init_nonces
  <2>3. CASE AllInRange /\ ~renamed
    BY <1>2, <2>3, LastWrite
  <2>4. CASE ~(AllInRange /\ ~renamed)
    BY <2>1, <2>2, <2>4 DEF LastMeansWhole
  <2>5. QED
    BY <2>3, <2>4
<1>3. CASE ~Damage /\ ~(Write /\ pc' # "failed")
  <2>1. Grows /\ use' = use /\ init_nonces' = init_nonces
    BY <1>3, OthersGrow
  <2>2. AllInRange' = AllInRange
    BY <2>1 DEF AllInRange
  <2>3. ~renamed' => ~renamed
    <3>1. CASE Cut \/ PlotBatch \/ Open \/ Allocate \/ Perform \/ ScoopLoop \/ GroupLoop
               \/ Write \/ Retry \/ Stop \/ Restart
      BY <3>1 DEF Cut, PlotBatch, Open, Allocate, Perform, ScoopLoop, GroupLoop, Write,
                  Retry, Stop, Restart
    <3>2. CASE Submit
      BY <3>2 DEF Submit, Base, Phase
    <3>3. CASE Verify \/ UNCHANGED <<vars, verifyVars>>
      BY <3>3 DEF Verify, vars, writerVars, Check, Batch, CompareScoop
    <3>4. QED
      BY <1>3, <3>1, <3>2, <3>3 DEF Next, WriterNext, WriterStep
  <2>4. \A k \in 0 .. init_nonces - 1, s \in 0 .. Scoops - 1 : RightAt(k, s)' <=> RightAt(k, s)
    BY <2>1, RightStays
  <2>5. QED
    BY <2>1, <2>2, <2>3, <2>4, LastScoop DEF LastMeansWhole
<1>4. QED
  BY <1>1, <1>2, <1>3

LEMMA LastAlways == Spec => []LastMeansWhole
<1>1. VerifyInit => Base /\ Memories /\ Wrote /\ LastMeansWhole
  BY BaseInit, MemoriesInit, WroteInit, LastInit
<1>2. Base /\ Memories /\ Wrote /\ LastMeansWhole /\ [Next]_<<vars, verifyVars>>
        => (Base /\ Memories /\ Wrote /\ LastMeansWhole)'
  BY BaseStep, MemoriesStep, WroteStep, LastStep
<1>3. QED
  BY <1>1, <1>2, PTL DEF Spec

\* The nonces whose last scoop is right are those that are stored.
LEMMA WholeIsLast ==
  ASSUME LastMeansWhole, AllInRange, ~renamed, NEW k \in 0 .. init_nonces - 1
  PROVE  k \in Whole <=> RightAt(k, Scoops - 1)
BY WholeIs, LastScoop DEF LastMeansWhole

\* The tasks of the store.
InHand == IF pc \in {"cut", "ended"} THEN {} ELSE TaskNonces

LEMMA StoreWrite ==
  ASSUME Base, Base', Memories, Wrote, LastMeansWhole, Write, AllInRange, ~renamed, pc' # "failed"
  PROVE  Store!Store \/ UNCHANGED Store!vars
<1>1. /\ pc = "write" /\ pc' \in {"write", "group"} /\ use' = use /\ init_nonces' = init_nonces
      /\ UNCHANGED <<prev, task, stopped, renamed, scoop>>
  BY SameUse, WriteAdvances DEF Write, constVars, taskVars
<1>2. InHand = TaskNonces /\ InHand' = TaskNonces /\ AllInRange'
  BY <1>1 DEF InHand, TaskNonces, AllInRange
<1>3. LastMeansWhole'
  BY LastWrite
<1>4. \A k \in 0 .. init_nonces - 1 : k \in Whole' <=> RightAt(k, Scoops - 1)'
  <2>1. \A k \in 0 .. init_nonces' - 1 :
          RightAt(k, Scoops - 1)' => \A s \in 0 .. Scoops - 1 : RightAt(k, s)'
    BY <1>1, <1>2, <1>3 DEF LastMeansWhole
  <2>2. Whole' = {k \in 0 .. init_nonces - 1 : \A s \in 0 .. Scoops - 1 : RightAt(k, s)'}
    BY <1>1 DEF Whole, RightAt
  <2>3. QED
    BY <1>1, <2>1, <2>2, LastScoop
<1>5. \A k \in 0 .. init_nonces - 1 : k \in Whole <=> RightAt(k, Scoops - 1)
  BY WholeIsLast
<1>6. ASSUME NEW k \in 0 .. init_nonces - 1
      PROVE  k \in Whole' <=> k \in Whole \/ NewlyWritten(k, Scoops - 1)
  <2>1. RightAt(k, Scoops - 1)' <=> RightAt(k, Scoops - 1) \/ NewlyWritten(k, Scoops - 1)
    BY LastScoop, WriteRight
  <2>2. QED
    BY <1>4, <1>5, <2>1
<1>7. Whole \subseteq 0 .. init_nonces - 1 /\ Whole' \subseteq 0 .. init_nonces - 1
  BY <1>1 DEF Whole
<1>8. CASE scoop # Scoops - 1
  <2>1. Whole' = Whole
    BY <1>6, <1>7, <1>8 DEF NewlyWritten
  <2>2. QED
    BY <1>1, <1>2, <2>1 DEF Store!vars, InHand
<1>9. CASE scoop = Scoops - 1
  <2>1. PICK c \in Nat \ {0} : c \in 1 .. Len(write_buffer) /\ Ahead' = Ahead + c
    BY WriteAdvances DEF Advances
  <2>2. /\ Ahead \in Nat /\ Ahead = nstart + Written /\ nstart \in Nat /\ Written \in Nat
        /\ nstart + (Written + Len(write_buffer)) <= task.nonces /\ Len(write_buffer) \in Nat
        /\ task.nonces \in Nat /\ task.sn \in Nat
        /\ init_nonces \in Nat /\ task.sn + task.nonces <= init_nonces
    <3>1. /\ nstart \in Nat /\ Written \in Nat /\ Len(write_buffer) \in Nat
          /\ Chunk = Written + Len(write_buffer) /\ Chunk <= task.nonces - nstart
          /\ task.nonces \in Nat
      BY <1>1, WriteIs
    <3>2. Ahead = nstart + Written /\ Ahead \in Nat /\ task.sn \in Nat
      BY <1>1, AheadIs DEF Ahead
    <3>3. init_nonces \in Nat /\ task.sn + task.nonces <= init_nonces
      BY BaseUse, UseIs DEF Base, TaskTypes
    <3>4. nstart + (Written + Len(write_buffer)) <= task.nonces
      BY <3>1
    <3>5. QED
      BY <3>1, <3>2, <3>3, <3>4
  <2>3. Ahead + c <= task.nonces
    BY <2>1, <2>2
  <2> DEFINE l == task.sn + Ahead' - 1
  <2>4. l \in TaskNonces
    <3>1. l = task.sn + (Ahead + c) - 1
      BY <2>1
    <3> DEFINE e == Ahead + c
    <3>2. e \in Nat \ {0} /\ e <= task.nonces /\ l = task.sn + e - 1
      BY <2>1, <2>2, <2>3, <3>1
    <3> HIDE DEF e, l
    <3>3. QED
      BY <2>2, <3>2 DEF TaskNonces
  <2>5. TaskNonces \subseteq 0 .. init_nonces - 1
    BY <2>2 DEF TaskNonces
  <2>6. ASSUME NEW k \in 0 .. init_nonces - 1
        PROVE  NewlyWritten(k, Scoops - 1) => k \in TaskNonces /\ k <= l
    <3>1. NewlyWritten(k, Scoops - 1) => k \in TaskNonces
      BY LastScoop, WriteRight
    <3>2. NewlyWritten(k, Scoops - 1) => k <= l
      BY <2>1, <2>2 DEF NewlyWritten
    <3>3. QED
      BY <3>1, <3>2
  <2>7. ASSUME NEW k \in TaskNonces, k <= l
        PROVE  k \in Whole \/ NewlyWritten(k, Scoops - 1)
    <3>1. k \in Int /\ k >= task.sn /\ k \in 0 .. init_nonces - 1
      BY <2>2, <2>5 DEF TaskNonces
    <3>2. CASE k < task.sn + Ahead
      <4>1. k \in task.sn .. task.sn + Ahead - 1
        BY <2>2, <3>1, <3>2
      <4>2. WrittenAt(k, scoop)
        BY <1>1, <4>1 DEF Wrote
      <4>3. total_nonces = 0
        BY <1>1 DEF Base, Phase, TaskTypes
      <4>4. RightAt(k, scoop)
        BY <1>9, <4>2, <4>3, LastScoop, AllInRangeHere, WrittenMeansRight DEF WrittenAt, RightAt
      <4>5. QED
        BY <1>5, <1>9, <3>1, <4>4
    <3>3. CASE k >= task.sn + Ahead
      <4>1. k \in task.sn + Ahead .. task.sn + Ahead' - 1
        BY <2>1, <2>2, <2>7, <3>1, <3>3
      <4>2. QED
        BY <1>9, <4>1 DEF NewlyWritten
    <3>4. QED
      BY <2>2, <3>1, <3>2, <3>3
  <2> HIDE DEF l
  <2>8. Whole' = Whole \cup {k \in TaskNonces : k <= l}
    BY <1>6, <1>7, <2>5, <2>6, <2>7
  <2>9. QED
    BY <1>1, <1>2, <2>4, <2>8 DEF Store!Store, InHand
<1>10. QED
  BY <1>8, <1>9

\* A step that leaves the tasks and the stored nonces alone.
LEMMA StoreStutters ==
  ASSUME UNCHANGED <<prev, task, stopped>>, init_nonces' = init_nonces, Whole' = Whole,
         pc' \in {"cut", "ended"} <=> pc \in {"cut", "ended"}
  PROVE  UNCHANGED Store!vars
BY DEF Store!vars, TaskNonces

LEMMA StoreCut ==
  ASSUME Base, Cut, Whole' = Whole
  PROVE  Store!Cut
<1> DEFINE m == NextNonces(init_nonces - prev)
<1>1. /\ pc = "cut" /\ pc' = "hash" /\ prev < init_nonces
      /\ task' = [sn |-> prev, nonces |-> m] /\ prev' = prev + m
      /\ init_nonces' = init_nonces /\ stopped' = stopped
  BY SameUse DEF Cut, constVars
<1>2. /\ init_nonces \in Nat /\ WorkSize \in Nat \ {0} /\ prev \in Nat
  BY BaseUse, UseIs DEF Base, TaskTypes
<1>3. m \in 1 .. init_nonces - prev
  BY <1>1, <1>2 DEF NextNonces, Smaller
<1> HIDE DEF m
<1>4. TaskNonces' = prev .. prev + m - 1
  BY <1>1 DEF TaskNonces
<1>5. QED
  BY <1>1, <1>3, <1>4 DEF Store!Cut

LEMMA StoreStep ==
  ASSUME Base, Base', Memories, Wrote, LastMeansWhole, [Next]_<<vars, verifyVars>>,
         AllInRange, ~renamed
  PROVE  Store!Next \/ UNCHANGED Store!vars
<1>1. CASE Write /\ pc' # "failed"
  BY <1>1, StoreWrite DEF Store!Next
<1>2. CASE ~(Write /\ pc' # "failed")
  <2>1. ~Damage
    BY DEF Damage
  <2>2. init_nonces' = init_nonces /\ Whole' = Whole
    BY <1>2, <2>1, OthersGrow, WholeStays
  <2>3. CASE Cut
    BY <2>2, <2>3, StoreCut DEF Store!Next
  <2>4. CASE PlotBatch \/ Open \/ Allocate \/ Perform \/ ScoopLoop \/ GroupLoop
    <3>1. UNCHANGED <<prev, task, stopped>> /\ pc \notin {"cut", "ended"} /\ pc' \notin {"cut", "ended"}
      BY <2>4 DEF PlotBatch, Open, Allocate, Perform, ScoopLoop, GroupLoop, taskVars
    <3>2. QED
      BY <2>2, <3>1, StoreStutters
  <2>5. CASE Write
    <3>1. UNCHANGED <<prev, task, stopped>> /\ pc \notin {"cut", "ended"} /\ pc' \notin {"cut", "ended"}
      BY <1>2, <2>5 DEF Write, taskVars
    <3>2. QED
      BY <2>2, <3>1, StoreStutters
  <2>6. CASE Retry
    <3>1. UNCHANGED <<prev, task, stopped>> /\ pc = "failed" /\ pc' = IF stopped THEN "ended" ELSE "open"
      BY <2>6 DEF Retry, taskVars
    <3>2. CASE stopped
      BY <2>2, <3>1, <3>2 DEF Store!Next, Store!PutAway
    <3>3. CASE ~stopped
      BY <2>2, <3>1, <3>3, StoreStutters
    <3>4. QED
      BY <3>2, <3>3
  <2>7. CASE Submit
    <3>1. UNCHANGED <<prev, task, stopped>> /\ pc = "submit" /\ pc' \in {"cut", "ended"}
      BY <2>7 DEF Submit
    <3>2. TaskNonces \subseteq Whole \/ stopped
      BY <3>1, AllInRangeHere, RightIfInRange
    <3>3. QED
      BY <2>2, <3>1, <3>2 DEF Store!Next, Store!PutAway
  <2>8. CASE Stop
    <3>1. UNCHANGED <<prev, task, pc>> /\ stopped' = TRUE
      BY <2>8 DEF Stop, taskVars
    <3>2. TaskNonces' = TaskNonces
      BY <3>1 DEF TaskNonces
    <3>3. QED
      BY <2>2, <3>1, <3>2 DEF Store!Next, Store!Stop
  <2>9. CASE Restart
    <3>1. prev' = 0 /\ pc' = "cut" /\ stopped' = FALSE
      BY <2>9 DEF Restart
    <3>2. QED
      BY <2>2, <3>1 DEF Store!Next, Store!Restart
  <2>10. CASE Verify \/ UNCHANGED <<vars, verifyVars>>
    <3>1. UNCHANGED <<prev, task, stopped, pc>>
      BY <2>10 DEF Verify, Check, Batch, CompareScoop, vars, writerVars, taskVars
    <3>2. QED
      BY <2>2, <3>1, StoreStutters
  <2>11. QED
    BY <2>1, <2>3, <2>4, <2>5, <2>6, <2>7, <2>8, <2>9, <2>10 DEF Next, WriterNext, WriterStep
<1>3. QED
  BY <1>1, <1>2

LEMMA StoreInit == VerifyInit => Store!Init
<1> SUFFICES ASSUME VerifyInit
             PROVE  Store!Init
  OBVIOUS
<1>1. init_nonces \in Nat \ {0} /\ prev = 0 /\ pc = "cut" /\ stopped = FALSE /\ size = 0
  BY BaseInit, BaseUse, UseIs DEF VerifyInit, Init, FileInit, size
<1>2. ASSUME NEW k \in 0 .. init_nonces - 1
      PROVE  ~RightAt(k, 0)
  <2>1. k + 0 * init_nonces \in Nat
    BY <1>1
  <2> DEFINE x == k + 0 * init_nonces
  <2>2. x \in Nat
    BY <2>1
  <2> HIDE DEF x
  <2>3. ~(x < size)
    BY <1>1, <2>2
  <2>4. QED
    BY <2>3 DEF RightAt, x
<1>3. 0 \in 0 .. Scoops - 1
  BY LayoutIs
<1>4. Whole = {}
  BY <1>2, <1>3, WholeIs
<1>5. QED
  BY <1>1, <1>4 DEF Store!Init

\* The writer implements the store of nonces: for any sizes, while no int
\* overflows and until the file has its final name, the nonces of a file are cut
\* into tasks one after the other, the nonces of a task get stored from the first
\* on, none that is stored is lost, be it to a retry or to another run with other
\* sizes, and a task is put away only with all its nonces stored, or when the
\* program was stopped (src/src/worker_writer.cpp:52-119).
THEOREM WriterStores == Spec => StoreSpec
<1>1. VerifyInit => Store!Init
  BY StoreInit
<1>2. Base /\ Base' /\ Memories /\ Wrote /\ LastMeansWhole /\ [Next]_<<vars, verifyVars>>
        => [AllInRange /\ ~renamed => Store!Next]_(Store!vars)
  BY StoreStep
<1>3. QED
  BY <1>1, <1>2, BaseAlways, MemoriesAlways, WroteAlways, LastAlways, PTL DEF Spec, StoreSpec

-----------------------------------------------------------------------------
(* What the verification says                                              *)

Stride == args.gws + args.step

\* A batch of the loop, for a value of i.
First(x) == Larger(0, FileNonces - x - args.gws)
Count(x) == Smaller(FileNonces - x, args.gws)
BatchAt(x) == First(x) .. First(x) + Count(x) - 1

\* The batches behind it have been found right.
Passed(c) ==
  /\ i = c * Stride
  /\ \A e \in 0 .. c - 1 : e * Stride < FileNonces => BatchAt(e * Stride) \subseteq Whole

Verified ==
  /\ vpc = "idle" => i = 0
  /\ vpc \in {"batch", "compare", "good"} => \E c \in Nat : Passed(c)
  /\ vpc = "compare" =>
       \A s \in 0 .. vscoop - 1 : \A k \in off .. off + n - 1 : RightAt(k, s)
  /\ vpc = "good" => i >= FileNonces
  /\ vpc = "bad" => ~(off .. off + n - 1 \subseteq Whole)

\* A batch in range plots right units, whatever the size of its memory.
LEMMA CacheRight ==
  ASSUME VerificationsInRange, Base, vpc = "compare", NEW j \in 0 .. n - 1
  PROVE  Scoop(Plotted(EmptyBlock(args.gws), StartNonce + off, n), vscoop, j)
           = RightScoop(StartNonce + (off + j), vscoop)
<1> DEFINE mem == EmptyBlock(args.gws)
           m == StartNonce + off
<1>1. /\ args.gws \in Nat \ {0} /\ off \in Nat /\ n \in Nat \ {0} /\ n <= args.gws
      /\ off + n <= init_nonces /\ init_nonces \in Nat \ {0} /\ vscoop \in 0 .. Scoops - 1
      /\ StartNonce \in Nat
  BY BatchIs, SectorIs
<1>2. args \in Verifications /\ use \in Uses /\ Times(NoncesVector, args.gws)
  <2>1. args \in Verifications /\ use \in Uses
    BY DEF Base, VerifyTypes, TaskTypes
  <2>2. QED
    BY <1>1, <2>1, TimesIs, LayoutIs, VerificationsAssumption
<1>3. AllNear(n)
  <2> DEFINE b == Smaller(init_nonces, args.gws)
  <2>1. InRange(args, b)
    BY <1>2 DEF VerificationsInRange, init_nonces
  <2>2. n <= b /\ b \in Nat
    BY <1>1 DEF Smaller
  <2> HIDE DEF b
  <2>3. \A k \in 0 .. n - 1 : k \in 0 .. b - 1
    BY <1>1, <2>2
  <2>4. QED
    BY <2>1, <2>3 DEF InRange, AllNear
<1>4. m \in Nat /\ m + j = StartNonce + (off + j)
  BY <1>1
<1>5. mem \in Memory(args.gws)
  BY <1>1, EmptyBlockIs
<1>6. Plotted(mem, m, n) \in Memory(args.gws)
  BY <1>1, <1>4, <1>5, PlottedType
<1>7. ASSUME NEW h \in Hashes, NEW w \in HashPlaces
      PROVE  At(Plotted(mem, m, n), Address(j, h, w)) = Word(m + j, h, w)
  <2>1. j \in Nat /\ j \in 0 .. args.gws - 1
    BY <1>1
  <2>2. Place(j, h, w) \in 0 .. args.gws * NonceWords - 1
    BY <1>1, <1>2, <2>1, PlaceBelow
  <2>3. Address(j, h, w) = Place(j, h, w)
    BY <1>3, <2>1, AddressIs DEF AllNear
  <2>4. Place(j, h, w) \in DOMAIN mem /\ Place(j, h, w) \in DOMAIN Plotted(mem, m, n)
    BY <1>5, <1>6, <2>2 DEF Memory
  <2>5. Plotted(mem, m, n)[Place(j, h, w)] = Word(m + j, h, w)
    BY <1>1, <1>3, <1>4, <2>4, PlottedRight
  <2>6. QED
    BY <2>3, <2>4, <2>5 DEF At
<1>8. NonceAt(Plotted(mem, m, n), j, m + j)
  BY <1>7 DEF NonceAt
<1>9. QED
  BY <1>1, <1>4, <1>8, ScoopRight

\* The comparison of a scoop is that of its units with those of the CPU.
Cache == transposition(Plotted(EmptyBlock(args.gws), StartNonce + off, n), vscoop, 0, n)

LEMMA ComparisonIs ==
  ASSUME VerificationsInRange, Base, vpc = "compare"
  PROVE  Cache = Stored(off + vscoop * FileNonces, n)
           <=> \A k \in off .. off + n - 1 : RightAt(k, vscoop)
<1> DEFINE at == off + vscoop * FileNonces
<1>1. /\ args.gws \in Nat \ {0} /\ off \in Nat /\ n \in Nat \ {0} /\ n <= args.gws
      /\ FileNonces = init_nonces /\ size = init_nonces * Scoops
      /\ off + n <= init_nonces /\ init_nonces \in Nat \ {0} /\ vscoop \in 0 .. Scoops - 1
      /\ StartNonce \in Nat
  BY BatchIs, SectorIs
<1>2. ASSUME NEW j \in 1 .. n
      PROVE  /\ (off + (j - 1)) + vscoop * init_nonces + 1 = at + j
             /\ at + j \in 1 .. size
             /\ off + (j - 1) \in 0 .. init_nonces - 1
             /\ (off + (j - 1)) + vscoop * init_nonces < size
  <2> DEFINE l == off + (j - 1)
             x == vscoop * init_nonces
  <2>1. l \in 0 .. init_nonces - 1
    BY <1>1
  <2>2. l + x \in Nat /\ l + x < size /\ size \in Nat
    BY <1>1, <2>1, FilePlace
  <2>3. at = off + x /\ x \in Nat
    BY <1>1, FilePlace
  <2> HIDE DEF x, at
  <2>4. l + x + 1 = at + j
    BY <1>1, <2>3
  <2>5. at + j \in 1 .. size
    BY <2>2, <2>4
  <2>6. QED
    BY <2>1, <2>2, <2>4, <2>5 DEF x
<1>3. Cache = [j \in 1 .. n |-> RightScoop(StartNonce + (off + (j - 1)), vscoop)]
  <2>1. \A j \in 1 .. n : j - 1 \in 0 .. n - 1 /\ 0 + j - 1 = j - 1
    BY <1>1
  <2>2. Cache = [j \in 1 .. n |->
                   Scoop(Plotted(EmptyBlock(args.gws), StartNonce + off, n), vscoop, 0 + j - 1)]
    BY DEF Cache, transposition
  <2>3. \A j \in 1 .. n :
          Scoop(Plotted(EmptyBlock(args.gws), StartNonce + off, n), vscoop, 0 + j - 1)
            = RightScoop(StartNonce + (off + (j - 1)), vscoop)
    BY <2>1, CacheRight
  <2>4. QED
    BY <2>2, <2>3
<1>4. /\ Stored(at, n) \in Seq(Stuff) /\ Len(Stored(at, n)) = n
      /\ \A j \in 1 .. n : Stored(at, n)[j] = data[at + j]
  <2>1. at \in Nat /\ at + 1 \in Int /\ at + n \in Int /\ (at + n) - (at + 1) + 1 = n
        /\ at + 1 <= at + n
    <3>1. at \in Nat
      BY <1>1, FilePlace
    <3> HIDE DEF at
    <3>2. QED
      BY <1>1, <3>1
  <2> HIDE DEF at
  <2>2. \A x \in at + 1 .. at + n : data[x] \in Stuff
    <3>1. \A x \in at + 1 .. at + n : x - at \in 1 .. n /\ at + (x - at) = x
      BY <1>1, <2>1
    <3>2. \A x \in at + 1 .. at + n : x \in 1 .. size
      BY <1>2, <3>1
    <3>3. data \in Seq(Stuff)
      BY DEF Base, FileTypes
    <3>4. QED
      BY <3>2, <3>3, ElementOfSeq DEF size
  <2>3. /\ SubSeq(data, at + 1, at + n) \in Seq(Stuff)
        /\ Len(SubSeq(data, at + 1, at + n)) = n
        /\ \A j \in 1 .. n : SubSeq(data, at + 1, at + n)[j] = data[at + 1 + j - 1]
    BY <2>1, <2>2, SubSeqProperties
  <2>4. \A j \in 1 .. n : at + 1 + j - 1 = at + j
    BY <1>1, <2>1
  <2>5. QED
    BY <2>3, <2>4 DEF Stored
<1>5. Stored(at, n) = [j \in 1 .. n |-> data[at + j]]
  <2>1. Stored(at, n) = [j \in 1 .. n |-> Stored(at, n)[j]]
    BY <1>4
  <2>2. QED
    BY <1>4, <2>1
<1>6. Cache = Stored(at, n)
        <=> \A j \in 1 .. n : RightScoop(StartNonce + (off + (j - 1)), vscoop) = data[at + j]
  BY <1>3, <1>5
<1>7. \A j \in 1 .. n :
        RightScoop(StartNonce + (off + (j - 1)), vscoop) = data[at + j]
          <=> RightAt(off + (j - 1), vscoop)
  BY <1>2 DEF RightAt
<1>8. /\ \A j \in 1 .. n : off + (j - 1) \in off .. off + n - 1
      /\ \A k \in off .. off + n - 1 : k - off + 1 \in 1 .. n /\ off + ((k - off + 1) - 1) = k
  BY <1>1
<1>9. (\A j \in 1 .. n : RightAt(off + (j - 1), vscoop))
        <=> \A k \in off .. off + n - 1 : RightAt(k, vscoop)
  <2>1. ASSUME \A j \in 1 .. n : RightAt(off + (j - 1), vscoop), NEW k \in off .. off + n - 1
        PROVE  RightAt(k, vscoop)
    <3>1. RightAt(off + ((k - off + 1) - 1), vscoop)
      BY <1>8, <2>1
    <3>2. QED
      BY <1>8, <3>1
  <2>2. QED
    BY <1>8, <2>1
<1>10. QED
  BY <1>6, <1>7, <1>9

\* What a step of the verification leaves alone.
LEMMA SameVerdicts ==
  ASSUME use' = use, data' = data, args' = args, init_nonces' = init_nonces
  PROVE  /\ Whole' = Whole /\ FileNonces' = FileNonces /\ Stride' = Stride
         /\ \A x : BatchAt(x)' = BatchAt(x)
         /\ \A k, s : RightAt(k, s)' <=> RightAt(k, s)
         /\ i' = i => off' = off /\ n' = n
<1>1. size' = size
  BY DEF size
<1>2. FileNonces' = FileNonces
  BY <1>1 DEF FileNonces
<1>3. QED
  BY <1>1, <1>2 DEF Whole, Stride, BatchAt, First, Count, RightAt, off, n

LEMMA VerifiedInit == VerifyInit => Verified
BY DEF VerifyInit, Verified

LEMMA VerifiedCompare ==
  ASSUME VerificationsInRange, Base, Verified, CompareScoop
  PROVE  Verified'
<1>1. /\ vpc = "compare" /\ use' = use /\ data' = data /\ args' = args /\ init_nonces' = init_nonces
  BY SameUse DEF CompareScoop, seek, fails, writerVars, constVars
<1>2. /\ Whole' = Whole /\ FileNonces' = FileNonces /\ Stride' = Stride
      /\ \A x : BatchAt(x)' = BatchAt(x)
      /\ \A k, s : RightAt(k, s)' <=> RightAt(k, s)
      /\ i' = i => off' = off /\ n' = n
  BY <1>1, SameVerdicts
<1>3. /\ off \in Nat /\ n \in Nat \ {0} /\ off + n <= init_nonces /\ init_nonces \in Nat \ {0}
      /\ vscoop \in 0 .. Scoops - 1 /\ i \in Nat /\ Scoops \in Nat \ {0}
      /\ args.gws \in Nat \ {0} /\ args.step \in Nat
  BY <1>1, BatchIs, LayoutIs
<1>4. /\ vpc' \in {"batch", "compare", "bad", "unread"}
      /\ vpc' \in {"batch", "compare"} => Cache = Stored(off + vscoop * FileNonces, n)
      /\ vpc' = "batch" => vscoop + 1 = Scoops /\ i' = NextBatch
      /\ vpc' # "batch" => i' = i
      /\ vpc' = "compare" => vscoop' = vscoop + 1
      /\ vpc' = "bad" => Cache # Stored(off + vscoop * FileNonces, n)
  BY DEF CompareScoop, Cache
<1>5. PICK c \in Nat : Passed(c)
  BY <1>1 DEF Verified
<1>6. \A s \in 0 .. vscoop - 1 : \A k \in off .. off + n - 1 : RightAt(k, s)
  BY <1>1 DEF Verified
<1>7. Cache = Stored(off + vscoop * FileNonces, n)
        <=> \A k \in off .. off + n - 1 : RightAt(k, vscoop)
  BY <1>1, ComparisonIs
<1>8. ASSUME vpc' = "compare"
      PROVE  Verified'
  <2>1. i' = i /\ off' = off /\ n' = n /\ vscoop' = vscoop + 1
    BY <1>2, <1>4, <1>8
  <2>2. Passed(c)'
    BY <1>2, <1>5, <2>1 DEF Passed
  <2>3. \A s \in 0 .. vscoop' - 1 : s \in 0 .. vscoop - 1 \/ s = vscoop
    BY <1>3, <2>1
  <2>4. \A s \in 0 .. vscoop' - 1 : \A k \in off' .. off' + n' - 1 : RightAt(k, s)'
    BY <1>2, <1>4, <1>6, <1>7, <1>8, <2>1, <2>3
  <2>5. QED
    BY <1>8, <2>2, <2>4 DEF Verified
<1>9. ASSUME vpc' = "batch"
      PROVE  Verified'
  <2>1. \A s \in 0 .. Scoops - 1 : s \in 0 .. vscoop - 1 \/ s = vscoop
    BY <1>3, <1>4, <1>9
  <2>2. off .. off + n - 1 \subseteq Whole
    <3>1. \A k \in off .. off + n - 1 : k \in 0 .. init_nonces - 1
      BY <1>3
    <3>2. \A k \in off .. off + n - 1 : \A s \in 0 .. Scoops - 1 : RightAt(k, s)
      BY <1>4, <1>6, <1>7, <1>9, <2>1
    <3>3. QED
      BY <3>1, <3>2, WholeIs
  <2>3. BatchAt(c * Stride) \subseteq Whole
    <3>1. i = c * Stride
      BY <1>5 DEF Passed
    <3>2. BatchAt(i) = off .. off + n - 1
      BY DEF BatchAt, First, Count, off, n
    <3>3. QED
      BY <2>2, <3>1, <3>2
  <2>4. i' = (c + 1) * Stride
    <3>1. i' = i + args.gws + args.step /\ i = c * Stride
      BY <1>4, <1>5, <1>9 DEF NextBatch, Passed
    <3>2. Stride \in Int /\ i' = i + Stride
      BY <1>3, <3>1 DEF Stride
    <3>3. (c + 1) * Stride = c * Stride + Stride
      BY <3>2
    <3>4. QED
      BY <3>1, <3>2, <3>3
  <2>5. \A e \in 0 .. (c + 1) - 1 : e \in 0 .. c - 1 \/ e = c
    OBVIOUS
  <2>6. \A e \in 0 .. (c + 1) - 1 : e * Stride < FileNonces => BatchAt(e * Stride) \subseteq Whole
    BY <1>5, <2>3, <2>5 DEF Passed
  <2>7. Passed(c + 1)'
    BY <1>2, <2>4, <2>6 DEF Passed
  <2>8. QED
    BY <1>9, <2>7 DEF Verified
<1>10. ASSUME vpc' = "bad"
       PROVE  Verified'
  <2>1. i' = i /\ off' = off /\ n' = n
    BY <1>2, <1>4, <1>10
  <2>2. PICK k \in off .. off + n - 1 : ~RightAt(k, vscoop)
    BY <1>4, <1>7, <1>10
  <2>3. k \notin Whole
    BY <1>3, <2>2, WholeIs
  <2>4. ~(off' .. off' + n' - 1 \subseteq Whole')
    BY <1>2, <2>1, <2>2, <2>3
  <2>5. QED
    BY <1>10, <2>4 DEF Verified
<1>11. CASE vpc' = "unread"
  BY <1>11 DEF Verified
<1>12. QED
  BY <1>4, <1>8, <1>9, <1>10, <1>11

LEMMA VerifiedStep ==
  ASSUME VerificationsInRange, Base, Verified, [Next]_<<vars, verifyVars>>
  PROVE  Verified'
<1>1. CASE vpc = "idle" /\ WriterNext /\ UNCHANGED verifyVars
  BY <1>1 DEF Verified, verifyVars
<1>2. CASE Damage
  BY <1>2 DEF Verified, Damage
<1>3. CASE Check
  <2>1. vpc = "idle" /\ i' = i /\ i = 0 /\ vpc' \in {"unopened", "invalid", "batch"}
    BY <1>3 DEF Check, Verified
  <2>2. CASE vpc' = "batch"
    <3>1. Stride' \in Int
      <4>1. args' \in [gws : Nat \ {0}, step : Nat]
        BY <1>3, VerificationsAssumption DEF Check
      <4>2. QED
        BY <4>1 DEF Stride
    <3>2. i' = 0 * Stride'
      <4>1. \A x \in Int : 0 * x = 0
        OBVIOUS
      <4>2. QED
        BY <2>1, <3>1, <4>1
    <3>3. Passed(0)'
      BY <3>2 DEF Passed
    <3>4. QED
      BY <2>2, <3>3 DEF Verified
  <2>3. CASE vpc' # "batch"
    BY <2>1, <2>3 DEF Verified
  <2>4. QED
    BY <2>2, <2>3
<1>4. CASE Batch
  <2>1. /\ vpc = "batch" /\ use' = use /\ data' = data /\ args' = args /\ init_nonces' = init_nonces
        /\ i' = i
        /\ vpc' = IF i < FileNonces THEN "compare" ELSE "good"
        /\ vpc' = "compare" => vscoop' = 0
    BY <1>4, SameUse DEF Batch, writerVars, constVars, fileVars
  <2>2. /\ Whole' = Whole /\ FileNonces' = FileNonces /\ Stride' = Stride
        /\ \A x : BatchAt(x)' = BatchAt(x)
    BY <2>1, SameVerdicts
  <2>3. PICK c \in Nat : Passed(c)
    BY <2>1 DEF Verified
  <2>4. Passed(c)'
    BY <2>1, <2>2, <2>3 DEF Passed
  <2>5. vpc' = "good" => i' >= FileNonces'
    <3>1. FileNonces \in Nat /\ i \in Nat
      BY <2>1, BaseUse, UseIs DEF Base, VerifyTypes
    <3>2. QED
      BY <2>1, <2>2, <3>1
  <2>6. vpc' \in {"compare", "good"}
    BY <2>1
  <2>7. vpc' = "compare" => 0 .. vscoop' - 1 = {}
    BY <2>1
  <2>8. QED
    BY <2>4, <2>5, <2>6, <2>7 DEF Verified
<1>5. CASE CompareScoop
  BY <1>5, VerifiedCompare
<1>6. CASE UNCHANGED <<vars, verifyVars>>
  <2>1. /\ use' = use /\ data' = data /\ args' = args /\ init_nonces' = init_nonces
        /\ UNCHANGED <<i, vpc, vscoop>>
    BY <1>6, SameUse DEF vars, writerVars, constVars, fileVars, verifyVars
  <2>2. /\ Whole' = Whole /\ FileNonces' = FileNonces /\ Stride' = Stride
        /\ \A x : BatchAt(x)' = BatchAt(x)
        /\ \A k, s : RightAt(k, s)' <=> RightAt(k, s)
        /\ off' = off /\ n' = n
    BY <2>1, SameVerdicts
  <2>3. \A c : Passed(c)' <=> Passed(c)
    BY <2>1, <2>2 DEF Passed
  <2>4. QED
    BY <2>1, <2>2, <2>3 DEF Verified
<1>7. QED
  BY <1>1, <1>2, <1>3, <1>4, <1>5, <1>6 DEF Next, Verify

\* If the batches of the verification have their addresses in the range of int,
\* its verdicts are right, for any file, finished or damaged, any work size and any
\* step: "GOOD!" means that all nonces its loop compares are those of the CPU, in
\* their places, and "error at nonce" that one of the batch named is not
\* (src/src/plotter.cpp:442-464).
THEOREM VerdictsAreRight ==
  ASSUME VerificationsInRange
  PROVE  Spec => []VerdictIsRight
<1>1. VerifyInit => Base /\ Verified
  BY BaseInit, VerifiedInit
<1>2. Base /\ Verified /\ [Next]_<<vars, verifyVars>> => (Base /\ Verified)'
  BY BaseStep, VerifiedStep
<1>3. Base /\ Verified => VerdictIsRight
  <2>1. ASSUME Base, Verified, vpc = "good"
        PROVE  Compared \subseteq Whole
    <3>1. PICK c \in Nat : Passed(c)
      BY <2>1 DEF Verified
    <3>2. /\ i = c * Stride /\ i >= FileNonces
          /\ \A e \in 0 .. c - 1 : e * Stride < FileNonces => BatchAt(e * Stride) \subseteq Whole
      BY <2>1, <3>1 DEF Verified, Passed
    <3>3. /\ args.gws \in Nat \ {0} /\ args.step \in Nat /\ FileNonces \in Nat
          /\ Stride \in Nat
      <4>1. args \in [gws : Nat \ {0}, step : Nat]
        BY <2>1, VerificationsAssumption DEF Base, VerifyTypes
      <4>2. FileNonces \in Nat
        BY <2>1, BaseUse, UseIs DEF Base, VerifyTypes
      <4>3. QED
        BY <4>1, <4>2 DEF Stride
    <3>4. ASSUME NEW e \in 0 .. FileNonces, e * Stride < FileNonces
          PROVE  BatchAt(e * Stride) \subseteq Whole
      <4>1. e < c
        <5>1. CASE c <= e
          <6>1. Stride * c <= Stride * e
            BY <3>3, <5>1, ProductMonotone
          <6>2. Stride * c = c * Stride /\ Stride * e = e * Stride
            BY <3>3
          <6> DEFINE x == c * Stride
                     y == e * Stride
          <6>3. x <= y /\ x >= FileNonces /\ y < FileNonces /\ x \in Int /\ y \in Int
            BY <3>2, <3>3, <3>4, <6>1, <6>2
          <6> HIDE DEF x, y
          <6>4. QED
            BY <3>3, <6>3
        <5>2. QED
          BY <3>3, <5>1
      <4>2. e \in 0 .. c - 1
        BY <3>3, <4>1
      <4>3. QED
        BY <3>2, <3>4, <4>2
    <3>5. Compared = UNION {BatchAt(e * Stride) :
                              e \in {k \in 0 .. FileNonces : k * Stride < FileNonces}}
      BY DEF Compared, BatchAt, First, Count, Stride
    <3>6. QED
      BY <3>4, <3>5
  <2>2. Verified /\ vpc = "bad" => ~(off .. off + n - 1 \subseteq Whole)
    BY DEF Verified
  <2>3. QED
    BY <2>1, <2>2 DEF VerdictIsRight
<1>4. QED
  BY <1>1, <1>2, <1>3, PTL DEF Spec

\* Whatever the sizes, a file is called invalid only if its nonces are no whole
\* number of sectors, which the plan never makes, or if its space was not
\* allocated: the test of the evenness of the nonces, which has the wrong
\* precedence, rejects no good file (src/src/plotter.cpp:151 and 416-421).
THEOREM PlotsAreAccepted == Spec => []AcceptsPlots
<1>1. VerifyInit => AcceptsPlots
  BY DEF VerifyInit, AcceptsPlots
<1>2. ASSUME Base, AcceptsPlots, [Next]_<<vars, verifyVars>>
      PROVE  AcceptsPlots'
  <2>1. CASE vpc' # "invalid"
    BY <2>1 DEF AcceptsPlots
  <2>2. CASE Check
    <3>1. /\ data' = data /\ init_nonces' = init_nonces
      BY <2>2, SameUse DEF Check, open, writerVars, constVars
    <3>2. size' = size
      BY <3>1 DEF size
    <3>3. init_nonces \in Nat \ {0} /\ size \in Nat /\ size <= init_nonces * Scoops
      BY <1>2, BaseUse, UseIs, LenProperties DEF Base, FileTypes, size
    <3>4. ASSUME init_nonces % Sector = 0, size >= init_nonces * Scoops
          PROVE  vpc' # "invalid"
      <4>1. size = init_nonces * Scoops
        <5> DEFINE x == init_nonces * Scoops
        <5>1. x \in Nat /\ size <= x /\ size >= x
          BY <3>3, <3>4, LayoutIs, ProductNat
        <5> HIDE DEF x
        <5>2. size = x
          BY <3>3, <5>1
        <5>3. QED
          BY <5>2 DEF x
      <4>2. FileNonces = init_nonces
        <5>1. size = Scoops * init_nonces + 0
          BY <3>3, <4>1, LayoutIs
        <5>2. 0 \in 0 .. Scoops - 1
          BY LayoutIs
        <5>3. (Scoops * init_nonces + 0) \div Scoops = init_nonces
          BY <3>3, <5>2, LayoutIs, DivModOf
        <5>4. QED
          BY <5>1, <5>3 DEF FileNonces
      <4>3. init_nonces % 2 = 0
        <5>1. Times(Sector, init_nonces)
          BY <3>3, <3>4, SectorIs, TimesIs
        <5>2. Times(2, init_nonces)
          BY <3>3, <5>1, SectorIs, TimesTrans
        <5>3. QED
          BY <3>3, <5>2, TimesIs
      <4>4. Acceptable(FileNonces) /\ FileNonces * Scoops = size
        BY <4>1, <4>2, <4>3 DEF Acceptable
      <4>5. QED
        BY <2>2, <4>2, <4>4 DEF Check
    <3>5. QED
      <4>1. init_nonces * Scoops \in Nat /\ Scoops' = Scoops
        BY <3>3, LayoutIs, ProductNat
      <4>2. ~(init_nonces % Sector # 0 \/ size < init_nonces * Scoops) => vpc' # "invalid"
        BY <3>3, <3>4, <4>1
      <4>3. QED
        BY <3>1, <3>2, <4>2 DEF AcceptsPlots
  <2>3. CASE vpc' = "invalid" /\ ~Check
    <3>1. ~(vpc = "idle" /\ WriterNext /\ UNCHANGED verifyVars)
      BY <2>3 DEF verifyVars
    <3>2. ~Damage
      BY <2>3 DEF Damage
    <3>3. ~Batch /\ ~CompareScoop
      BY <2>3 DEF Batch, CompareScoop
    <3>4. UNCHANGED <<vars, verifyVars>>
      BY <1>2, <2>3, <3>1, <3>2, <3>3 DEF Next, Verify
    <3>5. init_nonces' = init_nonces /\ size' = size /\ vpc' = vpc
      BY <3>4, SameUse DEF vars, writerVars, constVars, fileVars, verifyVars, size
    <3>6. QED
      BY <1>2, <3>5 DEF AcceptsPlots
  <2>4. QED
    BY <2>1, <2>2, <2>3
<1>3. QED
  BY <1>1, <1>2, BaseAlways, PTL DEF Spec
=============================================================================
