----------------------------- MODULE MegaProofs -----------------------------
(***************************************************************************)
(* Theorems about decryptMegaFileInPlace: the MAC is MEGA's for every size *)
(* of block, chunk, read and file, and only verified ciphertext is         *)
(* replaced.                                                               *)
(***************************************************************************)
EXTENDS MegaDecryptor, FiniteSetTheorems, TLAPS

----------------------------------------------------------------------------
(* Arithmetic.                                                             *)

(* Quotient and remainder.                                                 *)
LEMMA DivMod ==
    ASSUME NEW n \in Nat, NEW b \in Nat \ {0}
    PROVE  /\ n \div b \in Nat /\ n % b \in 0 .. b - 1
           /\ n = b * (n \div b) + (n % b)
OBVIOUS

(* There is only one way to divide.                                        *)
LEMMA DivUnique ==
    ASSUME NEW b \in Nat \ {0}, NEW q \in Nat, NEW r \in 0 .. b - 1,
           NEW p \in Nat, NEW s \in 0 .. b - 1, b * q + r = b * p + s
    PROVE  q = p /\ r = s
<1>1. b * (q - p) = s - r
  OBVIOUS
<1>2. CASE q > p
  <2>1. b * (q - p) >= b
    BY <1>2
  <2> QED  BY <1>1, <2>1
<1>3. CASE q < p
  <2>1. b * (p - q) >= b
    BY <1>3
  <2>2. b * (p - q) = r - s
    BY <1>1
  <2> QED  BY <2>2, <2>1
<1>4. CASE q = p
  BY <1>4
<1> QED
  BY <1>2, <1>3, <1>4

(* Blocks that are filled in two goes are filled as in one.                *)
LEMMA AddBlocks ==
    ASSUME NEW x \in Nat, NEW n \in Nat, NEW b \in Nat \ {0}
    PROVE  /\ x \div b + ((x % b) + n) \div b = (x + n) \div b
           /\ ((x % b) + n) % b = (x + n) % b
<1> DEFINE q == x \div b
           r == x % b
<1>1. q \in Nat /\ r \in 0 .. b - 1 /\ x = b * q + r
  BY DivMod
<1>2. r + n \in Nat /\ x + n \in Nat
  BY <1>1
<1> DEFINE q2 == (r + n) \div b
           r2 == (r + n) % b
           q3 == (x + n) \div b
           r3 == (x + n) % b
<1>3. q2 \in Nat /\ r2 \in 0 .. b - 1 /\ r + n = b * q2 + r2
  BY <1>2, DivMod
<1>4. q3 \in Nat /\ r3 \in 0 .. b - 1 /\ x + n = b * q3 + r3
  BY <1>2, DivMod
<1> HIDE DEF q, r, q2, r2, q3, r3
<1>5. b * (q + q2) + r2 = b * q3 + r3
  <2>1. b * (q + q2) = b * q + b * q2
    BY <1>1, <1>3
  <2>2. b * q \in Nat /\ b * q2 \in Nat /\ b * q3 \in Nat
    BY <1>1, <1>3, <1>4
  <2> QED
    BY <1>1, <1>3, <1>4, <2>1, <2>2
<1>6. q + q2 \in Nat
  BY <1>1, <1>3
<1>7. q + q2 = q3 /\ r2 = r3
  BY <1>3, <1>4, <1>5, <1>6, DivUnique
<1> QED
  BY <1>7 DEF q, r, q2, r2, q3, r3

(* Multiplication is monotonic.                                            *)
LEMMA TimesMono ==
    ASSUME NEW u \in Nat, NEW a \in Nat, NEW b \in Nat, a <= b
    PROVE  u * a <= u * b
<1>1. u * (b - a) >= 0
  OBVIOUS
<1> QED
  BY <1>1

----------------------------------------------------------------------------
(* The chunks.                                                             *)

(* ChunkStart in units: 0, 1, 3, 6, ..., 36, 44, 52, ...                   *)
Units(k) == IF k <= 8 THEN (k * (k + 1)) \div 2 ELSE 36 + 8 * (k - 8)

(* A chunk is not empty.                                                   *)
LEMMA UnitPositive == Unit \in Nat \ {0}
BY MegaAssumption DEF Unit

(* The number of units before each of the first chunks.                    *)
LEMMA UnitsTable ==
    /\ Units(0) = 0 /\ Units(1) = 1 /\ Units(2) = 3 /\ Units(3) = 6 /\ Units(4) = 10
    /\ Units(5) = 15 /\ Units(6) = 21 /\ Units(7) = 28 /\ Units(8) = 36
BY DEF Units

(* The chunks grow by a unit up to the eighth and stay.                    *)
LEMMA UnitsStep ==
    ASSUME NEW k \in Nat
    PROVE  /\ Units(k) \in Nat /\ Units(k) >= k
           /\ Units(k + 1) = Units(k) + (IF k < 8 THEN k + 1 ELSE 8)
<1>1. CASE k \in 0 .. 8
  <2>1. k = 0 \/ k = 1 \/ k = 2 \/ k = 3 \/ k = 4 \/ k = 5 \/ k = 6 \/ k = 7 \/ k = 8
    BY <1>1
  <2>2. Units(9) = 44
    BY DEF Units
  <2> QED
    BY <2>1, <2>2, UnitsTable
<1>2. CASE k > 8
  BY <1>2 DEF Units
<1> QED
  BY <1>1, <1>2

(* Later chunks start later.                                               *)
LEMMA UnitsMono ==
    ASSUME NEW i \in Nat, NEW k \in Nat, i <= k
    PROVE  Units(i) <= Units(k)
<1>1. CASE k \in 0 .. 8
  <2>1. k = 0 \/ k = 1 \/ k = 2 \/ k = 3 \/ k = 4 \/ k = 5 \/ k = 6 \/ k = 7 \/ k = 8
    BY <1>1
  <2>2. i = 0 \/ i = 1 \/ i = 2 \/ i = 3 \/ i = 4 \/ i = 5 \/ i = 6 \/ i = 7 \/ i = 8
    BY <1>1
  <2> QED
    BY <2>1, <2>2, UnitsTable
<1>2. CASE k > 8 /\ i > 8
  BY <1>2 DEF Units
<1>3. CASE k > 8 /\ i <= 8
  <2>1. i = 0 \/ i = 1 \/ i = 2 \/ i = 3 \/ i = 4 \/ i = 5 \/ i = 6 \/ i = 7 \/ i = 8
    BY <1>3
  <2>2. Units(k) >= 36
    BY <1>3 DEF Units
  <2>3. Units(k) \in Nat
    BY UnitsStep
  <2> QED
    BY <2>1, <2>2, <2>3, UnitsTable
<1> QED
  BY <1>1, <1>2, <1>3

(* ChunkStart is Units in bytes.                                           *)
LEMMA ChunkStartUnits ==
    ASSUME NEW k \in Nat
    PROVE  ChunkStart(k) = Unit * Units(k)
<1>1. CASE k <= 8
  BY <1>1 DEF ChunkStart, Units
<1>2. CASE k > 8
  <2>1. Unit * (36 + 8 * (k - 8)) = Unit * 36 + (k - 8) * (8 * Unit)
    BY UnitPositive, <1>2
  <2> QED
    BY <1>2, <2>1 DEF ChunkStart, Units
<1> QED
  BY <1>1, <1>2

(* What the loop of Write needs to know of the chunks.                     *)
LEMMA Chunks ==
    ASSUME NEW k \in Nat
    PROVE  /\ ChunkStart(0) = 0
           /\ ChunkStart(k) \in Nat /\ ChunkStart(k) >= k
           /\ MegaChunkSize(k) \in Nat \ {0}
           /\ ChunkStart(k + 1) = ChunkStart(k) + MegaChunkSize(k)
<1> DEFINE step == IF k < 8 THEN k + 1 ELSE 8
<1>1. MegaChunkSize(k) = Unit * step
  BY UnitPositive DEF MegaChunkSize
<1>2. Units(k) \in Nat /\ Units(k) >= k /\ Units(k + 1) = Units(k) + step
  BY UnitsStep
<1>3. step \in Nat \ {0}
  OBVIOUS
<1> HIDE DEF step
<1>4. Unit * (Units(k) + step) = Unit * Units(k) + Unit * step
  BY UnitPositive, <1>2, <1>3
<1>5. ChunkStart(k) = Unit * Units(k) /\ ChunkStart(k + 1) = Unit * Units(k + 1)
  BY ChunkStartUnits
<1>6. ChunkStart(0) = 0
  BY ChunkStartUnits, UnitsTable, UnitPositive
<1>7. Unit * Units(k) \in Nat /\ Unit * Units(k) >= k
  BY UnitPositive, <1>2
<1>8. Unit * step \in Nat \ {0}
  BY UnitPositive, <1>3
<1> QED
  BY <1>1, <1>2, <1>4, <1>5, <1>6, <1>7, <1>8

(* Chunk boundaries are in order.                                          *)
LEMMA ChunksInOrder ==
    ASSUME NEW i \in Nat, NEW k \in Nat, i <= k
    PROVE  ChunkStart(i) <= ChunkStart(k)
<1>1. Units(i) \in Nat /\ Units(k) \in Nat /\ Units(i) <= Units(k)
  BY UnitsStep, UnitsMono
<1> QED
  BY <1>1, UnitPositive, TimesMono, ChunkStartUnits

(* The MACs of the first k chunks.                                         *)
Whole(k) == [i \in 1 .. k |-> ChunkOf(ChunkStart(i) - ChunkStart(i - 1))]

(* The MAC of a file that ends in chunk k, counted from 0, or just before. *)
LEMMA ReferenceOf ==
    ASSUME NEW n \in Nat, NEW k \in Nat, ChunkStart(k) <= n, n < ChunkStart(k + 1)
    PROVE  ReferenceMAC(n) =
               IF n = ChunkStart(k) THEN Whole(k)
                                    ELSE Append(Whole(k), ChunkOf(n - ChunkStart(k)))
<1> DEFINE full == {i \in 1 .. n : ChunkStart(i) <= n}
<1>1. full = 1 .. k
  <2>1. ASSUME NEW i \in 1 .. k PROVE i \in full
    <3>0. i \in Nat /\ i >= 1 /\ i <= k
      OBVIOUS
    <3>1. ChunkStart(i) <= ChunkStart(k) /\ ChunkStart(i) \in Nat /\ ChunkStart(k) \in Nat
      BY <3>0, ChunksInOrder, Chunks
    <3>2. i \in Nat /\ i >= 1 /\ ChunkStart(i) >= i
      BY <3>0, Chunks
    <3>3. ChunkStart(i) <= n
      BY <3>1
    <3>4. i \in 1 .. n
      BY <3>1, <3>2, <3>3
    <3> QED
      BY <3>3, <3>4
  <2>2. ASSUME NEW i \in full PROVE i \in 1 .. k
    <3>1. i \in Nat /\ i >= 1
      OBVIOUS
    <3>2. CASE i >= k + 1
      <4>1. ChunkStart(k + 1) <= ChunkStart(i) /\ ChunkStart(i) \in Nat
            /\ ChunkStart(k + 1) \in Nat
        BY <3>1, <3>2, ChunksInOrder, Chunks
      <4> QED
        BY <4>1
    <3> QED
      BY <3>1, <3>2
  <2> QED
    BY <2>1, <2>2
<1>2. Cardinality(full) = k
  <2>1. Cardinality(1 .. k) = IF 1 > k THEN 0 ELSE k - 1 + 1
    BY FS_Interval
  <2>2. Cardinality(1 .. k) = k
    BY <2>1
  <2> QED
    BY <1>1, <2>2
<1>3. ChunkStart(k) \in Nat
  BY Chunks
<1> HIDE DEF full
<1>4. ReferenceMAC(n) = IF n - ChunkStart(Cardinality(full)) = 0
                          THEN Whole(Cardinality(full))
                          ELSE Append(Whole(Cardinality(full)),
                                      ChunkOf(n - ChunkStart(Cardinality(full))))
  BY DEF ReferenceMAC, Whole, full
<1> QED
  BY <1>2, <1>3, <1>4

----------------------------------------------------------------------------
(* The calculator.                                                         *)

CalculatorType(F) ==
    [fileMAC : F, blocks : Nat, pendingLen : Nat, chunkIndex : Nat,
     chunkRemaining : Int, chunkHasData : BOOLEAN]

InChunk(p, k) == ChunkStart(k) <= p /\ p < ChunkStart(k + 1)

(* The calculator has taken p bytes and is in chunk k.                     *)
MacAt(m, p, k) ==
    /\ m \in CalculatorType({Whole(k)})
    /\ m.blocks = (p - ChunkStart(k)) \div BlockSize
    /\ m.pendingLen = (p - ChunkStart(k)) % BlockSize
    /\ m.chunkIndex = k
    /\ m.chunkRemaining = ChunkStart(k + 1) - p
    /\ m.chunkHasData <=> p # ChunkStart(k)

(* What a round of Write does before it looks for the end of the chunk.    *)
Taken(m, n) == [WriteChunkBytes(m, n) EXCEPT !.chunkRemaining = @ - n]

(* Whole blocks and the bytes left over are numbers.                       *)
LEMMA Blocks ==
    ASSUME NEW n \in Nat
    PROVE  n \div BlockSize \in Nat /\ n % BlockSize \in Nat
<1>1. BlockSize \in Nat \ {0}
  BY MegaAssumption
<1>2. n % BlockSize \in 0 .. BlockSize - 1 /\ n \div BlockSize \in Nat
  BY <1>1, DivMod
<1> QED
  BY <1>1, <1>2

(* What that does to the fields.                                           *)
LEMMA WriteFields ==
    ASSUME NEW F, NEW c \in CalculatorType(F), NEW n \in Nat
    PROVE  LET w == Taken(c, n) IN
           /\ w \in CalculatorType(F)
           /\ w.fileMAC = c.fileMAC
           /\ w.blocks = c.blocks + (c.pendingLen + n) \div BlockSize
           /\ w.pendingLen = (c.pendingLen + n) % BlockSize
           /\ w.chunkIndex = c.chunkIndex
           /\ w.chunkRemaining = c.chunkRemaining - n
           /\ w.chunkHasData = TRUE
<1> DEFINE q == c.blocks + (c.pendingLen + n) \div BlockSize
           t == (c.pendingLen + n) % BlockSize
           m == WriteChunkBytes(c, n)
<1>1. c.pendingLen \in Nat /\ c.blocks \in Nat /\ c.chunkRemaining \in Int
  BY DEF CalculatorType
<1>2. q \in Nat /\ t \in Nat
  <2> DEFINE z == c.pendingLen + n
  <2>1. z \in Nat
    BY <1>1
  <2> HIDE DEF z
  <2>2. z \div BlockSize \in Nat /\ z % BlockSize \in Nat
    BY <2>1, Blocks
  <2>3. c.blocks + z \div BlockSize \in Nat
    BY <1>1, <2>2
  <2> QED
    BY <2>2, <2>3 DEF z
<1>3. m = [c EXCEPT !.blocks = q, !.pendingLen = t, !.chunkHasData = TRUE]
  BY DEF WriteChunkBytes
<1> HIDE DEF q, t, m
<1>4. m \in CalculatorType(F)
  BY <1>2, <1>3 DEF CalculatorType
<1>5. /\ m.fileMAC = c.fileMAC /\ m.blocks = q /\ m.pendingLen = t
      /\ m.chunkIndex = c.chunkIndex /\ m.chunkRemaining = c.chunkRemaining
      /\ m.chunkHasData = TRUE
  BY <1>2, <1>3 DEF CalculatorType
<1> DEFINE u == m.chunkRemaining - n
<1>6. u \in Int /\ u = c.chunkRemaining - n
  BY <1>1, <1>5
<1>7. Taken(c, n) = [m EXCEPT !.chunkRemaining = u]
  BY DEF Taken, m
<1> HIDE DEF u
<1> DEFINE w == Taken(c, n)
<1> HIDE DEF w
<1>8. w \in CalculatorType(F)
  BY <1>4, <1>6, <1>7 DEF CalculatorType, w
<1>9. /\ w.fileMAC = m.fileMAC /\ w.blocks = m.blocks /\ w.pendingLen = m.pendingLen
      /\ w.chunkIndex = m.chunkIndex /\ w.chunkRemaining = u
      /\ w.chunkHasData = m.chunkHasData
  BY <1>4, <1>6, <1>7 DEF CalculatorType, w
<1>10. /\ w.fileMAC = c.fileMAC /\ w.blocks = q /\ w.pendingLen = t
       /\ w.chunkIndex = c.chunkIndex /\ w.chunkRemaining = c.chunkRemaining - n
       /\ w.chunkHasData = TRUE
  BY <1>5, <1>6, <1>9
<1> QED
  BY <1>8, <1>10 DEF q, t, w

(* At the end of a chunk its MAC joins the file's.                         *)
LEMMA NextFields ==
    ASSUME NEW F, NEW c \in CalculatorType(F), c.chunkHasData = TRUE,
           MegaChunkSize(c.chunkIndex + 1) \in Int
    PROVE  LET w == NextChunk(c)
               f == Append(c.fileMAC, [blocks |-> c.blocks, tail |-> c.pendingLen]) IN
           /\ w \in CalculatorType({f})
           /\ w.blocks = 0 /\ w.pendingLen = 0
           /\ w.chunkIndex = c.chunkIndex + 1
           /\ w.chunkRemaining = MegaChunkSize(c.chunkIndex + 1)
           /\ w.chunkHasData = FALSE
<1> DEFINE f == Append(c.fileMAC, [blocks |-> c.blocks, tail |-> c.pendingLen])
           m == FinalizeChunk(c)
           u == c.chunkIndex + 1
           s == MegaChunkSize(u)
           w == NextChunk(c)
<1>1. m = [c EXCEPT !.fileMAC = f, !.pendingLen = 0, !.chunkHasData = FALSE]
  BY DEF FinalizeChunk
<1>2. s \in Int /\ u \in Nat
  BY DEF CalculatorType
<1> HIDE DEF f, m
<1>3. m \in CalculatorType({f})
  BY <1>1 DEF CalculatorType
<1>4. /\ m.chunkIndex = c.chunkIndex /\ m.pendingLen = 0 /\ m.chunkHasData = FALSE
  BY <1>1 DEF CalculatorType
<1>5. w = [m EXCEPT !.chunkIndex = @ + 1, !.blocks = 0, !.chunkRemaining = s]
  BY DEF NextChunk, m
<1>6. w = [m EXCEPT !.chunkIndex = u, !.blocks = 0, !.chunkRemaining = s]
  BY <1>4, <1>5, Zenon
<1> HIDE DEF w, u, s
<1>7. w \in CalculatorType({f})
  BY <1>2, <1>3, <1>6 DEF CalculatorType
<1>8. /\ w.blocks = 0 /\ w.pendingLen = m.pendingLen /\ w.chunkIndex = u
      /\ w.chunkRemaining = s /\ w.chunkHasData = m.chunkHasData
  BY <1>2, <1>3, <1>6 DEF CalculatorType
<1> QED
  BY <1>4, <1>7, <1>8 DEF w, u, s, f

(* A chunk is added to those before it.                                    *)
LEMMA WholeStep ==
    ASSUME NEW k \in Nat
    PROVE  Append(Whole(k), ChunkOf(ChunkStart(k + 1) - ChunkStart(k))) = Whole(k + 1)
<1> DEFINE C(i) == ChunkOf(ChunkStart(i) - ChunkStart(i - 1))
           S == {C(i) : i \in 1 .. k + 1}
<1>1. Whole(k) = [i \in 1 .. k |-> C(i)] /\ Whole(k + 1) = [i \in 1 .. k + 1 |-> C(i)]
  BY DEF Whole
<1>2. C(k + 1) = ChunkOf(ChunkStart(k + 1) - ChunkStart(k))
  OBVIOUS
<1>3. \A i \in 1 .. k : i \in 1 .. k + 1
  OBVIOUS
<1>4. [i \in 1 .. k |-> C(i)] \in [1 .. k -> S]
  BY <1>3
<1> HIDE DEF C, S
<1>5. [i \in 1 .. k |-> C(i)] \in Seq(S) /\ Len([i \in 1 .. k |-> C(i)]) = k
  BY <1>4
<1>6. Append([i \in 1 .. k |-> C(i)], C(k + 1)) = [i \in 1 .. k + 1 |-> C(i)]
  BY <1>5
<1> QED
  BY <1>1, <1>2, <1>6

(* The calculator starts before the first byte.                            *)
LEMMA MacStart == MacAt(NewMegaMACCalculator, 0, 0) /\ InChunk(0, 0)
<1>1. ChunkStart(0) = 0 /\ ChunkStart(0 + 1) = ChunkStart(0) + MegaChunkSize(0)
      /\ MegaChunkSize(0) \in Nat \ {0}
  BY Chunks
<1>2. ChunkStart(1) = MegaChunkSize(0)
  BY <1>1
<1>3. 0 \div BlockSize = 0 /\ 0 % BlockSize = 0
  BY MegaAssumption
<1>4. Whole(0) = <<>>
  BY DEF Whole
<1>5. 0 - ChunkStart(0) = 0 /\ ChunkStart(0 + 1) - 0 = MegaChunkSize(0)
  BY <1>1, <1>2
<1>6. NewMegaMACCalculator \in CalculatorType({Whole(0)})
  BY <1>1, <1>4 DEF NewMegaMACCalculator, CalculatorType
<1>7. MacAt(NewMegaMACCalculator, 0, 0)
  BY <1>1, <1>3, <1>5, <1>6 DEF MacAt, NewMegaMACCalculator
<1>8. InChunk(0, 0)
  BY <1>1, <1>2 DEF InChunk
<1> QED
  BY <1>7, <1>8

(* One round of the loop of Write takes at least a byte and leaves the     *)
(* calculator where it has to be.                                          *)
LEMMA MacRound ==
    ASSUME NEW m, NEW p \in Nat, NEW k \in Nat, InChunk(p, k), MacAt(m, p, k),
           NEW n \in Nat \ {0}
    PROVE  /\ Take(m, n) \in 1 .. n
           /\ \E i \in Nat : /\ InChunk(p + Take(m, n), i)
                            /\ MacAt(WriteRound(m, Take(m, n)), p + Take(m, n), i)
<1> DEFINE take == Take(m, n)
           x == p - ChunkStart(k)
           rest == ChunkStart(k + 1) - p
           F == {Whole(k)}
<1>1. /\ ChunkStart(k) \in Nat /\ ChunkStart(k + 1) \in Nat /\ ChunkStart(k + 1 + 1) \in Nat
      /\ MegaChunkSize(k + 1) \in Nat \ {0}
      /\ ChunkStart(k + 1 + 1) = ChunkStart(k + 1) + MegaChunkSize(k + 1)
  BY Chunks
<1>2. x \in Nat /\ rest \in Nat \ {0}
  BY <1>1 DEF InChunk
<1>3. /\ m \in CalculatorType(F) /\ m.fileMAC = Whole(k)
      /\ m.blocks = x \div BlockSize /\ m.pendingLen = x % BlockSize
      /\ m.chunkIndex = k /\ m.chunkRemaining = rest
  BY DEF MacAt, CalculatorType
<1>4. take = IF n > rest THEN rest ELSE n
  BY <1>3 DEF Take
<1>5. take \in 1 .. n /\ take \in Nat \ {0} /\ take \in Nat /\ take <= rest
  BY <1>2, <1>4
<1>6. BlockSize \in Nat \ {0}
  BY MegaAssumption
<1> DEFINE w == Taken(m, take)
           b == (x + take) \div BlockSize
           l == (x + take) % BlockSize
<1>7. x = p - ChunkStart(k) /\ rest = ChunkStart(k + 1) - p /\ ChunkStart(k) <= p
  BY DEF InChunk
<1> HIDE DEF take, x, rest, F
<1>8. /\ w \in CalculatorType(F) /\ w.fileMAC = Whole(k)
      /\ w.blocks = m.blocks + (m.pendingLen + take) \div BlockSize
      /\ w.pendingLen = (m.pendingLen + take) % BlockSize
      /\ w.chunkIndex = k /\ w.chunkRemaining = m.chunkRemaining - take
      /\ w.chunkHasData = TRUE
  BY <1>3, <1>5, WriteFields
<1>9. w.blocks = b /\ w.pendingLen = l /\ w.chunkRemaining = rest - take
  <2>1. /\ x \div BlockSize + ((x % BlockSize) + take) \div BlockSize = b
        /\ ((x % BlockSize) + take) % BlockSize = l
    BY <1>2, <1>5, <1>6, AddBlocks
  <2> HIDE DEF w, b, l
  <2> QED
    BY <1>3, <1>8, <2>1
<1>10. WriteRound(m, take) = IF rest - take = 0 THEN NextChunk(w) ELSE w
  BY <1>9 DEF WriteRound, Taken
<1>11. ChunkOf(x + take) = [blocks |-> b, tail |-> l]
  BY DEF ChunkOf
<1> HIDE DEF w
<1> DEFINE z == p + take
<1>z. z \in Nat /\ z = p + take
  BY <1>5
<1> HIDE DEF z
<1>12. CASE take < rest
  <2>1. WriteRound(m, take) = w
    BY <1>10, <1>12, <1>5, <1>2
  <2>2. InChunk(z, k)
    BY <1>1, <1>7, <1>z, <1>5, <1>12 DEF InChunk
  <2>3. /\ z - ChunkStart(k) = x + take
        /\ ChunkStart(k + 1) - z = rest - take
        /\ z # ChunkStart(k)
    BY <1>1, <1>7, <1>z, <1>5
  <2>4. MacAt(w, z, k)
    <3>1. w.blocks = (z - ChunkStart(k)) \div BlockSize
      BY <1>9, <2>3, Zenon
    <3>2. w.pendingLen = (z - ChunkStart(k)) % BlockSize
      BY <1>9, <2>3, Zenon
    <3>3. w.chunkRemaining = ChunkStart(k + 1) - z
      BY <1>9, <2>3, Zenon
    <3>4. w.chunkHasData <=> z # ChunkStart(k)
      BY <1>8, <2>3
    <3>5. w \in CalculatorType({Whole(k)}) /\ w.chunkIndex = k
      BY <1>8 DEF F
    <3> QED
      BY <3>1, <3>2, <3>3, <3>4, <3>5 DEF MacAt
  <2> QED
    BY <1>5, <2>1, <2>2, <2>4, Zenon DEF take, z
<1>13. CASE take = rest
  <2> DEFINE v == NextChunk(w)
             s == MegaChunkSize(k + 1)
             f == Append(Whole(k), [blocks |-> b, tail |-> l])
  <2>1. WriteRound(m, take) = v
    BY <1>10, <1>13, <1>5, <1>2
  <2>2. z = ChunkStart(k + 1) /\ x + take = ChunkStart(k + 1) - ChunkStart(k)
    BY <1>1, <1>7, <1>z, <1>5, <1>13
  <2>3. InChunk(z, k + 1)
    BY <1>1, <2>2 DEF InChunk
  <2>4. /\ v \in CalculatorType({f}) /\ v.blocks = 0 /\ v.pendingLen = 0
        /\ v.chunkIndex = k + 1 /\ v.chunkRemaining = s /\ v.chunkHasData = FALSE
    <3>1. MegaChunkSize(w.chunkIndex + 1) \in Int
      BY <1>1, <1>8
    <3>2. LET g == Append(w.fileMAC, [blocks |-> w.blocks, tail |-> w.pendingLen]) IN
          /\ v \in CalculatorType({g}) /\ v.blocks = 0 /\ v.pendingLen = 0
          /\ v.chunkIndex = w.chunkIndex + 1
          /\ v.chunkRemaining = MegaChunkSize(w.chunkIndex + 1) /\ v.chunkHasData = FALSE
      BY <1>8, <3>1, NextFields
    <3> HIDE DEF v, b, l
    <3> QED
      BY <1>8, <1>9, <3>2
  <2>5. f = Whole(k + 1)
    BY <1>11, <2>2, WholeStep
  <2>6. 0 \div BlockSize = 0 /\ 0 % BlockSize = 0
    BY <1>6
  <2>7. /\ z - ChunkStart(k + 1) = 0
        /\ ChunkStart(k + 1 + 1) - z = s
    BY <1>1, <1>z, <2>2
  <2> HIDE DEF v, s, f
  <2>8. MacAt(v, z, k + 1)
    <3>1. /\ v.blocks = (z - ChunkStart(k + 1)) \div BlockSize
          /\ v.pendingLen = (z - ChunkStart(k + 1)) % BlockSize
          /\ v.chunkRemaining = ChunkStart(k + 1 + 1) - z
      BY <2>4, <2>6, <2>7, Zenon
    <3>2. v \in CalculatorType({Whole(k + 1)})
      BY <2>4, <2>5, Zenon
    <3>3. v.chunkHasData <=> z # ChunkStart(k + 1)
      BY <2>2, <2>4
    <3> QED
      BY <2>4, <3>1, <3>2, <3>3 DEF MacAt
  <2>9. k + 1 \in Nat
    OBVIOUS
  <2> QED
    BY <1>5, <2>1, <2>3, <2>8, <2>9, Zenon DEF take, z
<1> QED
  BY <1>5, <1>2, <1>12, <1>13

(* Finished after p bytes, the MAC is that of a file of p bytes.           *)
LEMMA MacEnd ==
    ASSUME NEW m, NEW p \in Nat, NEW k \in Nat, InChunk(p, k), MacAt(m, p, k)
    PROVE  FinalizeChunk(m).fileMAC = ReferenceMAC(p)
<1>1. ReferenceMAC(p) = IF p = ChunkStart(k) THEN Whole(k)
                          ELSE Append(Whole(k), ChunkOf(p - ChunkStart(k)))
  BY ReferenceOf DEF InChunk
<1>2. m.fileMAC = Whole(k)
  BY DEF MacAt, CalculatorType
<1> DEFINE c == [blocks |-> m.blocks, tail |-> m.pendingLen]
<1>3. ChunkOf(p - ChunkStart(k)) = c
  BY DEF MacAt, ChunkOf
<1> HIDE DEF c
<1>4. CASE p = ChunkStart(k)
  BY <1>1, <1>2, <1>4 DEF MacAt, FinalizeChunk
<1>5. CASE p # ChunkStart(k)
  <2>1. FinalizeChunk(m) = [m EXCEPT !.fileMAC = Append(@, c), !.pendingLen = 0,
                                     !.chunkHasData = FALSE]
    BY <1>5 DEF MacAt, FinalizeChunk, c
  <2>2. FinalizeChunk(m).fileMAC = Append(Whole(k), c)
    BY <1>2, <2>1 DEF MacAt, CalculatorType
  <2> QED
    BY <1>1, <1>3, <1>5, <2>2
<1> QED
  BY <1>4, <1>5

----------------------------------------------------------------------------
(* decryptMegaFileInPlace.                                                 *)

Working == pc \in {"read", "sum", "rename"}

(* How far the reads have come; the temporary file has what was read, and  *)
(* with a MAC only uploaded ciphertext gets to the rename.                 *)
ReadInv ==
    /\ size \in Nat /\ pos \in Nat /\ left \in Nat /\ left <= pos /\ pos <= size
    /\ Working => temp = pos
    /\ pc \in {"sum", "rename"} => pos = size /\ left = 0
    /\ pc = "sum" => Verify
    /\ ~ Verify => left = 0
    /\ (pc = "rename" /\ Verify) => content = "cipher"

(* The calculator has taken what was read and is no longer left.           *)
MacInv ==
    (Verify /\ Working) => \E k \in Nat : InChunk(pos - left, k) /\ MacAt(mac, pos - left, k)

MegaInv == ReadInv /\ MacInv

(* The invariant holds at first.                                           *)
LEMMA InitMega == Init => MegaInv
BY MegaAssumption DEF Init, MegaInv, ReadInv, MacInv, Working

(* A call starts with a fresh calculator and an empty temporary file.      *)
LEMMA StartMega == MegaInv /\ Start => MegaInv'
<1> SUFFICES ASSUME MegaInv, Start PROVE MegaInv'
  OBVIOUS
<1>1. ReadInv'
  BY DEF MegaInv, ReadInv, Start, Goto, Working, Verify
<1>2. pos' - left' = 0 /\ mac' = NewMegaMACCalculator
  BY DEF Start
<1>3. MacInv'
  BY <1>2, MacStart DEF MacInv
<1> QED
  BY <1>1, <1>3 DEF MegaInv

(* A read adds to what is left; what the calculator has taken is the same. *)
LEMMA ReadMega ==
    ASSUME MegaInv, NEW n \in ReadSizes, Read(n)
    PROVE  MegaInv'
<1> DEFINE got == IF n < size - pos THEN n ELSE size - pos
<1>1. /\ pc = "read" /\ left = 0 /\ pos < size
      /\ pos' = pos + got /\ temp' = temp + got /\ left' = IF Verify THEN got ELSE 0
      /\ pc' = "read" /\ mac' = mac /\ Verify' = Verify /\ size' = size
  BY DEF Read, Goto, Verify
<1>2. n \in Nat /\ size \in Nat /\ pos \in Nat /\ temp = pos
  BY <1>1, MegaAssumption DEF MegaInv, ReadInv, Working
<1>3. got \in Nat /\ got <= size - pos
  BY <1>1, <1>2
<1> HIDE DEF got
<1>4. ReadInv'
  BY <1>1, <1>2, <1>3 DEF ReadInv, Working
<1>5. MacInv'
  <2>1. CASE Verify
    <3>1. pos' - left' = pos - left
      BY <1>1, <1>2, <1>3, <2>1
    <3>2. \E k \in Nat : InChunk(pos - left, k) /\ MacAt(mac, pos - left, k)
      BY <1>1, <2>1 DEF MegaInv, MacInv, Working
    <3> QED
      BY <1>1, <3>1, <3>2 DEF MacInv
  <2>2. CASE ~ Verify
    BY <1>1, <2>2 DEF MacInv
  <2> QED
    BY <2>1, <2>2
<1> QED
  BY <1>4, <1>5 DEF MegaInv

(* A round of Write takes bytes from what is left.                         *)
LEMMA WriteMega == MegaInv /\ WriteMAC => MegaInv'
<1> SUFFICES ASSUME MegaInv, WriteMAC PROVE MegaInv'
  OBVIOUS
<1> DEFINE take == Take(mac, left)
<1>1. /\ pc = "read" /\ left > 0 /\ mac' = WriteRound(mac, take) /\ left' = left - take
      /\ pc' = "read" /\ pos' = pos /\ temp' = temp /\ size' = size
      /\ Verify' = Verify /\ content' = content
  BY DEF WriteMAC, Goto, Verify
<1>2. left \in Nat \ {0} /\ pos \in Nat /\ size \in Nat /\ left <= pos
  BY <1>1 DEF MegaInv, ReadInv
<1>3. CASE Verify
  <2> DEFINE p == pos - left
  <2>1. PICK k \in Nat : InChunk(p, k) /\ MacAt(mac, p, k)
    BY <1>1, <1>3 DEF MegaInv, MacInv, Working
  <2>2. p \in Nat
    BY <1>2
  <2>3. p + (left - left') = pos - left'
    <3>1. left' \in Int
      <4> HIDE DEF p
      <4> QED  BY <1>1, <1>2, <2>1, <2>2, MacRound
    <3> QED
      BY <1>2, <3>1
  <2> HIDE DEF p
  <2>4. take \in 1 .. left /\ \E i \in Nat : InChunk(p + take, i) /\ MacAt(mac', p + take, i)
    BY <1>1, <1>2, <2>1, <2>2, MacRound
  <2> HIDE DEF take
  <2>5. left - left' = take /\ left' \in Nat /\ left' <= pos
    BY <1>1, <1>2, <2>4
  <2>6. p + take = pos' - left'
    BY <1>1, <2>3, <2>5
  <2>7. MacInv'
    BY <2>4, <2>6 DEF MacInv
  <2>8. ReadInv'
    BY <1>1, <1>2, <2>5 DEF MegaInv, ReadInv, Working
  <2> QED
    BY <2>7, <2>8 DEF MegaInv
<1>4. CASE ~ Verify
  <2>1. left = 0
    BY <1>4, <1>1 DEF MegaInv, ReadInv
  <2> QED
    BY <1>2, <2>1
<1> QED
  BY <1>3, <1>4

(* With the invariant, finishing the MAC gives MEGA's MAC of what was      *)
(* taken.                                                                  *)
LEMMA MacCorrect == MegaInv => MacOfPrefix
<1> SUFFICES ASSUME MegaInv, Verify, Working
             PROVE  FinalizeChunk(mac).fileMAC = ReferenceMAC(pos - left)
  BY DEF MacOfPrefix, Working
<1> DEFINE p == pos - left
<1>1. PICK k \in Nat : InChunk(p, k) /\ MacAt(mac, p, k)
  BY DEF MegaInv, MacInv
<1>2. p \in Nat
  BY DEF MegaInv, ReadInv
<1> HIDE DEF p
<1>3. FinalizeChunk(mac).fileMAC = ReferenceMAC(p)
  BY <1>1, <1>2, MacEnd
<1> QED
  BY <1>3 DEF p

(* The comparison tells the uploaded ciphertext from anything else.        *)
Discerning == pc = "sum" => (MacMatches <=> content = "cipher")

(* At the end of the file the calculator has taken all of it.              *)
LEMMA SumDiscerns == MegaInv => Discerning
<1> SUFFICES ASSUME MegaInv, pc = "sum"
             PROVE  FinalizeChunk(mac).fileMAC = ReferenceMAC(size)
  BY DEF Discerning, MacMatches
<1>1. Verify /\ Working /\ pos - left = size
  BY DEF MegaInv, ReadInv, Working
<1> QED
  BY <1>1, MacCorrect DEF MacOfPrefix, Working

(* The steps that leave the position and the calculator alone.             *)
LEMMA OtherMega ==
    ASSUME MegaInv, BadKey \/ EndOfFile \/ CompareMAC \/ IOError \/ Rename \/ UNCHANGED vars
    PROVE  MegaInv'
<1>1. pos' = pos /\ left' = left /\ mac' = mac /\ size' = size /\ Verify' = Verify
  BY DEF BadKey, EndOfFile, CompareMAC, IOError, Rename, Fail, Goto, Verify, vars
<1>2. ReadInv /\ MacInv
  BY DEF MegaInv
<1>3. Working' => Working
  BY DEF Working, BadKey, EndOfFile, CompareMAC, IOError, Rename, Fail, Goto, vars
<1>4. MacInv'
  BY <1>1, <1>2, <1>3 DEF MacInv
<1>5. ReadInv'
  <2>1. CASE BadKey \/ IOError \/ Rename
    BY <1>1, <1>2, <2>1 DEF ReadInv, Working, BadKey, IOError, Fail, Goto, Rename
  <2>2. CASE EndOfFile
    BY <1>1, <1>2, <2>2 DEF ReadInv, Working, EndOfFile, Goto
  <2>3. CASE CompareMAC
    BY <1>1, <1>2, <2>3 DEF ReadInv, Working, CompareMAC, MacMatches, Fail, Goto
  <2>4. CASE UNCHANGED vars
    BY <1>1, <1>2, <2>4 DEF ReadInv, Working, vars
  <2> QED
    BY <2>1, <2>2, <2>3, <2>4
<1> QED
  BY <1>4, <1>5 DEF MegaInv

(* A crash ends the work.                                                  *)
LEMMA CrashMega == MegaInv /\ Crash => MegaInv'
BY DEF MegaInv, ReadInv, MacInv, Crash, Working, Verify

(* Every step preserves the invariant.                                     *)
LEMMA StepMega == MegaInv /\ [Next]_vars => MegaInv'
<1> SUFFICES ASSUME MegaInv, [Next]_vars PROVE MegaInv'
  OBVIOUS
<1>1. CASE \E n \in ReadSizes : Read(n)
  BY <1>1, ReadMega
<1>2. CASE Start \/ WriteMAC \/ Crash
  BY <1>2, StartMega, WriteMega, CrashMega
<1>3. CASE BadKey \/ EndOfFile \/ CompareMAC \/ IOError \/ Rename \/ UNCHANGED vars
  BY <1>3, OtherMega
<1> QED
  BY <1>1, <1>2, <1>3 DEF Next, Step

(* decryptMegaFileInPlace keeps the invariant.                             *)
LEMMA MegaInvariance == Spec => []MegaInv
BY InitMega, StepMega, PTL DEF Spec

(***************************************************************************)
(* The chunked MAC of Write, writeChunkBytes and finalizeChunk is MEGA's   *)
(* for every file, every size of block and unit, and every way the reads   *)
(* cut the file.                                                           *)
(***************************************************************************)
THEOREM MacOfPrefixHolds == Spec => []MacOfPrefix
BY MegaInvariance, MacCorrect, PTL

(***************************************************************************)
(* A download that arrived whole passes the comparison with the key's MAC, *)
(* and nothing else does (decryptMegaFileInPlace, Sum).                    *)
(***************************************************************************)
THEOREM ComparisonDiscerns == Spec => []Discerning
BY MegaInvariance, SumDiscerns, PTL

(***************************************************************************)
(* Only a verified download is replaced, and by its whole decryption: no   *)
(* number of calls, failures and crashes turns a damaged download into     *)
(* garbage or a decrypted file into ciphertext (decryptMegaFileInPlace).   *)
(***************************************************************************)
THEOREM ReplacedOnlyIfVerifiedHolds == Spec => ReplacedOnlyIfVerified
<1>1. MegaInv /\ [Next]_vars
        => [(content' # content \/ (pc # "done" /\ pc' = "done")) =>
               temp = size /\ (Verify => content = "cipher")]_vars
  <2> SUFFICES ASSUME MegaInv, Next, content' # content \/ (pc # "done" /\ pc' = "done")
               PROVE  temp = size /\ (Verify => content = "cipher")
    BY DEF vars
  <2>1. Rename
    BY DEF Next, Step, Start, BadKey, Read, WriteMAC, EndOfFile, CompareMAC, IOError,
           Crash, Fail, Goto
  <2> QED
    BY <2>1 DEF Rename, MegaInv, ReadInv, Working
<1> QED
  BY <1>1, MegaInvariance, PTL DEF Spec, ReplacedOnlyIfVerified

=============================================================================
