--------------------------- MODULE PacketsProofs ----------------------------
(***************************************************************************)
(* Proofs about Packets for all sizes of random blocks and signatures that *)
(* pass the assertion on the size of a demand.                             *)
(***************************************************************************)
EXTENDS Packets, TLAPS

-----------------------------------------------------------------------------
\* Writing and copying bytes.

LEMMA Written ==
    ASSUME NEW last, NEW p, DOMAIN p = 0..last, NEW i \in 0..last, NEW k
    PROVE  /\ DOMAIN Write(p, i, k) = 0..last
           /\ Num(Write(p, i, k), i) = k
           /\ \A j \in 0..last : j # i => Write(p, i, k)[j] = p[j] /\ Num(Write(p, i, k), j) = Num(p, j)
           /\ \A j \in DOMAIN p : j # i => Num(Write(p, i, k), j) = Num(p, j)
  BY DEF Write, Num, Number

LEMMA Copied ==
    ASSUME NEW p, NEW last \in Int, DOMAIN p = 0..last,
           NEW at \in Nat, NEW size \in Nat, at + size - 1 <= last,
           NEW what, NEW n
    PROVE  LET q == Copy(p, at, Block(what, n, size))
           IN /\ DOMAIN q = 0..last
              /\ View(q, at, size) = Block(what, n, size)
              /\ \A j \in 0..last : j < at \/ j >= at + size => q[j] = p[j]
<1> DEFINE b == Block(what, n, size)
<1> DEFINE q == Copy(p, at, b)
<1>1. DOMAIN b = 0..size - 1
  BY DEF Block
<1>2. q = [j \in 0..last |-> IF j - at \in 0..size - 1 THEN b[j - at] ELSE p[j]]
  BY <1>1 DEF Copy
<1>3. \A j \in 0..last : j < at \/ j >= at + size => q[j] = p[j]
  BY <1>2
<1>4. \A i \in 0..size - 1 : q[at + i] = b[i]
  <2>1. TAKE i \in 0..size - 1
  <2>2. at + i \in 0..last /\ (at + i) - at = i
    OBVIOUS
  <2>3. QED
    BY <1>2, <2>2
<1>5. View(q, at, size) = b
  BY <1>4 DEF View, Block
<1>6. QED
  BY <1>2, <1>3, <1>5

\* A view shows what is in the place only.
LEMMA ViewSame ==
    ASSUME NEW p, NEW q, NEW at \in Nat, NEW size \in Nat,
           \A j \in at..at + size - 1 : q[j] = p[j]
    PROVE  View(q, at, size) = View(p, at, size)
<1>1. \A i \in 0..size - 1 : at + i \in at..at + size - 1
  OBVIOUS
<1>2. QED
  BY <1>1 DEF View

LEMMA Fits ==
    ASSUME NEW p, NEW last \in Int, DOMAIN p = 0..last,
           NEW at \in Nat, NEW size \in Nat, at + size - 1 <= last
    PROVE  Inside(p, at, size)
  BY DEF Inside

LEMMA Zeroed ==
    ASSUME NEW size \in Nat
    PROVE  DOMAIN Zeros(size) = 0..size - 1
  BY DEF Zeros

LEMMA HashSizes == size_of_hash_type(1) = 32 /\ size_of_hash_type(Sha2_256) = 32
  BY DEF size_of_hash_type, Sha2_224, Sha2_256, Sha3_224, Sha3_256, Sha3_384, Sha3_512

LEMMA Small == \A k \in 0..255 : Byte(k) = k
  BY DEF Byte

LEMMA Signed == \A k \in -128..127 : AsInt8(Byte(k)) = k
  BY DEF AsInt8, Byte

\* Blocks of other sizes are other blocks.
LEMMA Blocks ==
    ASSUME NEW what, NEW n, NEW size \in Nat \ {0}
    PROVE  Block(what, n, size) # Empty
<1>1. 0 \in DOMAIN Block(what, n, size)
  BY DEF Block
<1>2. DOMAIN Empty = {}
  BY DEF Empty
<1>3. QED
  BY <1>1, <1>2

LEMMA Counted ==
    ASSUME NEW size \in 0..255, NEW b, DOMAIN b = 0..size - 1
    PROVE  SizeOf(b) = size /\ PacketSize(b) = size
<1>1. \A m \in 0..255 : 0..m - 1 = 0..size - 1 => m = size
  <2>1. SUFFICES ASSUME NEW m \in 0..255, 0..m - 1 = 0..size - 1, m # size PROVE FALSE
    OBVIOUS
  <2>2. CASE m < size
    <3>1. m \in 0..size - 1 /\ m \notin 0..m - 1
      BY <2>2
    <3>2. QED
      BY <2>1, <3>1
  <2>3. CASE size < m
    <3>1. size \in 0..m - 1 /\ size \notin 0..size - 1
      BY <2>3
    <3>2. QED
      BY <2>1, <3>1
  <2>4. QED
    BY <2>1, <2>2, <2>3
<1>2. QED
  BY <1>1 DEF SizeOf, PacketSize

-----------------------------------------------------------------------------
\* The sizes of the random block and of the signature, from the assumption.
LEMMA Bounds ==
    ASSUME NEW r \in RandomSizes, NEW s \in SignatureSizes
    PROVE  /\ r \in Nat \ {0} /\ s \in Nat \ {0}
           /\ r + s < 177
  BY PacketsAssumption

\* The demand: where everything is.
DemandLayout(p, n, r, s) ==
    /\ DOMAIN p = 0..38 + r + s
    /\ Num(p, 0) = 7 /\ Num(p, 1) = r
    /\ Num(p, 2) = 1
    /\ Num(p, 3) = 7 + r /\ Num(p, 4) = 32
    /\ Num(p, 5) = 39 + r /\ Num(p, 6) = s
    /\ View(p, 7, r) = Block("random", n, r)
    /\ View(p, 7 + r, 32) = Block("hash", n, 32)
    /\ View(p, 39 + r, s) = Block("signature", n, s)

LEMMA RandomInserted ==
    ASSUME NEW n, NEW r \in RandomSizes, NEW s \in SignatureSizes
    PROVE  LET p == InsertRandom(n, r, s)
           IN /\ DOMAIN p = 0..38 + r + s
              /\ Num(p, 0) = 7 /\ Num(p, 1) = r /\ Num(p, 2) = 1
              /\ View(p, 7, r) = Block("random", n, r)
<1> DEFINE last == 38 + r + s
<1> DEFINE p0 == Zeros(7 + r + 32 + s)
<1> DEFINE p1 == Write(p0, 2, 1)
<1> DEFINE p2 == Write(p1, 0, 7)
<1> DEFINE p3 == Write(p2, 1, r)
<1> DEFINE p4 == Copy(p3, 7, Block("random", n, r))
<1>1. r \in Nat \ {0} /\ s \in Nat \ {0} /\ last \in Int /\ 6 + r <= last
  BY Bounds
<1>2. InsertRandom(n, r, s) = p4
  BY HashSizes DEF InsertRandom, Demand, Sha2_256
<1>3. DOMAIN p0 = 0..last
  BY <1>1, Zeroed
<1>4. 0 \in 0..last /\ 1 \in 0..last /\ 2 \in 0..last
  BY <1>1
<1> HIDE DEF p0, last
<1>5. DOMAIN p1 = 0..last /\ Num(p1, 2) = 1
  BY <1>3, <1>4, Written
<1> HIDE DEF p1
<1>6. DOMAIN p2 = 0..last /\ Num(p2, 2) = 1 /\ Num(p2, 0) = 7
  BY <1>5, <1>4, Written
<1> HIDE DEF p2
<1>7. DOMAIN p3 = 0..last /\ Num(p3, 2) = 1 /\ Num(p3, 0) = 7 /\ Num(p3, 1) = r
  BY <1>6, <1>4, Written
<1> HIDE DEF p3
<1>8. /\ DOMAIN p4 = 0..last
      /\ View(p4, 7, r) = Block("random", n, r)
      /\ \A j \in 0..last : j < 7 \/ j >= 7 + r => p4[j] = p3[j]
  BY <1>1, <1>7, Copied
<1> HIDE DEF p4
<1>9. Num(p4, 0) = 7 /\ Num(p4, 1) = r /\ Num(p4, 2) = 1
  BY <1>4, <1>7, <1>8 DEF Num
<1>10. QED
  BY <1>2, <1>8, <1>9 DEF last

LEMMA HashInserted ==
    ASSUME NEW n, NEW r \in RandomSizes, NEW s \in SignatureSizes, NEW p,
           DOMAIN p = 0..38 + r + s,
           Num(p, 0) = 7, Num(p, 1) = r, Num(p, 2) = 1,
           View(p, 7, r) = Block("random", n, r)
    PROVE  LET q == InsertHash(p, n)
           IN /\ DOMAIN q = 0..38 + r + s
              /\ Num(q, 0) = 7 /\ Num(q, 1) = r /\ Num(q, 2) = 1
              /\ Num(q, 3) = 7 + r /\ Num(q, 4) = 32
              /\ View(q, 7, r) = Block("random", n, r)
              /\ View(q, 7 + r, 32) = Block("hash", n, 32)
<1> DEFINE last == 38 + r + s
<1> DEFINE p1 == Write(p, 3, 7 + r)
<1> DEFINE p2 == Write(p1, 4, 32)
<1> DEFINE q == Copy(p2, 7 + r, Block("hash", n, 32))
<1>1. r \in Nat \ {0} /\ s \in Nat \ {0} /\ r + s < 177
      /\ last \in Int /\ last = 38 + r + s
  BY Bounds
<1>2. Byte(7 + r) = 7 + r
  BY <1>1 DEF Byte
<1>3. InsertHash(p, n) = q
  BY <1>2, HashSizes DEF InsertHash, HashBlock, Demand
<1>4. \A j \in 0..6 : j \in 0..last
  BY <1>1
<1> HIDE DEF last
<1>5. /\ DOMAIN p1 = 0..last /\ Num(p1, 3) = 7 + r
      /\ \A j \in 0..last : j # 3 => p1[j] = p[j]
  BY <1>1, <1>4, Written
<1> HIDE DEF p1
<1>6. /\ DOMAIN p2 = 0..last /\ Num(p2, 4) = 32
      /\ \A j \in 0..last : j # 4 => p2[j] = p1[j]
  BY <1>1, <1>4, <1>5, Written, SMTT(30)
<1> HIDE DEF p2
<1>7a. PICK at \in Nat : at = 7 + r /\ at + 32 - 1 <= last
  BY <1>1
<1>7b. q = Copy(p2, at, Block("hash", n, 32))
  BY <1>7a
<1> HIDE DEF q
<1>7c. /\ DOMAIN q = 0..last
      /\ View(q, at, 32) = Block("hash", n, 32)
      /\ \A j \in 0..last : j < at \/ j >= at + 32 => q[j] = p2[j]
  BY <1>1, <1>7a, <1>7b, <1>6, Copied, SMTT(30)
<1>7. /\ DOMAIN q = 0..last
      /\ View(q, 7 + r, 32) = Block("hash", n, 32)
      /\ \A j \in 0..last : j < 7 + r \/ j >= 39 + r => q[j] = p2[j]
  BY <1>1, <1>7a, <1>7c
<1>8. \A j \in 7..7 + r - 1 : q[j] = p[j]
  BY <1>1, <1>5, <1>6, <1>7
<1>9. View(q, 7, r) = Block("random", n, r)
  BY <1>1, <1>8, ViewSame
<1>10. \A j \in 0..6 : q[j] = p2[j]
  BY <1>1, <1>4, <1>7
<1>11. /\ Num(q, 0) = Num(p, 0) /\ Num(q, 1) = Num(p, 1) /\ Num(q, 2) = Num(p, 2)
       /\ Num(q, 3) = Num(p1, 3) /\ Num(q, 4) = Num(p2, 4)
  BY <1>10, <1>4, <1>5, <1>6 DEF Num
<1>12. QED
  BY <1>1, <1>3, <1>5, <1>6, <1>7, <1>9, <1>11

THEOREM DemandLaidOut ==
    ASSUME NEW n, NEW r \in RandomSizes, NEW s \in SignatureSizes
    PROVE  DemandLayout(DemandPacket(n, r, s), n, r, s)
<1> DEFINE last == 38 + r + s
<1> DEFINE p == InsertHash(InsertRandom(n, r, s), n)
<1> DEFINE p1 == Write(p, 5, 39 + r)
<1> DEFINE p2 == Write(p1, 6, s)
<1> DEFINE q == Copy(p2, 39 + r, Block("signature", n, s))
<1>1. r \in Nat \ {0} /\ s \in Nat \ {0} /\ r + s < 177
      /\ last \in Int /\ last = 38 + r + s
  BY Bounds
<1>2. /\ DOMAIN p = 0..last
      /\ Num(p, 0) = 7 /\ Num(p, 1) = r /\ Num(p, 2) = 1
      /\ Num(p, 3) = 7 + r /\ Num(p, 4) = 32
      /\ View(p, 7, r) = Block("random", n, r)
      /\ View(p, 7 + r, 32) = Block("hash", n, 32)
  BY RandomInserted, HashInserted
<1> HIDE DEF p
<1>3. Byte(7 + r + 32) = 39 + r
  BY <1>1 DEF Byte
<1>4. DemandPacket(n, r, s) = q
  BY <1>2, <1>3 DEF DemandPacket, InsertSignature, Demand, p
<1>5. \A j \in 0..6 : j \in 0..last
  BY <1>1
<1> HIDE DEF last
<1>6. /\ DOMAIN p1 = 0..last /\ Num(p1, 5) = 39 + r
      /\ \A j \in 0..last : j # 5 => p1[j] = p[j]
  BY <1>1, <1>2, <1>5, Written, SMTT(30)
<1> HIDE DEF p1
<1>5a. 6 \in 0..last
  BY <1>5
<1>7. /\ DOMAIN p2 = 0..last /\ Num(p2, 6) = s
      /\ \A j \in 0..last : j # 6 => p2[j] = p1[j]
  BY <1>5a, <1>6 DEF Write, Num, Number
<1> HIDE DEF p2
<1>7a. PICK at \in Nat : at = 39 + r /\ at + s - 1 <= last
  BY <1>1
<1>7b. q = Copy(p2, at, Block("signature", n, s))
  BY <1>7a
<1> HIDE DEF q
<1>7c. /\ DOMAIN q = 0..last
      /\ View(q, at, s) = Block("signature", n, s)
      /\ \A j \in 0..last : j < at \/ j >= at + s => q[j] = p2[j]
  BY <1>1, <1>7a, <1>7b, <1>7, Copied
<1>8. /\ DOMAIN q = 0..last
      /\ View(q, 39 + r, s) = Block("signature", n, s)
      /\ \A j \in 0..last : j < 39 + r \/ j >= 39 + r + s => q[j] = p2[j]
  BY <1>1, <1>7a, <1>7c
<1>9. \A j \in 7..39 + r - 1 : q[j] = p[j]
  BY <1>1, <1>6, <1>7, <1>8
<1>10. View(q, 7, r) = Block("random", n, r)
  BY <1>1, <1>2, <1>9, ViewSame
<1>11. View(q, 7 + r, 32) = Block("hash", n, 32)
  BY <1>1, <1>2, <1>9, ViewSame
<1>12. \A j \in 0..6 : q[j] = p2[j]
  BY <1>1, <1>5, <1>8
<1>13. /\ Num(q, 0) = Num(p, 0) /\ Num(q, 1) = Num(p, 1) /\ Num(q, 2) = Num(p, 2)
       /\ Num(q, 3) = Num(p, 3) /\ Num(q, 4) = Num(p, 4)
       /\ Num(q, 5) = Num(p1, 5) /\ Num(q, 6) = Num(p2, 6)
  BY <1>12, <1>5, <1>6, <1>7 DEF Num
<1>14. QED
  BY <1>1, <1>2, <1>4, <1>6, <1>7, <1>8, <1>10, <1>11, <1>13 DEF DemandLayout

\* The token understands it.
LEMMA DemandUnderstood ==
    ASSUME NEW p, NEW n, NEW r \in RandomSizes, NEW s \in SignatureSizes,
           DemandLayout(p, n, r, s)
    PROVE  /\ p # Empty /\ Known(p, Demand)
           /\ HashInside(p, Demand) /\ SignatureInside(p, Demand) /\ RandomInside(p, Demand)
           /\ Verifies(p, Demand, HashBlock("hash", n), Block("signature", n, s))
           /\ View(p, Num(p, Demand.randomDataOffset), Num(p, Demand.randomDataSize))
              = Block("random", n, r)
<1> USE DEF DemandLayout
<1>1. r \in Nat \ {0} /\ s \in Nat \ {0}
  BY Bounds
<1>2. 0 \in DOMAIN p
  BY <1>1
<1>3. p # Empty
  BY <1>2 DEF Empty
<1>4. Known(p, Demand)
  BY DEF Known, Demand, ShaCount
<1>5. HashInside(p, Demand)
  <2>1. Inside(p, 7 + r, 32)
    BY <1>1 DEF Inside
  <2> QED
    BY <2>1, HashSizes DEF HashInside, Demand
<1>6. SignatureInside(p, Demand)
  <2>1. Inside(p, 39 + r, s)
    BY <1>1 DEF Inside
  <2> QED
    BY <2>1 DEF SignatureInside, Demand
<1>7. RandomInside(p, Demand)
  <2>1. Inside(p, 7, r)
    BY <1>1 DEF Inside
  <2> QED
    BY <2>1 DEF RandomInside, Demand
<1>8. Verifies(p, Demand, HashBlock("hash", n), Block("signature", n, s))
  BY HashSizes DEF Verifies, ViewHash, ViewSignature, HashBlock, Demand
<1>9. View(p, Num(p, Demand.randomDataOffset), Num(p, Demand.randomDataSize))
      = Block("random", n, r)
  BY DEF Demand
<1> QED
  BY <1>3, <1>4, <1>5, <1>6, <1>7, <1>8, <1>9

-----------------------------------------------------------------------------
\* The notification: where everything is.
NotificationLayout(p, n, r, s, v) ==
    /\ DOMAIN p = 0..41 + r + s
    /\ Num(p, 0) = 9 /\ Num(p, 1) = r
    /\ Num(p, 2) = 9 + r /\ Num(p, 3) = 1
    /\ Num(p, 4) = 1
    /\ Num(p, 5) = 10 + r /\ Num(p, 6) = 32
    /\ Num(p, 7) = 42 + r /\ Num(p, 8) = s
    /\ View(p, 9, r) = Block("random", n, r)
    /\ Num(p, 9 + r) = Byte(v)
    /\ View(p, 10 + r, 32) = Block("answer", n, 32)
    /\ View(p, 42 + r, s) = Block("signature", n, s)

\* In the buffer of 256 bytes: the random block, then the RSSI.
LEMMA RssiWritten ==
    ASSUME NEW r \in RandomSizes, NEW s \in SignatureSizes,
           m_RandomDataBlock = Block("random", nonce, r)
    PROVE  LET p == write_rssi_value(write_random_data_block)
           IN /\ DOMAIN p = 0..255
              /\ Num(p, 0) = 9 /\ Num(p, 1) = r /\ Num(p, 2) = 9 + r /\ Num(p, 3) = 1
              /\ View(p, 9, r) = Block("random", nonce, r)
              /\ Num(p, 9 + r) = Byte(m_Rssi)
<1> DEFINE last == 255
<1> DEFINE p0 == Zeros(256)
<1> DEFINE p1 == Write(p0, 0, 9)
<1> DEFINE p2 == Write(p1, 1, r)
<1> DEFINE p3 == Copy(p2, 9, Block("random", nonce, r))
<1> DEFINE p4 == Write(p3, 2, 9 + r)
<1> DEFINE p5 == Write(p4, 3, 1)
<1> DEFINE p6 == Write(p5, 9 + r, Byte(m_Rssi))
<1>1. r \in Nat \ {0} /\ s \in Nat \ {0} /\ r + s < 177
  BY Bounds
<1>0. last = 255
  OBVIOUS
<1>0b. /\ last \in Int
      /\ 0 \in 0..last /\ 1 \in 0..last /\ 2 \in 0..last /\ 3 \in 0..last /\ 4 \in 0..last
      /\ 5 \in 0..last /\ 6 \in 0..last /\ 7 \in 0..last /\ 8 \in 0..last
  OBVIOUS
<1>2. SizeOf(m_RandomDataBlock) = r
  <2>1. DOMAIN Block("random", nonce, r) = 0..r - 1 /\ r \in 0..255
    BY <1>1 DEF Block
  <2> QED
    BY <2>1, Counted
<1>3. write_random_data_block = p3
  BY <1>2 DEF write_random_data_block, Notification
<1>4. DOMAIN p0 = 0..last
  BY DEF Zeros
<1> HIDE DEF p0, last
<1>5. DOMAIN p1 = 0..last /\ Num(p1, 0) = 9
  BY <1>0b, <1>4 DEF Write, Num, Number
<1> HIDE DEF p1
<1>6. DOMAIN p2 = 0..last /\ Num(p2, 0) = 9 /\ Num(p2, 1) = r
  BY <1>0b, <1>5 DEF Write, Num, Number
<1> HIDE DEF p2
<1>7. /\ DOMAIN p3 = 0..last
      /\ View(p3, 9, r) = Block("random", nonce, r)
      /\ \A j \in 0..last : j < 9 \/ j >= 9 + r => p3[j] = p2[j]
  <2>1. 9 \in Nat /\ r \in Nat /\ 9 + r - 1 <= last
    BY <1>0, <1>1
  <2>2. PICK at \in Nat : at = 9
    OBVIOUS
  <2>3. p3 = Copy(p2, at, Block("random", nonce, r)) /\ at + r - 1 <= last
    BY <2>1, <2>2
  <2> HIDE DEF p3
  <2>4. /\ DOMAIN p3 = 0..last
        /\ View(p3, at, r) = Block("random", nonce, r)
        /\ \A j \in 0..last : j < at \/ j >= at + r => p3[j] = p2[j]
    BY <1>0b, <1>6, <2>1, <2>3, Copied
  <2> QED
    BY <2>2, <2>4
<1>8. Num(p3, 0) = 9 /\ Num(p3, 1) = r
  BY <1>0, <1>1, <1>6, <1>7 DEF Num
<1> HIDE DEF p3
<1>9. Byte(9 + r) = 9 + r /\ 9 + r \in 0..last
  BY <1>0, <1>1 DEF Byte
<1>10. write_rssi_value(write_random_data_block) = p6
  BY <1>3, <1>8, <1>9 DEF write_rssi_value, Notification
<1>11. /\ DOMAIN p4 = 0..last /\ Num(p4, 2) = 9 + r
       /\ \A j \in 0..last : j # 2 => p4[j] = p3[j]
  BY <1>0b, <1>7 DEF Write, Num, Number
<1> HIDE DEF p4
<1>12. /\ DOMAIN p5 = 0..last /\ Num(p5, 3) = 1
       /\ \A j \in 0..last : j # 3 => p5[j] = p4[j]
  BY <1>0b, <1>11 DEF Write, Num, Number
<1> HIDE DEF p5
<1>13. PICK at \in 0..last : at = 9 + r
  BY <1>9
<1>14. p6 = Write(p5, at, Byte(m_Rssi))
  BY <1>13
<1> HIDE DEF p6
<1>15. /\ DOMAIN p6 = 0..last /\ Num(p6, at) = Byte(m_Rssi)
       /\ \A j \in 0..last : j # at => p6[j] = p5[j]
  BY <1>0b, <1>12, <1>14 DEF Write, Num, Number
<1>16. \A j \in 9..9 + r - 1 : p6[j] = p3[j]
  <2>1. TAKE j \in 9..9 + r - 1
  <2>2. j \in 0..last /\ j # at /\ j # 2 /\ j # 3
    BY <1>0, <1>1, <1>13
  <2>3. p6[j] = p5[j]
    BY <2>2, <1>15
  <2>4. p5[j] = p4[j]
    BY <2>2, <1>12
  <2>5. p4[j] = p3[j]
    BY <2>2, <1>11
  <2> QED
    BY <2>3, <2>4, <2>5
<1>17. View(p6, 9, r) = Block("random", nonce, r)
  <2>1. View(p6, 9, r) = View(p3, 9, r)
    BY <1>1, <1>16, ViewSame
  <2> QED
    BY <1>7, <2>1
<1>18. p6[0] = p3[0] /\ p6[1] = p3[1] /\ p6[2] = p4[2] /\ p6[3] = p5[3]
  <2>1. at \notin {0, 1, 2, 3}
    BY <1>1, <1>13
  <2>2. \A j \in {0, 1, 2, 3} : j \in 0..last /\ p6[j] = p5[j]
    BY <1>0b, <1>15, <2>1
  <2>3. \A j \in {0, 1, 2} : p5[j] = p4[j]
    BY <1>0b, <1>12
  <2>4. \A j \in {0, 1} : p4[j] = p3[j]
    BY <1>0b, <1>11
  <2> QED
    BY <2>2, <2>3, <2>4
<1>19. Num(p6, 0) = 9 /\ Num(p6, 1) = r /\ Num(p6, 2) = 9 + r /\ Num(p6, 3) = 1
  BY <1>8, <1>11, <1>12, <1>18 DEF Num
<1> QED
  BY <1>0, <1>10, <1>13, <1>15, <1>17, <1>19

\* Then the hash, that disturbs nothing of it.
LEMMA HashWritten ==
    ASSUME NEW r \in RandomSizes, NEW s \in SignatureSizes, NEW p,
           DOMAIN p = 0..255,
           Num(p, 0) = 9, Num(p, 1) = r, Num(p, 2) = 9 + r, Num(p, 3) = 1
    PROVE  LET q == write_hash(p)
           IN /\ DOMAIN q = 0..255
              /\ Num(q, 4) = 1 /\ Num(q, 5) = 10 + r /\ Num(q, 6) = 32
              /\ View(q, 10 + r, 32) = Block("answer", nonce, 32)
              /\ \A j \in 0..3 \cup 9..9 + r : q[j] = p[j]
<1> DEFINE last == 255
<1> DEFINE p1 == Write(p, 4, 1)
<1> DEFINE p2 == Write(p1, 5, 10 + r)
<1> DEFINE p3 == Write(p2, 6, 32)
<1> DEFINE q == Copy(p3, 10 + r, Block("answer", nonce, 32))
<1>1. r \in Nat \ {0} /\ s \in Nat \ {0} /\ r + s < 177
  BY Bounds
<1>0. last = 255
  OBVIOUS
<1>0b. /\ last \in Int
      /\ 0 \in 0..last /\ 1 \in 0..last /\ 2 \in 0..last /\ 3 \in 0..last /\ 4 \in 0..last
      /\ 5 \in 0..last /\ 6 \in 0..last /\ 7 \in 0..last /\ 8 \in 0..last
  OBVIOUS
<1>0a. DOMAIN p = 0..last
  OBVIOUS
<1> HIDE DEF last
<1>2. /\ DOMAIN p1 = 0..last /\ Num(p1, 4) = 1
      /\ \A j \in 0..last : j # 4 => p1[j] = p[j]
  BY <1>0b, <1>0a DEF Write, Num, Number
<1>3. Num(p1, 2) = 9 + r /\ Num(p1, 3) = 1
  BY <1>0, <1>2 DEF Num
<1>4. Byte((9 + r) + 1) = 10 + r
  BY <1>1 DEF Byte
<1>5. write_hash(p) = q
  BY <1>3, <1>4, HashSizes DEF write_hash, Notification, HashBlock, Sha2_256
<1> HIDE DEF p1
<1>6. /\ DOMAIN p2 = 0..last /\ Num(p2, 5) = 10 + r
      /\ \A j \in 0..last : j # 5 => p2[j] = p1[j]
  BY <1>0b, <1>2 DEF Write, Num, Number
<1> HIDE DEF p2
<1>7. /\ DOMAIN p3 = 0..last /\ Num(p3, 6) = 32
      /\ \A j \in 0..last : j # 6 => p3[j] = p2[j]
  BY <1>0b, <1>6 DEF Write, Num, Number
<1> HIDE DEF p3
<1>8. PICK at \in Nat : at = 10 + r /\ at + 32 - 1 <= last
  BY <1>0, <1>1
<1>9. q = Copy(p3, at, Block("answer", nonce, 32))
  BY <1>8
<1> HIDE DEF q
<1>10. /\ DOMAIN q = 0..last
       /\ View(q, at, 32) = Block("answer", nonce, 32)
       /\ \A j \in 0..last : j < at \/ j >= at + 32 => q[j] = p3[j]
  <2>1. 32 \in Nat /\ last \in Int /\ DOMAIN p3 = 0..last
    BY <1>0b, <1>7
  <2> QED
    BY <2>1, <1>8, <1>9, Copied
<1>11. q[4] = p1[4] /\ q[5] = p2[5] /\ q[6] = p3[6]
  <2>1. \A j \in {4, 5, 6} : j \in 0..last /\ j < at
    BY <1>0b, <1>1, <1>8
  <2>2. \A j \in {4, 5, 6} : q[j] = p3[j]
    BY <1>10, <2>1
  <2>3. p3[4] = p2[4] /\ p3[5] = p2[5] /\ p2[4] = p1[4]
    BY <1>0b, <1>6, <1>7
  <2> QED
    BY <2>2, <2>3
<1>12. Num(q, 4) = 1 /\ Num(q, 5) = 10 + r /\ Num(q, 6) = 32
  BY <1>2, <1>6, <1>7, <1>11 DEF Num
<1>13. ASSUME NEW j \in 0..3 \cup 9..9 + r PROVE q[j] = p[j]
  <2>1. j \in 0..last /\ j < at /\ j \notin {4, 5, 6}
    BY <1>0, <1>1, <1>8
  <2> QED
    BY <2>1, <1>2, <1>6, <1>7, <1>10
<1> QED
  BY <1>0, <1>5, <1>8, <1>10, <1>12, <1>13

\* And the signature.
LEMMA SignatureWritten ==
    ASSUME NEW r \in RandomSizes, NEW s \in SignatureSizes, NEW p,
           DOMAIN p = 0..255, Num(p, 5) = 10 + r, Num(p, 6) = 32
    PROVE  LET q == write_signature(p, s)
           IN /\ DOMAIN q = 0..255
              /\ Num(q, 7) = 42 + r /\ Num(q, 8) = s
              /\ View(q, 42 + r, s) = Block("signature", nonce, s)
              /\ \A j \in 0..6 \cup 9..41 + r : q[j] = p[j]
<1> DEFINE last == 255
<1> DEFINE p1 == Write(p, 7, 42 + r)
<1> DEFINE p2 == Write(p1, 8, s)
<1> DEFINE q == Copy(p2, 42 + r, Block("signature", nonce, s))
<1>1. r \in Nat \ {0} /\ s \in Nat \ {0} /\ r + s < 177
  BY Bounds
<1>0. last = 255
  OBVIOUS
<1>0b. /\ last \in Int
      /\ 0 \in 0..last /\ 1 \in 0..last /\ 2 \in 0..last /\ 3 \in 0..last /\ 4 \in 0..last
      /\ 5 \in 0..last /\ 6 \in 0..last /\ 7 \in 0..last /\ 8 \in 0..last
  OBVIOUS
<1>0a. DOMAIN p = 0..last
  OBVIOUS
<1> HIDE DEF last
<1>2. Byte((10 + r) + 32) = 42 + r /\ Byte(s) = s
  BY <1>1 DEF Byte
<1>3. write_signature(p, s) = q
  BY <1>2 DEF write_signature, Notification
<1>4. /\ DOMAIN p1 = 0..last /\ Num(p1, 7) = 42 + r
      /\ \A j \in 0..last : j # 7 => p1[j] = p[j]
  BY <1>0b, <1>0a DEF Write, Num, Number
<1> HIDE DEF p1
<1>5. /\ DOMAIN p2 = 0..last /\ Num(p2, 8) = s
      /\ \A j \in 0..last : j # 8 => p2[j] = p1[j]
  BY <1>0b, <1>4 DEF Write, Num, Number
<1> HIDE DEF p2
<1>6. PICK at \in Nat : at = 42 + r /\ at + s - 1 <= last
  BY <1>0, <1>1
<1>7. q = Copy(p2, at, Block("signature", nonce, s))
  BY <1>6
<1> HIDE DEF q
<1>8. /\ DOMAIN q = 0..last
      /\ View(q, at, s) = Block("signature", nonce, s)
      /\ \A j \in 0..last : j < at \/ j >= at + s => q[j] = p2[j]
  <2>1. s \in Nat /\ last \in Int /\ DOMAIN p2 = 0..last
    BY <1>0b, <1>1, <1>5
  <2> QED
    BY <2>1, <1>6, <1>7, Copied
<1>9. q[7] = p1[7] /\ q[8] = p2[8]
  <2>1. 7 \in 0..last /\ 8 \in 0..last /\ 7 < at /\ 8 < at
    BY <1>0b, <1>1, <1>6
  <2>2. q[7] = p2[7] /\ q[8] = p2[8]
    BY <1>8, <2>1
  <2>3. p2[7] = p1[7]
    BY <1>5, <2>1
  <2> QED
    BY <2>2, <2>3
<1>10. Num(q, 7) = 42 + r /\ Num(q, 8) = s
  BY <1>4, <1>5, <1>9 DEF Num
<1>11. ASSUME NEW j \in 0..6 \cup 9..41 + r PROVE q[j] = p[j]
  <2>1. j \in 0..last /\ j < at /\ j # 7 /\ j # 8
    BY <1>0, <1>1, <1>6
  <2>2. q[j] = p2[j]
    BY <2>1, <1>8
  <2>3. p2[j] = p1[j]
    BY <2>1, <1>5
  <2>4. p1[j] = p[j]
    BY <2>1, <1>4
  <2> QED
    BY <2>2, <2>3, <2>4
<1> QED
  BY <1>0, <1>3, <1>6, <1>8, <1>10, <1>11

\* A notification of a random block of any size drawn and a signature of any size
\* returned has everything in its place when it is cut to its size, and its hash was
\* made of the bytes that are the random block and the RSSI in it.
THEOREM NotificationLaidOut ==
    ASSUME NEW r \in RandomSizes, NEW s \in SignatureSizes,
           m_RandomDataBlock = Block("random", nonce, r)
    PROVE  LET p1 == write_rssi_value(write_random_data_block)
               p2 == write_signature(write_hash(p1), s)
               p  == Resized(p2, packet_size_rssi_notification(p2))
           IN /\ SignatureInside(p2, Notification)
              /\ NotificationLayout(p, nonce, r, s, m_Rssi)
              /\ HashedBytes(p1) = View(p, 9, r + 1)
              /\ HashedBytes(p1)[r] = p[9 + r]
<1> DEFINE p1 == write_rssi_value(write_random_data_block)
<1> DEFINE ph == write_hash(p1)
<1> DEFINE p2 == write_signature(ph, s)
<1> DEFINE p == Resized(p2, 42 + r + s)
<1>1. r \in Nat \ {0} /\ s \in Nat \ {0} /\ r + s < 177
  BY Bounds
<1>2. /\ DOMAIN p1 = 0..255
      /\ Num(p1, 0) = 9 /\ Num(p1, 1) = r /\ Num(p1, 2) = 9 + r /\ Num(p1, 3) = 1
      /\ View(p1, 9, r) = Block("random", nonce, r)
      /\ Num(p1, 9 + r) = Byte(m_Rssi)
  BY RssiWritten
<1> HIDE DEF p1
<1>3. /\ DOMAIN ph = 0..255
      /\ Num(ph, 4) = 1 /\ Num(ph, 5) = 10 + r /\ Num(ph, 6) = 32
      /\ View(ph, 10 + r, 32) = Block("answer", nonce, 32)
      /\ \A j \in 0..3 \cup 9..9 + r : ph[j] = p1[j]
  BY <1>2, HashWritten
<1> HIDE DEF ph
<1>4. /\ DOMAIN p2 = 0..255
      /\ Num(p2, 7) = 42 + r /\ Num(p2, 8) = s
      /\ View(p2, 42 + r, s) = Block("signature", nonce, s)
      /\ \A j \in 0..6 \cup 9..41 + r : p2[j] = ph[j]
  BY <1>3, SignatureWritten
<1> HIDE DEF p2
<1>5. /\ DOMAIN p = 0..41 + r + s
      /\ \A j \in 0..41 + r + s : p[j] = p2[j]
  BY <1>1 DEF Resized
<1>6. /\ Num(p2, 0) = 9 /\ Num(p2, 1) = r /\ Num(p2, 2) = 9 + r /\ Num(p2, 3) = 1
      /\ Num(p2, 4) = 1 /\ Num(p2, 5) = 10 + r /\ Num(p2, 6) = 32
  <2>1. p2[0] = p1[0] /\ p2[1] = p1[1] /\ p2[2] = p1[2] /\ p2[3] = p1[3]
    BY <1>3, <1>4
  <2>2. p2[4] = ph[4] /\ p2[5] = ph[5] /\ p2[6] = ph[6]
    BY <1>4
  <2> QED
    BY <1>2, <1>3, <2>1, <2>2 DEF Num
<1>7. packet_size_rssi_notification(p2) = 42 + r + s
  BY <1>1, <1>4, <1>6 DEF packet_size_rssi_notification, Notification
<1>8. SignatureInside(p2, Notification)
  <2>1. Inside(p2, 42 + r, s)
    BY <1>1, <1>4 DEF Inside
  <2> QED
    BY <1>4, <2>1 DEF SignatureInside, Notification
<1> HIDE DEF p
<1>9. \A j \in 9..9 + r : p[j] = p1[j]
  BY <1>1, <1>3, <1>4, <1>5
<1>10. NotificationLayout(p, nonce, r, s, m_Rssi)
  <2>1. /\ p[0] = p2[0] /\ p[1] = p2[1] /\ p[2] = p2[2] /\ p[3] = p2[3] /\ p[4] = p2[4]
        /\ p[5] = p2[5] /\ p[6] = p2[6] /\ p[7] = p2[7] /\ p[8] = p2[8]
    BY <1>1, <1>5
  <2>2. /\ Num(p, 0) = 9 /\ Num(p, 1) = r /\ Num(p, 2) = 9 + r /\ Num(p, 3) = 1
        /\ Num(p, 4) = 1 /\ Num(p, 5) = 10 + r /\ Num(p, 6) = 32
        /\ Num(p, 7) = 42 + r /\ Num(p, 8) = s
    BY <1>4, <1>6, <2>1 DEF Num
  <2>3. View(p, 9, r) = Block("random", nonce, r)
    <3>1. \A j \in 9..9 + r - 1 : p[j] = p1[j]
      BY <1>1, <1>9
    <3>2. View(p, 9, r) = View(p1, 9, r)
      BY <1>1, <3>1, ViewSame
    <3> QED
      BY <1>2, <3>2
  <2>4. Num(p, 9 + r) = Byte(m_Rssi)
    <3>1. p[9 + r] = p1[9 + r]
      BY <1>1, <1>9
    <3> QED
      BY <1>2, <3>1 DEF Num
  <2>5. View(p, 10 + r, 32) = Block("answer", nonce, 32)
    <3>1. PICK at \in Nat : at = 10 + r
      BY <1>1
    <3>2. \A j \in at..at + 32 - 1 : p[j] = ph[j]
      BY <1>1, <1>4, <1>5, <3>1
    <3>3. View(p, at, 32) = View(ph, at, 32)
      BY <3>2, ViewSame
    <3> QED
      BY <1>3, <3>1, <3>3
  <2>6. View(p, 42 + r, s) = Block("signature", nonce, s)
    <3>1. PICK at \in Nat : at = 42 + r
      BY <1>1
    <3>2. \A j \in at..at + s - 1 : p[j] = p2[j]
      BY <1>1, <1>5, <3>1
    <3>3. View(p, at, s) = View(p2, at, s)
      BY <1>1, <3>2, ViewSame
    <3> QED
      BY <1>4, <3>1, <3>3
  <2> QED
    BY <1>5, <2>2, <2>3, <2>4, <2>5, <2>6 DEF NotificationLayout
<1>11. HashedBytes(p1) = View(p, 9, r + 1)
  <2>1. Byte(r + 1) = r + 1
    BY <1>1 DEF Byte
  <2>2. HashedBytes(p1) = View(p1, 9, r + 1)
    BY <1>2, <2>1 DEF HashedBytes, Notification
  <2>3. PICK at \in Nat, size \in Nat : at = 9 /\ size = r + 1
    BY <1>1
  <2>4. \A j \in at..at + size - 1 : p[j] = p1[j]
    BY <1>1, <1>9, <2>3
  <2>5. View(p, at, size) = View(p1, at, size)
    BY <2>4, ViewSame
  <2> QED
    BY <2>2, <2>3, <2>5
<1>12. View(p, 9, r + 1)[r] = p[9 + r]
  BY <1>1 DEF View
<1> QED
  BY <1>7, <1>8, <1>10, <1>11, <1>12 DEF p, p1, ph, p2

\* The client understands it, and takes from it the RSSI that was measured.
LEMMA NotificationUnderstood ==
    ASSUME NEW p, NEW n, NEW r \in RandomSizes, NEW s \in SignatureSizes, NEW v \in -128..127,
           NotificationLayout(p, n, r, s, v)
    PROVE  /\ Known(p, Notification) /\ RandomInside(p, Notification)
           /\ HashInside(p, Notification) /\ SignatureInside(p, Notification)
           /\ View(p, Num(p, Notification.randomDataOffset), Num(p, Notification.randomDataSize))
              = Block("random", n, r)
           /\ Verifies(p, Notification, HashBlock("answer", n), Block("signature", n, s))
           /\ Num(p, Notification.rssiSize) = 1
           /\ AsInt8(Num(p, Num(p, Notification.rssiOffset))) = v
<1> USE DEF NotificationLayout
<1>1. r \in Nat \ {0} /\ s \in Nat \ {0}
  BY Bounds
<1>2. Known(p, Notification)
  BY DEF Known, Notification, ShaCount
<1>3. RandomInside(p, Notification)
  <2>1. Inside(p, 9, r)
    BY <1>1 DEF Inside
  <2> QED
    BY <2>1 DEF RandomInside, Notification
<1>4. HashInside(p, Notification)
  <2>1. Inside(p, 10 + r, 32)
    BY <1>1 DEF Inside
  <2> QED
    BY <2>1, HashSizes DEF HashInside, Notification
<1>5. SignatureInside(p, Notification)
  <2>1. Inside(p, 42 + r, s)
    BY <1>1 DEF Inside
  <2> QED
    BY <2>1 DEF SignatureInside, Notification
<1>6. View(p, Num(p, Notification.randomDataOffset), Num(p, Notification.randomDataSize))
      = Block("random", n, r)
  BY DEF Notification
<1>7. Verifies(p, Notification, HashBlock("answer", n), Block("signature", n, s))
  BY HashSizes DEF Verifies, ViewHash, ViewSignature, HashBlock, Notification
<1>8. Num(p, Notification.rssiSize) = 1
  BY DEF Notification
<1>9. Num(p, Num(p, Notification.rssiOffset)) = Byte(v)
  BY DEF Notification
<1>10. AsInt8(Byte(v)) = v
  BY Signed
<1> QED
  BY <1>2, <1>3, <1>4, <1>5, <1>6, <1>7, <1>8, <1>9, <1>10

-----------------------------------------------------------------------------
\* The authentication packet: where everything is.
AuthenticateLayout(p, s) ==
    /\ DOMAIN p = 0..36 + s
    /\ Num(p, 0) = 1
    /\ Num(p, 1) = 5 /\ Num(p, 2) = 32
    /\ Num(p, 3) = 37 /\ Num(p, 4) = s
    /\ View(p, 5, 32) = Block("mac", None, 32)
    /\ View(p, 37, s) = Block("signature", None, s)

LEMMA HeaderFilled ==
    ASSUME NEW s \in SignatureSizes, NEW p, DOMAIN p = 0..36 + s
    PROVE  LET q == fill_header(p, s)
           IN /\ DOMAIN q = 0..36 + s
              /\ Num(q, 0) = 1 /\ Num(q, 1) = 5 /\ Num(q, 2) = 32
              /\ Num(q, 3) = 37 /\ Num(q, 4) = s
<1> DEFINE last == 36 + s
<1> DEFINE p1 == Write(p, 0, 1)
<1> DEFINE p2 == Write(p1, 1, 5)
<1> DEFINE p3 == Write(p2, 2, 32)
<1> DEFINE p4 == Write(p3, 3, 37)
<1> DEFINE q == Write(p4, 4, s)
<1>1. s \in Nat \ {0}
  BY PacketsAssumption
<1>2. fill_header(p, s) = q
  BY HashSizes DEF fill_header, Authenticate, Sha2_256
<1>3. /\ 0 \in 0..last /\ 1 \in 0..last /\ 2 \in 0..last /\ 3 \in 0..last /\ 4 \in 0..last
      /\ DOMAIN p = 0..last
  BY <1>1
<1> HIDE DEF last
<1>4. DOMAIN p1 = 0..last /\ Num(p1, 0) = 1
  BY <1>3 DEF Write, Num, Number
<1> HIDE DEF p1
<1>5. DOMAIN p2 = 0..last /\ Num(p2, 0) = 1 /\ Num(p2, 1) = 5
  BY <1>3, <1>4 DEF Write, Num, Number
<1> HIDE DEF p2
<1>6. DOMAIN p3 = 0..last /\ Num(p3, 0) = 1 /\ Num(p3, 1) = 5 /\ Num(p3, 2) = 32
  BY <1>3, <1>5 DEF Write, Num, Number
<1> HIDE DEF p3
<1>7. /\ DOMAIN p4 = 0..last /\ Num(p4, 0) = 1 /\ Num(p4, 1) = 5 /\ Num(p4, 2) = 32
      /\ Num(p4, 3) = 37
  BY <1>3, <1>6 DEF Write, Num, Number
<1> HIDE DEF p4
<1>8. /\ DOMAIN q = 0..last /\ Num(q, 0) = 1 /\ Num(q, 1) = 5 /\ Num(q, 2) = 32
      /\ Num(q, 3) = 37 /\ Num(q, 4) = s
  BY <1>3, <1>7 DEF Write, Num, Number
<1> QED
  BY <1>2, <1>8 DEF last

THEOREM AuthenticateLaidOut ==
    ASSUME NEW s \in SignatureSizes
    PROVE  AuthenticateLayout(AuthenticatePacket(s), s)
<1> DEFINE last == 36 + s
<1> DEFINE p == fill_header(Zeros(5 + 32 + s), s)
<1> DEFINE p1 == Copy(p, 5, Block("mac", None, 32))
<1> DEFINE q == Copy(p1, 37, Block("signature", None, s))
<1>1. s \in Nat \ {0} /\ last \in Int /\ last = 36 + s
  BY PacketsAssumption
<1>2. AuthenticatePacket(s) = q
  BY HashSizes DEF AuthenticatePacket, copy_hash_and_signature, Authenticate, HashBlock
<1>3. /\ DOMAIN p = 0..last
      /\ Num(p, 0) = 1 /\ Num(p, 1) = 5 /\ Num(p, 2) = 32
      /\ Num(p, 3) = 37 /\ Num(p, 4) = s
  <2>1. DOMAIN Zeros(5 + 32 + s) = 0..36 + s
    BY <1>1 DEF Zeros
  <2> QED
    BY <2>1, HeaderFilled
<1> HIDE DEF p
<1>4. PICK a5 \in Nat, a32 \in Nat, a37 \in Nat :
          a5 = 5 /\ a32 = 32 /\ a37 = 37 /\ a5 + a32 - 1 <= last /\ a37 + s - 1 <= last
  BY <1>1
<1>5. p1 = Copy(p, a5, Block("mac", None, a32)) /\ q = Copy(p1, a37, Block("signature", None, s))
  BY <1>4
<1> HIDE DEF p1, q, last
<1>6. /\ DOMAIN p1 = 0..last
      /\ View(p1, a5, a32) = Block("mac", None, a32)
      /\ \A j \in 0..last : j < a5 \/ j >= a5 + a32 => p1[j] = p[j]
  BY <1>1, <1>3, <1>4, <1>5, Copied
<1>7. /\ DOMAIN q = 0..last
      /\ View(q, a37, s) = Block("signature", None, s)
      /\ \A j \in 0..last : j < a37 \/ j >= a37 + s => q[j] = p1[j]
  BY <1>1, <1>4, <1>5, <1>6, Copied
<1>8. View(q, a5, a32) = View(p1, a5, a32)
  <2>1. \A j \in a5..a5 + a32 - 1 : q[j] = p1[j]
    BY <1>1, <1>4, <1>7
  <2> QED
    BY <2>1, ViewSame
<1>9. q[0] = p[0] /\ q[1] = p[1] /\ q[2] = p[2] /\ q[3] = p[3] /\ q[4] = p[4]
  <2>1. \A j \in 0..4 : j \in 0..last /\ j < a5 /\ j < a37
    BY <1>1, <1>4
  <2>2. \A j \in 0..4 : q[j] = p[j]
    BY <2>1, <1>6, <1>7
  <2> QED
    BY <2>2
<1>10. Num(q, 0) = 1 /\ Num(q, 1) = 5 /\ Num(q, 2) = 32 /\ Num(q, 3) = 37 /\ Num(q, 4) = s
  BY <1>3, <1>9 DEF Num
<1> QED
  BY <1>1, <1>2, <1>4, <1>6, <1>7, <1>8, <1>10 DEF AuthenticateLayout

\* The client understands it.
LEMMA AuthenticateUnderstood ==
    ASSUME NEW p, NEW s \in SignatureSizes, AuthenticateLayout(p, s)
    PROVE  /\ p # Empty /\ Known(p, Authenticate)
           /\ PacketSize(p) = SizeExpected(p)
           /\ HashInside(p, Authenticate) /\ SignatureInside(p, Authenticate)
           /\ Verifies(p, Authenticate, HashBlock("mac", None), Block("signature", None, s))
<1> USE DEF AuthenticateLayout
<1>1. s \in Nat \ {0} /\ s < 177
  <2>1. PICK r \in RandomSizes : TRUE
    BY PacketsAssumption
  <2> QED
    BY <2>1, Bounds
<1>2. p # Empty
  <2>1. 0 \in DOMAIN p
    BY <1>1
  <2> QED
    BY <2>1 DEF Empty
<1>3. Known(p, Authenticate)
  BY DEF Known, Authenticate, ShaCount
<1>4. PacketSize(p) = SizeExpected(p)
  <2>1. PICK size \in 0..255 : size = 37 + s
    BY <1>1
  <2>2. DOMAIN p = 0..size - 1
    BY <1>1, <2>1
  <2>3. PacketSize(p) = size
    BY <2>2, Counted
  <2>4. SizeExpected(p) = 5 + 32 + s
    BY HashSizes DEF SizeExpected, Authenticate
  <2> QED
    BY <1>1, <2>1, <2>3, <2>4
<1>5. HashInside(p, Authenticate)
  <2>1. Inside(p, 5, 32)
    BY <1>1 DEF Inside
  <2> QED
    BY <2>1, HashSizes DEF HashInside, Authenticate
<1>6. SignatureInside(p, Authenticate)
  <2>1. Inside(p, 37, s)
    BY <1>1 DEF Inside
  <2> QED
    BY <2>1 DEF SignatureInside, Authenticate
<1>7. Verifies(p, Authenticate, HashBlock("mac", None), Block("signature", None, s))
  BY HashSizes DEF Verifies, ViewHash, ViewSignature, HashBlock, Authenticate
<1> QED
  BY <1>2, <1>3, <1>4, <1>5, <1>6, <1>7

-----------------------------------------------------------------------------
\* The inductive invariant: what is in hand at each stage is what its maker lays
\* out, and the client's replay protector has that demand's random block or, when it
\* is late, nothing.
CachedOr(r) == cached \in {Block("random", nonce, r), Empty}

DemandInv(r, s) ==
    /\ DemandLayout(packet, nonce, r, s)
    /\ signed = Block("signature", nonce, s)
    /\ CachedOr(r)

NotifyInv(r) ==
    /\ m_RandomDataBlock = Block("random", nonce, r)
    /\ CachedOr(r)

AnswerInv(r, s) ==
    /\ NotificationLayout(packet, nonce, r, s, m_Rssi)
    /\ hashed = View(packet, 9, r + 1)
    /\ hashed[r] = packet[9 + r]
    /\ signed = Block("signature", nonce, s)
    /\ CachedOr(r)

StageInv ==
    /\ stage \in {"idle", "demand", "notify", "answer", "authenticate"}
    /\ stage = "demand" => \E r \in RandomSizes, s \in SignatureSizes : DemandInv(r, s)
    /\ stage = "notify" => \E r \in RandomSizes : NotifyInv(r)
    /\ stage = "answer" => \E r \in RandomSizes, s \in SignatureSizes : AnswerInv(r, s)

\* The signed address is made once and stays.
MacInv ==
    /\ m_SignedMacData # Empty =>
          \E s \in SignatureSizes : /\ AuthenticateLayout(m_SignedMacData, s)
                                    /\ macSigned = Block("signature", None, s)
    /\ stage = "authenticate" => packet = m_SignedMacData /\ packet # Empty

\* Nothing is refused, and the RSSI shown is the one measured, until the next
\* demand forgets what became of this one.
OutcomeInv ==
    /\ outcome \in {"none", "failed", "late", "shown", "verified"}
    /\ outcome = "shown" => rssi = m_Rssi
    /\ stage \in {"demand", "notify", "answer"} => outcome = "none"
    /\ m_Rssi \in -128..127

IInv == StageInv /\ MacInv /\ OutcomeInv

\* A packet that was read or could not be sent leaves nothing behind.
LEMMA DoneKeeps ==
    ASSUME IInv, NEW result \in {"failed", "late", "verified"}, Done(result),
           UNCHANGED <<tokenVars, macVars, rssi>>
    PROVE  IInv'
<1>1. stage' = "idle" /\ outcome' = result
  BY DEF Done
<1>2. UNCHANGED <<m_Rssi, macSigned, m_SignedMacData, rssi>>
  BY DEF tokenVars, macVars
<1>3. StageInv'
  BY <1>1 DEF StageInv
<1>4. MacInv'
  BY <1>1, <1>2 DEF IInv, MacInv
<1>5. OutcomeInv'
  BY <1>1, <1>2 DEF IInv, OutcomeInv
<1> QED
  BY <1>3, <1>4, <1>5 DEF IInv

LEMMA MakeDemandKeeps ==
    ASSUME IInv, NEW n \in Nonces, NEW r \in RandomSizes, NEW s \in SignatureSizes,
           MakeDemand(n, r, s)
    PROVE  IInv'
<1>1. DemandAsserted(r, s)
  <2>1. /\ r \in Nat \ {0} /\ s \in Nat \ {0} /\ r + s < 177
        /\ 7 + r + 32 + s < 216
    BY Bounds
  <2>2. 7 + r + 32 + s < 216 /\ r < 256 /\ s < 256
    BY <2>1
  <2> QED
    BY <2>2, HashSizes DEF DemandAsserted
<1>2. /\ packet' = DemandPacket(n, r, s) /\ nonce' = n
      /\ cached' = Block("random", n, r) /\ signed' = Block("signature", n, s)
      /\ stage' = "demand" /\ outcome' = "none"
      /\ UNCHANGED <<m_Rssi, macSigned, m_SignedMacData, rssi>>
  BY <1>1 DEF MakeDemand, tokenVars, macVars
<1>3. StageInv'
  <2>1. DemandLayout(packet', nonce', r, s)
    BY <1>2, DemandLaidOut
  <2>2. DemandInv(r, s)'
    BY <1>2, <2>1 DEF DemandInv, CachedOr
  <2> QED
    BY <1>2, <2>2 DEF StageInv
<1>4. MacInv'
  BY <1>2 DEF IInv, MacInv
<1>5. OutcomeInv'
  BY <1>2 DEF IInv, OutcomeInv
<1> QED
  BY <1>3, <1>4, <1>5 DEF IInv

LEMMA ExpireKeeps == ASSUME IInv, Expire PROVE IInv'
<1>1. /\ UNCHANGED <<stage, packet, nonce, signed, hashed, m_RandomDataBlock, m_Rssi>>
      /\ UNCHANGED <<macSigned, m_SignedMacData, outcome, rssi>>
      /\ cached' = Empty
  BY DEF Expire, tokenVars, macVars
<1>2. \A r : CachedOr(r)'
  BY <1>1 DEF CachedOr
<1>3. StageInv'
  <2>1. ASSUME NEW r, NEW s, DemandInv(r, s) PROVE DemandInv(r, s)'
    BY <1>1, <1>2, <2>1 DEF DemandInv
  <2>2. ASSUME NEW r, NotifyInv(r) PROVE NotifyInv(r)'
    BY <1>1, <1>2, <2>2 DEF NotifyInv
  <2>3. ASSUME NEW r, NEW s, AnswerInv(r, s) PROVE AnswerInv(r, s)'
    BY <1>1, <1>2, <2>3 DEF AnswerInv
  <2> QED
    BY <1>1, <2>1, <2>2, <2>3 DEF IInv, StageInv
<1>4. MacInv'
  BY <1>1 DEF IInv, MacInv
<1>5. OutcomeInv'
  BY <1>1 DEF IInv, OutcomeInv
<1> QED
  BY <1>3, <1>4, <1>5 DEF IInv

LEMMA ReadDemandKeeps == ASSUME IInv, ReadDemand PROVE IInv'
<1>1. stage = "demand" /\ outcome = "none"
  BY DEF ReadDemand, IInv, OutcomeInv
<1>2. PICK r \in RandomSizes, s \in SignatureSizes : DemandInv(r, s)
  BY <1>1 DEF IInv, StageInv
<1>3. /\ packet # Empty /\ Known(packet, Demand)
      /\ HashInside(packet, Demand) /\ SignatureInside(packet, Demand)
      /\ RandomInside(packet, Demand)
      /\ Verifies(packet, Demand, HashBlock("hash", nonce), signed)
      /\ DemandedRandom = Block("random", nonce, r)
  BY <1>2, DemandUnderstood DEF DemandInv, DemandedRandom
<1>4. \/ Done("failed") /\ UNCHANGED tokenVars
      \/ /\ m_Rssi' \in Rssis
         /\ m_RandomDataBlock' = DemandedRandom
         /\ stage' = "notify"
         /\ packet' = Empty
         /\ UNCHANGED <<nonce, cached, signed, hashed, outcome>>
  BY <1>3 DEF ReadDemand
<1>5. UNCHANGED <<macVars, rssi>>
  BY DEF ReadDemand
<1>6. CASE Done("failed") /\ UNCHANGED tokenVars
  BY <1>5, <1>6, DoneKeeps
<1>7. CASE /\ m_Rssi' \in Rssis
           /\ m_RandomDataBlock' = DemandedRandom
           /\ stage' = "notify"
           /\ packet' = Empty
           /\ UNCHANGED <<nonce, cached, signed, hashed, outcome>>
  <2>1. StageInv'
    <3>1. NotifyInv(r)'
      BY <1>2, <1>3, <1>7 DEF DemandInv, NotifyInv, CachedOr
    <3> QED
      BY <1>7, <3>1 DEF StageInv
  <2>2. MacInv'
    BY <1>5, <1>7 DEF IInv, MacInv, macVars
  <2>3. OutcomeInv'
    <3>1. m_Rssi' \in -128..127
      BY <1>7, PacketsAssumption
    <3> QED
      BY <1>1, <1>7, <3>1 DEF OutcomeInv
  <2> QED
    BY <2>1, <2>2, <2>3 DEF IInv
<1> QED
  BY <1>4, <1>6, <1>7

LEMMA MakeNotificationKeeps ==
    ASSUME IInv, NEW s \in SignatureSizes, MakeNotification(s)
    PROVE  IInv'
<1>1. stage = "notify" /\ outcome = "none" /\ m_Rssi \in -128..127
  BY DEF MakeNotification, IInv, OutcomeInv
<1>2. PICK r \in RandomSizes : NotifyInv(r)
  BY <1>1 DEF IInv, StageInv
<1> DEFINE p1 == write_rssi_value(write_random_data_block)
<1> DEFINE p2 == write_signature(write_hash(p1), s)
<1> DEFINE p == Resized(p2, packet_size_rssi_notification(p2))
<1>3. /\ SignatureInside(p2, Notification)
      /\ NotificationLayout(p, nonce, r, s, m_Rssi)
      /\ HashedBytes(p1) = View(p, 9, r + 1)
      /\ HashedBytes(p1)[r] = p[9 + r]
  BY <1>2, NotificationLaidOut DEF NotifyInv
<1>4. \/ Done("failed")
      \/ /\ hashed' = HashedBytes(p1)
         /\ signed' = Block("signature", nonce, s)
         /\ packet' = p
         /\ stage' = "answer"
         /\ UNCHANGED <<nonce, cached, outcome>>
  BY <1>3 DEF MakeNotification
<1>5. UNCHANGED <<tokenVars, macVars, rssi>>
  BY DEF MakeNotification
<1> HIDE DEF p1, p2, p
<1>6. CASE Done("failed")
  BY <1>5, <1>6, DoneKeeps
<1>7. CASE /\ hashed' = HashedBytes(p1)
           /\ signed' = Block("signature", nonce, s)
           /\ packet' = p
           /\ stage' = "answer"
           /\ UNCHANGED <<nonce, cached, outcome>>
  <2>0. m_Rssi' = m_Rssi
    BY <1>5 DEF tokenVars
  <2>1. StageInv'
    <3>1. NotificationLayout(packet', nonce', r, s, m_Rssi')
      BY <1>3, <1>7, <2>0
    <3>2. hashed' = View(packet', 9, r + 1) /\ hashed'[r] = packet'[9 + r]
      BY <1>3, <1>7
    <3>3. CachedOr(r)'
      BY <1>2, <1>7 DEF NotifyInv, CachedOr
    <3>4. AnswerInv(r, s)'
      BY <1>7, <3>1, <3>2, <3>3 DEF AnswerInv
    <3> QED
      BY <1>7, <3>4 DEF StageInv
  <2>2. MacInv'
    BY <1>5, <1>7 DEF IInv, MacInv, macVars
  <2>3. OutcomeInv'
    BY <1>1, <1>7, <2>0 DEF OutcomeInv
  <2> QED
    BY <2>1, <2>2, <2>3 DEF IInv
<1> QED
  BY <1>4, <1>6, <1>7

LEMMA ReadNotificationKeeps == ASSUME IInv, ReadNotification PROVE IInv'
<1>1. stage = "answer" /\ m_Rssi \in -128..127
  BY DEF ReadNotification, IInv, OutcomeInv
<1>2. PICK r \in RandomSizes, s \in SignatureSizes : AnswerInv(r, s)
  BY <1>1 DEF IInv, StageInv
<1>3. /\ Known(packet, Notification) /\ RandomInside(packet, Notification)
      /\ HashInside(packet, Notification) /\ SignatureInside(packet, Notification)
      /\ AnsweredRandom = Block("random", nonce, r)
      /\ Verifies(packet, Notification, HashBlock("answer", nonce), signed)
      /\ Num(packet, Notification.rssiSize) = 1
      /\ AsInt8(Num(packet, Num(packet, Notification.rssiOffset))) = m_Rssi
  <2>1. NotificationLayout(packet, nonce, r, s, m_Rssi) /\ signed = Block("signature", nonce, s)
    BY <1>2 DEF AnswerInv
  <2>2. PICK v \in -128..127 : v = m_Rssi
    BY <1>1
  <2>3. NotificationLayout(packet, nonce, r, s, v)
    BY <2>1, <2>2
  <2>4. /\ Known(packet, Notification) /\ RandomInside(packet, Notification)
        /\ HashInside(packet, Notification) /\ SignatureInside(packet, Notification)
        /\ View(packet, Num(packet, Notification.randomDataOffset),
                Num(packet, Notification.randomDataSize)) = Block("random", nonce, r)
        /\ Verifies(packet, Notification, HashBlock("answer", nonce), Block("signature", nonce, s))
        /\ Num(packet, Notification.rssiSize) = 1
        /\ AsInt8(Num(packet, Num(packet, Notification.rssiOffset))) = v
    BY <2>3, NotificationUnderstood
  <2> QED
    BY <2>1, <2>2, <2>4 DEF AnsweredRandom
<1>4. cached = Empty \/ AnsweredRandom = cached
  BY <1>2, <1>3 DEF AnswerInv, CachedOr
<1>5. \/ Done("late") /\ UNCHANGED rssi
      \/ Done("shown") /\ rssi' = m_Rssi
  BY <1>3, <1>4 DEF ReadNotification
<1>6. UNCHANGED <<tokenVars, macVars>>
  BY DEF ReadNotification
<1>7. CASE Done("late") /\ UNCHANGED rssi
  BY <1>6, <1>7, DoneKeeps
<1>8. CASE Done("shown") /\ rssi' = m_Rssi
  <2>1. stage' = "idle" /\ outcome' = "shown" /\ m_Rssi' = m_Rssi
    BY <1>6, <1>8 DEF Done, tokenVars
  <2>2. StageInv'
    BY <2>1 DEF StageInv
  <2>3. MacInv'
    BY <1>6, <2>1 DEF IInv, MacInv, macVars
  <2>4. OutcomeInv'
    BY <1>1, <1>8, <2>1 DEF OutcomeInv
  <2> QED
    BY <2>2, <2>3, <2>4 DEF IInv
<1> QED
  BY <1>5, <1>7, <1>8

LEMMA ReadAuthenticateKeeps ==
    ASSUME IInv, NEW s \in SignatureSizes, ReadAuthenticate(s)
    PROVE  IInv'
<1>1. UNCHANGED <<m_Rssi, rssi>>
  BY DEF ReadAuthenticate, tokenVars
<1>2. /\ m_SignedMacData' # Empty
      /\ \E z \in SignatureSizes : /\ AuthenticateLayout(m_SignedMacData', z)
                                   /\ macSigned' = Block("signature", None, z)
  <2>1. CASE m_SignedMacData = Empty
    <3>1. m_SignedMacData' = AuthenticatePacket(s) /\ macSigned' = Block("signature", None, s)
      BY <2>1 DEF ReadAuthenticate
    <3>2. AuthenticateLayout(m_SignedMacData', s)
      BY <3>1, AuthenticateLaidOut
    <3>3. m_SignedMacData' # Empty
      BY <3>2, AuthenticateUnderstood
    <3> QED
      BY <3>1, <3>2, <3>3
  <2>2. CASE m_SignedMacData # Empty
    <3>1. UNCHANGED <<macSigned, m_SignedMacData>>
      BY <2>2 DEF ReadAuthenticate, macVars
    <3> QED
      BY <2>2, <3>1 DEF IInv, MacInv
  <2> QED
    BY <2>1, <2>2
<1>3. \/ stage' = "idle" /\ outcome' = "failed"
      \/ stage' = "authenticate" /\ packet' = m_SignedMacData' /\ outcome' = "none"
  BY DEF ReadAuthenticate, Done
<1>4. StageInv'
  BY <1>3 DEF StageInv
<1>5. MacInv'
  BY <1>2, <1>3 DEF MacInv
<1>6. OutcomeInv'
  BY <1>1, <1>3 DEF IInv, OutcomeInv
<1> QED
  BY <1>4, <1>5, <1>6 DEF IInv

LEMMA VerifyAddressKeeps == ASSUME IInv, VerifyAddress PROVE IInv'
<1>1. packet = m_SignedMacData /\ packet # Empty
  BY DEF VerifyAddress, IInv, MacInv
<1>2. PICK s \in SignatureSizes : /\ AuthenticateLayout(packet, s)
                                 /\ macSigned = Block("signature", None, s)
  BY <1>1 DEF IInv, MacInv
<1>3. /\ Known(packet, Authenticate) /\ PacketSize(packet) = SizeExpected(packet)
      /\ HashInside(packet, Authenticate) /\ SignatureInside(packet, Authenticate)
      /\ Verifies(packet, Authenticate, HashBlock("mac", None), macSigned)
  BY <1>2, AuthenticateUnderstood
<1>4. Done("verified") /\ UNCHANGED <<tokenVars, macVars, rssi>>
  BY <1>3 DEF VerifyAddress
<1> QED
  BY <1>4, DoneKeeps

LEMMA Inductive == IInv /\ [Next]_vars => IInv'
<1> SUFFICES ASSUME IInv, [Next]_vars PROVE IInv'
  OBVIOUS
<1>1. ASSUME NEW n \in Nonces, NEW r \in RandomSizes, NEW s \in SignatureSizes,
             MakeDemand(n, r, s)
      PROVE  IInv'
  BY <1>1, MakeDemandKeeps
<1>2. CASE Expire
  BY <1>2, ExpireKeeps
<1>3. CASE ReadDemand
  BY <1>3, ReadDemandKeeps
<1>4. ASSUME NEW s \in SignatureSizes, MakeNotification(s) PROVE IInv'
  BY <1>4, MakeNotificationKeeps
<1>5. ASSUME NEW s \in SignatureSizes, ReadAuthenticate(s) PROVE IInv'
  BY <1>5, ReadAuthenticateKeeps
<1>6. CASE ReadNotification
  BY <1>6, ReadNotificationKeeps
<1>7. CASE VerifyAddress
  BY <1>7, VerifyAddressKeeps
<1>8. CASE UNCHANGED vars
  <2>1. /\ UNCHANGED <<stage, packet, nonce, cached, signed, macSigned, hashed>>
        /\ UNCHANGED <<m_RandomDataBlock, m_Rssi, m_SignedMacData, outcome, rssi>>
    BY <1>8 DEF vars
  <2>2. StageInv'
    <3>1. \A r, s : DemandInv(r, s)' = DemandInv(r, s)
      BY <2>1 DEF DemandInv, CachedOr
    <3>2. \A r : NotifyInv(r)' = NotifyInv(r)
      BY <2>1 DEF NotifyInv, CachedOr
    <3>3. \A r, s : AnswerInv(r, s)' = AnswerInv(r, s)
      BY <2>1 DEF AnswerInv, CachedOr
    <3> QED
      BY <2>1, <3>1, <3>2, <3>3 DEF IInv, StageInv
  <2>3. MacInv'
    BY <2>1 DEF IInv, MacInv
  <2>4. OutcomeInv'
    BY <2>1 DEF IInv, OutcomeInv
  <2> QED
    BY <2>2, <2>3, <2>4 DEF IInv
<1> QED
  BY <1>1, <1>2, <1>3, <1>4, <1>5, <1>6, <1>7, <1>8 DEF Next

LEMMA Invariance == Spec => []IInv
<1>1. Init => IInv
  BY DEF Init, IInv, StageInv, MacInv, OutcomeInv
<1> QED
  BY <1>1, Inductive, PTL DEF Spec

\* No assertion about sizes and offsets fails, whatever sizes the random blocks and
\* the signatures have that fit the demand's (CRssiDemander.cpp:36, 70, 309,
\* CWhereAmI.cpp:97, CHash.hpp:67, CWhoAmI.cpp:21-51).
THEOREM AssertionsHold == Spec => []NoAssertionFails
<1>1. IInv => NoAssertionFails
  BY DEF IInv, StageInv, NoAssertionFails
<1> QED
  BY <1>1, Invariance, PTL

\* What one side makes the other understands, and the client shows the RSSI that
\* the token measured (CRssiDemander.cpp:76-169, CWhereAmI.cpp:242-263,
\* CServer.cpp:389-415).
THEOREM AllUnderstood == Spec => []PacketsUnderstood
<1>1. IInv => PacketsUnderstood
  BY DEF IInv, OutcomeInv, PacketsUnderstood
<1> QED
  BY <1>1, Invariance, PTL

\* The hash in the notification covers the random block and the RSSI that the client
\* reads in it (CWhereAmI.cpp:125-135, 397-412).
THEOREM HashAlwaysCovers == Spec => []HashCovers
<1>1. IInv => HashCovers
  <2>1. SUFFICES ASSUME IInv, stage = "answer"
                 PROVE  LET r == Num(packet, Notification.randomDataSize)
                        IN /\ hashed = View(packet, Num(packet, Notification.randomDataOffset), r + 1)
                           /\ hashed[r] = packet[Num(packet, Notification.rssiOffset)]
    BY DEF HashCovers
  <2>2. PICK r \in RandomSizes, s \in SignatureSizes : AnswerInv(r, s)
    BY <2>1 DEF IInv, StageInv
  <2> QED
    BY <2>2 DEF AnswerInv, NotificationLayout, Notification
<1> QED
  BY <1>1, Invariance, PTL
=============================================================================
