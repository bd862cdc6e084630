-------------------------- MODULE ProvisioningProofs --------------------------
(***************************************************************************)
(* Proofs about Provisioning for any number of failures, power cuts,       *)
(* presses and uses of Generate Keys: that keys are counted only when      *)
(* stored, that every variable keeps its type, for keys and packets of any *)
(* size, and that the keys stored are whole, for those of the program, and *)
(* for any size where no call fails.  Of one use of Generate Keys no key   *)
(* is counted twice.                                                       *)
(*                                                                         *)
(* A parser that is out of step with the packets must not complete a key.  *)
(* Flows says that nothing is missing in a sequence of packets, Doomed that *)
(* something is, so that no size will come out right any more; Misfits are *)
(* the sums this rests on.  With keys and packets of other sizes the parts *)
(* of two keys may add up to one.                                          *)
(***************************************************************************)
EXTENDS Provisioning, FiniteSetTheorems, SequenceTheorems, TLAPS

-----------------------------------------------------------------------------
\* The count and the keys stored.

\* The callback that is between storing and counting has a stored key that is
\* not counted yet; the count it has read is behind as well, even if the button
\* has written 0 meanwhile.  Boots find the callback idle.
CountInv ==
    /\ DOMAIN usb = {"pc", "count"}
    /\ nvs.count \in Int /\ usb.count \in Int /\ stores \in Nat
    /\ nvs.count <= stores
    /\ usb.pc = "read" => stores > 0 /\ nvs.count < stores
    /\ usb.pc = "write" => stores > 0 /\ nvs.count < stores /\ usb.count < stores
    /\ mode = "boot" => usb.pc = "idle"

\* Nothing is stored or counted at first.
LEMMA CountInit == Init => CountInv
<1> SUFFICES ASSUME Init PROVE CountInv
  OBVIOUS
<1>1. nvs.count \in {0, -1}
  BY DEF Init, Erased, WriteInt8, NoCount
<1>2. usb = [pc |-> "idle", count |-> 0] /\ stores = 0
  BY DEF Init
<1> QED BY <1>1, <1>2 DEF CountInv

\* A restart leaves the callback idle; storage may have lost what it counted, or
\* counted what the callback was to count.
LEMMA RebootKeeps ==
    ASSUME CountInv, Reboot, UNCHANGED stores, nvs'.count \in Int, nvs'.count <= stores
    PROVE  CountInv'
<1>1. usb' = [pc |-> "idle", count |-> 0]
  BY DEF Reboot
<1> QED BY <1>1 DEF CountInv

\* The writes that fail have counted no key that is not stored.
LEMMA FailuresKeep ==
    ASSUME CountInv, Reboot, UNCHANGED stores,
           \/ StoreKeyFails \/ WriteCountFails \/ BootCreatesFails \/ ResetWriteFails
           \/ FlashFails \/ StorageFails
    PROVE  CountInv'
<1>1. CASE StoreKeyFails
  <2>1. nvs'.count = nvs.count
    BY <1>1 DEF StoreKeyFails, WriteErrors, Written, WriteBinary
  <2> QED BY <2>1, RebootKeeps DEF CountInv
<1>2. CASE WriteCountFails
  <2>1. usb.pc = "write" /\ nvs'.count \in {nvs.count, usb.count + 1}
    BY <1>2 DEF WriteCountFails, WriteErrors, Written, WriteInt8
  <2> QED BY <2>1, RebootKeeps DEF CountInv
<1>3. CASE BootCreatesFails \/ ResetWriteFails
  <2>1. nvs'.count \in {nvs.count, 0}
    BY <1>3 DEF BootCreatesFails, ResetWriteFails, WriteErrors, Written, WriteInt8
  <2> QED BY <2>1, RebootKeeps DEF CountInv
<1>4. CASE FlashFails \/ StorageFails
  <2>1. nvs'.count \in {nvs.count, -1}
    BY <1>4 DEF FlashFails, StorageFails, Erased, NoCount
  <2> QED BY <2>1, RebootKeeps DEF CountInv
<1> QED BY <1>1, <1>2, <1>3, <1>4

\* No step counts a key that was not stored.
LEMMA CountStep == CountInv /\ [Next]_vars => CountInv'
<1> SUFFICES ASSUME CountInv, [Next]_vars PROVE CountInv'
  OBVIOUS
<1>1. CASE UNCHANGED <<nvs, usb, stores, mode>>
  BY <1>1 DEF CountInv
<1>2. ASSUME NEW a, Trap(a) PROVE CountInv'
  BY <1>2, RebootKeeps DEF Trap, Stop, CountInv
<1>3. CASE Reboot /\ UNCHANGED <<nvs, stores>>
  BY <1>3, RebootKeeps DEF CountInv
<1>4. CASE Receive
  <2>1. CASE /\ UNCHANGED <<nvs, mode, stores>> /\ mode = "listen" /\ usb.pc = "idle"
             /\ ReadHeader \/ ReadData
    <3>1. usb' = usb \/ usb' = [usb EXCEPT !.pc = "store"]
      BY <2>1 DEF ReadHeader, ReadData
    <3> QED BY <2>1, <3>1 DEF CountInv
  <2> QED BY <1>2, <1>4, <2>1 DEF Receive, history
<1>5. CASE StoreKey
  <2>1. /\ usb' = [usb EXCEPT !.pc = "read"] /\ stores' = stores + 1 /\ mode' = mode
        /\ usb.pc = "store"
    BY <1>5 DEF StoreKey
  <2>2. nvs'.count = nvs.count
    BY <1>5 DEF StoreKey, WriteBinary
  <2>3. usb'.pc = "read" /\ usb'.count = usb.count /\ DOMAIN usb' = DOMAIN usb
    BY <2>1 DEF CountInv
  <2> QED BY <2>1, <2>2, <2>3 DEF CountInv
<1>6. CASE ReadCount
  <2>1. usb.pc = "read" /\ usb' = [pc |-> "write", count |-> nvs.count]
        /\ UNCHANGED <<nvs, mode, stores>>
    BY <1>6 DEF ReadCount, history
  <2> QED BY <2>1 DEF CountInv
<1>7. CASE WriteCount
  <2>1. /\ usb.pc = "write" /\ usb' = [pc |-> "idle", count |-> 0]
        /\ nvs'.count = usb.count + 1
        /\ UNCHANGED <<mode, stores>>
    BY <1>7 DEF WriteCount, history, WriteInt8
  <2> QED BY <2>1 DEF CountInv
<1>8. CASE BootCreates
  <2>1. /\ mode = "boot" /\ mode' = "listen" /\ stores' = 0 /\ usb' = usb
        /\ nvs'.count = 0
    BY <1>8 DEF BootCreates, WriteInt8
  <2> QED BY <2>1 DEF CountInv
<1>9. CASE BootListens
  <2>1. mode = "boot" /\ mode' = "listen" /\ stores' = 0 /\ UNCHANGED <<usb, nvs>> /\ nvs.count = 0
    BY <1>9 DEF BootListens
  <2> QED BY <2>1 DEF CountInv
<1>10. CASE BootServes
  <2>1. mode = "boot" /\ mode' = "ble" /\ UNCHANGED <<usb, nvs, stores>>
    BY <1>10 DEF BootServes, history
  <2> QED BY <2>1 DEF CountInv
<1>11. CASE ResetOpens
  <2>1. nvs'.count = nvs.count /\ UNCHANGED <<usb, mode, stores>>
    BY <1>11 DEF ResetOpens, history
  <2> QED BY <2>1 DEF CountInv
<1>12. CASE ResetWrites
  <2>1. nvs'.count = 0 /\ UNCHANGED <<usb, mode, stores>>
    BY <1>12 DEF ResetWrites, history, WriteInt8
  <2> QED BY <2>1 DEF CountInv
<1>13. CASE EraseFlash
  <2>1. nvs'.count = -1 /\ UNCHANGED <<usb, mode, stores>>
    BY <1>13 DEF EraseFlash, Erased, NoCount, ram, history
  <2> QED BY <2>1 DEF CountInv
<1>14. CASE StoreKeyFails \/ WriteCountFails \/ BootCreatesFails \/ ResetWriteFails
            \/ FlashFails \/ StorageFails
  <2>1. Reboot /\ UNCHANGED stores
    BY <1>14 DEF StoreKeyFails, WriteCountFails, BootCreatesFails, ResetWriteFails,
                 FlashFails, StorageFails, Stop, history
  <2> QED BY <1>14, <2>1, FailuresKeep
<1>15. \/ UNCHANGED <<nvs, usb, stores, mode>>
       \/ (\E a : Trap(a))
       \/ Reboot /\ UNCHANGED <<nvs, stores>>
       \/ Receive \/ StoreKey \/ ReadCount \/ WriteCount
       \/ BootCreates \/ BootListens \/ BootServes \/ ResetOpens \/ ResetWrites
       \/ EraseFlash \/ StoreKeyFails \/ WriteCountFails \/ BootCreatesFails \/ ResetWriteFails
       \/ FlashFails \/ StorageFails
  BY DEF Next, vars, ram, history, GenerateKeys, OpenPort, OpenPortFails, WritePacket, WriteFails,
         ReceiveFails, UsbStep, StoreKeyThrows, MainStep, BootWithoutNamespace, BootWithoutKeys,
         BootAsserts, Poll, PollRestarts, NoHandle, PressButton, ResetRestarts, PowerCut
<1> QED
  BY <1>1, <1>2, <1>3, <1>4, <1>5, <1>6, <1>7, <1>8, <1>9, <1>10, <1>11, <1>12, <1>13, <1>14, <1>15

\* A key is counted only after it was stored, whatever restarts, failures and
\* presses of the button come in between.
THEOREM CountAlwaysBacked == Spec => []CountBacked
<1>1. CountInv => CountBacked
  BY DEF CountInv, CountBacked
<1> QED BY CountInit, CountStep, <1>1, PTL DEF Spec

\* A nonempty set of naturals has a least element.
LEMMA Least ==
    ASSUME NEW S \in SUBSET Nat, S # {}
    PROVE  \E m \in S : \A n \in S : m <= n
<1> DEFINE T == {0..k : k \in S}
<1>1. T \subseteq FiniteSubsetsOf(Nat) /\ T # {}
  <2>1. \A k \in S : 0..k \in SUBSET Nat /\ IsFiniteSet(0..k)
    BY FS_Interval
  <2> QED
    BY <2>1 DEF FiniteSubsetsOf
<1> HIDE DEF T
<1>2. PICK U \in T : \A V \in T : <<V, U>> \notin StrictSubsetOrdering(Nat)
  BY <1>1, FS_StrictSubsetOrderingWellFounded, WFMin
<1>3. PICK m \in S : U = 0..m
  BY DEF T
<1>4. ASSUME NEW n \in S, n < m PROVE FALSE
  <2>1. 0..n \in T
    BY DEF T
  <2>2. 0..n \in SUBSET Nat /\ 0..m \in SUBSET Nat /\ 0..n \subseteq 0..m
    BY <1>4
  <2>3. m \in 0..m /\ m \notin 0..n
    BY <1>4
  <2>4. <<0..n, 0..m>> \in StrictSubsetOrdering(Nat)
    BY <2>2, <2>3 DEF StrictSubsetOrdering
  <2> QED
    BY <1>2, <1>3, <2>1, <2>4
<1> QED
  BY <1>4

\* A set that holds 0 and the successor of each of its naturals holds them all.
LEMMA Induction ==
    ASSUME NEW S, 0 \in S, \A n \in Nat : n \in S => n + 1 \in S
    PROVE  Nat \subseteq S
<1> SUFFICES ASSUME ~ (Nat \subseteq S) PROVE FALSE
  OBVIOUS
<1> DEFINE T == Nat \ S
<1>1. PICK m \in T : \A n \in T : m <= n
  <2>1. T \in SUBSET Nat /\ T # {}
    OBVIOUS
  <2> HIDE DEF T
  <2> QED
    BY <2>1, Least
<1>2. m # 0 /\ m \in Nat
  OBVIOUS
<1>3. m - 1 \in Nat /\ m - 1 \notin T
  BY <1>1, <1>2
<1>4. (m - 1) + 1 \in S
  BY <1>3
<1> QED
  BY <1>2, <1>4


-----------------------------------------------------------------------------
\* The bytes of a sequence of packets.

\* h adds up the sizes of the packets at a set of places.
Folding(h, q, S) ==
    h = [s \in SUBSET S |-> IF s = {} THEN 0 ELSE h[s \ {Max(s)}] + q[Max(s)].size]

\* The largest of a set, where it is known.
LEMMA Largest ==
    ASSUME NEW k \in Int, NEW s \in SUBSET Int, k \in s, \A j \in s : j <= k
    PROVE  Max(s) = k
<1>1. \A j \in s : (\A y \in s : j >= y) => j = k
  OBVIOUS
<1> QED
  BY <1>1 DEF Max

\* The function that Bytes is defined by exists.
LEMMA FoldingExists ==
    ASSUME NEW q
    PROVE  \A k \in Nat : \E h : Folding(h, q, 1..k)
<1> DEFINE S == {k \in Nat : \E h : Folding(h, q, 1..k)}
<1>1. 0 \in S
  <2> DEFINE h == [s \in SUBSET (1..0) |-> 0]
  <2>1. SUBSET (1..0) = {{}}
    OBVIOUS
  <2>2. Folding(h, q, 1..0)
    BY <2>1 DEF Folding
  <2> QED
    BY <2>2
<1>2. ASSUME NEW k \in Nat, k \in S PROVE k + 1 \in S
  <2>1. PICK h : Folding(h, q, 1..k)
    BY <1>2
  <2> DEFINE g == [s \in SUBSET (1..k + 1) |->
                     IF k + 1 \in s THEN h[s \ {k + 1}] + q[k + 1].size ELSE h[s]]
  <2>2. ASSUME NEW s \in SUBSET (1..k + 1)
        PROVE  g[s] = IF s = {} THEN 0 ELSE g[s \ {Max(s)}] + q[Max(s)].size
    <3>1. CASE k + 1 \in s
      <4>1. Max(s) = k + 1
        BY <3>1, Largest
      <4>2. s \ {k + 1} \in SUBSET (1..k + 1) /\ k + 1 \notin s \ {k + 1}
        OBVIOUS
      <4>3. g[s \ {k + 1}] = h[s \ {k + 1}]
        BY <4>2
      <4> QED
        BY <3>1, <4>1, <4>3
    <3>2. CASE k + 1 \notin s
      <4>1. s \in SUBSET (1..k)
        BY <3>2
      <4>2. g[s] = h[s]
        BY <3>2
      <4>3. h[s] = IF s = {} THEN 0 ELSE h[s \ {Max(s)}] + q[Max(s)].size
        BY <2>1, <4>1 DEF Folding
      <4>4. s \ {Max(s)} \in SUBSET (1..k + 1) /\ k + 1 \notin s \ {Max(s)}
        BY <3>2
      <4>5. g[s \ {Max(s)}] = h[s \ {Max(s)}]
        BY <4>4
      <4> QED
        BY <4>2, <4>3, <4>5
    <3> QED
      BY <3>1, <3>2
  <2>3. Folding(g, q, 1..k + 1)
    BY <2>2 DEF Folding
  <2> QED
    BY <2>3
<1> HIDE DEF S
<1>3. Nat \subseteq S
  BY <1>1, <1>2, Induction
<1> QED
  BY <1>3 DEF S

\* The sizes are added one after the other, from the first to the last.
LEMMA Summed ==
    ASSUME NEW T, NEW q \in Seq(T)
    PROVE  \E g : /\ Bytes(q) = g[Len(q)]
                  /\ g[0] = 0
                  /\ \A k \in 1..Len(q) : g[k] = g[k - 1] + q[k].size
<1>0. PICK n \in Nat : DOMAIN q = 1..n /\ Len(q) = n
  BY LenProperties
<1> DEFINE h == CHOOSE h : Folding(h, q, 1..n)
<1>1. Bytes(q) = h[1..n]
  BY <1>0 DEF Bytes, FoldLeft, MapThenFoldSet, Folding
<1>2. Folding(h, q, 1..n)
  BY FoldingExists
<1> HIDE DEF h
<1> DEFINE g == [k \in 0..n |-> h[1..k]]
<1>3. g[0] = 0
  <2>1. 1..0 = {}
    OBVIOUS
  <2>2. h[{}] = 0
    BY <1>2 DEF Folding
  <2> QED
    BY <2>1, <2>2
<1>4. ASSUME NEW k \in 1..n PROVE g[k] = g[k - 1] + q[k].size
  <2>1. /\ k \in Nat /\ k \in 1..k
        /\ \A j \in 1..k : j <= k /\ j \in Int /\ j \in 1..n
    OBVIOUS
  <2>2. Max(1..k) = k
    BY <2>1, Largest
  <2>3. (1..k) \ {k} = 1..k - 1
    OBVIOUS
  <2>4. h[1..k] = h[1..k - 1] + q[k].size
    BY <1>2, <2>1, <2>2, <2>3 DEF Folding
  <2>5. k \in 0..n /\ k - 1 \in 0..n
    OBVIOUS
  <2> QED
    BY <2>4, <2>5
<1>5. g[n] = h[1..n]
  OBVIOUS
<1> QED
  BY <1>0, <1>1, <1>3, <1>4, <1>5

\* No bytes, and those of one packet.
LEMMA FewBytes ==
    /\ Bytes(<<>>) = 0
    /\ \A p : p.size \in Nat => Bytes(<<p>>) = p.size
<1>1. Bytes(<<>>) = 0
  <2>1. <<>> \in Seq({0}) /\ Len(<<>>) = 0
    BY EmptySeq
  <2> QED
    BY <2>1, Summed
<1>2. ASSUME NEW p, p.size \in Nat PROVE Bytes(<<p>>) = p.size
  <2>1. <<p>> \in Seq({p}) /\ Len(<<p>>) = 1 /\ <<p>>[1] = p
    OBVIOUS
  <2>2. PICK g : /\ Bytes(<<p>>) = g[Len(<<p>>)] /\ g[0] = 0
                 /\ \A k \in 1..Len(<<p>>) : g[k] = g[k - 1] + <<p>>[k].size
    BY <2>1, Summed
  <2>3. 1 \in 1..Len(<<p>>) /\ 1 - 1 = 0
    BY <2>1
  <2>4. g[1] = g[0] + p.size
    BY <2>1, <2>2, <2>3
  <2> QED
    BY <1>2, <2>1, <2>2, <2>4
<1> QED
  BY <1>1, <1>2

\* The bytes of two sequences add up.
LEMMA MoreBytes ==
    ASSUME NEW T, \A p \in T : p.size \in Nat, NEW q \in Seq(T), NEW r \in Seq(T)
    PROVE  Bytes(q) \in Nat /\ Bytes(r) \in Nat /\ Bytes(q \o r) = Bytes(q) + Bytes(r)
<1> SUFFICES ASSUME NEW c, c = q \o r
             PROVE  Bytes(q) \in Nat /\ Bytes(r) \in Nat /\ Bytes(c) = Bytes(q) + Bytes(r)
  OBVIOUS
<1>1. PICK n \in Nat, m \in Nat : n = Len(q) /\ m = Len(r)
  BY LenProperties
<1>2. /\ c \in Seq(T) /\ Len(c) = n + m
      /\ \A i \in 1..n + m : c[i] = IF i <= n THEN q[i] ELSE r[i - n]
  BY <1>1, ConcatProperties
<1>3. (\A i \in 1..n : q[i].size \in Nat) /\ (\A i \in 1..m : r[i].size \in Nat)
  BY <1>1, ElementOfSeq
<1>4. PICK g : /\ Bytes(c) = g[n + m] /\ g[0] = 0
               /\ \A k \in 1..n + m : g[k] = g[k - 1] + c[k].size
  <2>1. PICK g : /\ Bytes(c) = g[Len(c)] /\ g[0] = 0
                 /\ \A k \in 1..Len(c) : g[k] = g[k - 1] + c[k].size
    <3>1. c \in Seq(T)
      BY <1>2
    <3> QED
      BY <3>1, Summed, Zenon
  <2>2. Len(c) = n + m
    BY <1>2
  <2> QED
    BY <2>1, <2>2, Zenon
<1>5. PICK a : /\ Bytes(q) = a[n] /\ a[0] = 0
               /\ \A k \in 1..n : a[k] = a[k - 1] + q[k].size
  BY <1>1, Summed
<1>6. PICK b : /\ Bytes(r) = b[m] /\ b[0] = 0
               /\ \A k \in 1..m : b[k] = b[k - 1] + r[k].size
  BY <1>1, Summed
<1> DEFINE S == {k \in Nat : k <= n => a[k] \in Nat /\ g[k] = a[k]}
           R == {k \in Nat : k <= m => b[k] \in Nat /\ g[n + k] = a[n] + b[k]}
<1>7. n \in S
  <2>1. 0 \in S
    BY <1>4, <1>5
  <2>2. ASSUME NEW k \in Nat, k \in S PROVE k + 1 \in S
    <3>1. SUFFICES ASSUME k + 1 <= n PROVE a[k + 1] \in Nat /\ g[k + 1] = a[k + 1]
      OBVIOUS
    <3>2. a[k] \in Nat /\ g[k] = a[k]
      BY <2>2, <3>1
    <3>3. k + 1 \in 1..n /\ k + 1 \in 1..n + m /\ (k + 1) - 1 = k
      BY <3>1
    <3>4. c[k + 1] = q[k + 1]
      BY <1>2, <3>1, <3>3
    <3>5. g[k + 1] = g[k] + q[k + 1].size
      BY <1>4, <3>3, <3>4
    <3>6. a[k + 1] = a[k] + q[k + 1].size
      BY <1>5, <3>3
    <3>7. q[k + 1].size \in Nat
      BY <1>3, <3>3
    <3> QED
      BY <3>2, <3>5, <3>6, <3>7
  <2> HIDE DEF S
  <2> QED
    BY <2>1, <2>2, Induction
<1>8. a[n] \in Nat /\ g[n] = a[n]
  BY <1>7
<1> HIDE DEF S
<1>9. m \in R
  <2>1. 0 \in R
    BY <1>6, <1>8
  <2>2. ASSUME NEW k \in Nat, k \in R PROVE k + 1 \in R
    <3>1. SUFFICES ASSUME k + 1 <= m PROVE b[k + 1] \in Nat /\ g[n + (k + 1)] = a[n] + b[k + 1]
      OBVIOUS
    <3>2. b[k] \in Nat /\ g[n + k] = a[n] + b[k]
      BY <2>2, <3>1
    <3>3. /\ k + 1 \in 1..m /\ n + (k + 1) \in 1..n + m /\ (n + (k + 1)) - 1 = n + k
          /\ (k + 1) - 1 = k /\ ~(n + (k + 1) <= n) /\ (n + (k + 1)) - n = k + 1
      BY <3>1
    <3>4. c[n + (k + 1)] = r[k + 1]
      BY <1>2, <3>3
    <3>5. g[n + (k + 1)] = g[n + k] + r[k + 1].size
      BY <1>4, <3>3, <3>4
    <3>6. b[k + 1] = b[k] + r[k + 1].size
      BY <1>6, <3>3
    <3>7. r[k + 1].size \in Nat
      BY <1>3, <3>3
    <3>8. PICK u \in Nat, v \in Nat, w \in Nat : u = a[n] /\ v = b[k] /\ w = r[k + 1].size
      BY <1>8, <3>2, <3>7
    <3>9. g[n + (k + 1)] = (u + v) + w /\ b[k + 1] = v + w
      BY <3>2, <3>5, <3>6, <3>8
    <3>10. (u + v) + w = u + (v + w) /\ v + w \in Nat
      OBVIOUS
    <3> QED
      BY <3>8, <3>9, <3>10
  <2> HIDE DEF R
  <2> QED
    BY <2>1, <2>2, Induction
<1>10. b[m] \in Nat /\ g[n + m] = a[n] + b[m]
  BY <1>9
<1> QED
  BY <1>4, <1>5, <1>6, <1>8, <1>10

-----------------------------------------------------------------------------
\* The stream of packets.

\* The parts of a key.
Parts == {"type", "size", "data", "rest"}

\* A key of this type takes two packets.
Long(t) == KeySize[t] > PacketSize

\* The packets of n uses of Generate Keys.
Packets(n) ==
    {p \in [part : Parts, key : KeyTypes, gen : 1..n, size : Nat \ {0}, value : Nat] :
        /\ p.part = "type" => p.size = 1 /\ p.value = KeyValue[p.key]
        /\ p.part = "size" => p.size = 1 /\ p.value = KeySize[p.key]
        /\ p.part = "data" => /\ p.size = IF Long(p.key) THEN PacketSize ELSE KeySize[p.key]
                              /\ p.value = 0
        /\ p.part = "rest" => Long(p.key) /\ p.size = KeySize[p.key] - PacketSize /\ p.value = 0}

\* The parser that a packet is meant for, and the one it leaves; a parser is empty
\* again once the key is complete.
Before(p) ==
    CASE p.part = "type" -> EmptyParser
      [] p.part = "size" -> Parser(p.key, 0, <<>>)
      [] p.part = "data" -> Parser(p.key, KeySize[p.key], <<>>)
      [] p.part = "rest" -> Parser(p.key, KeySize[p.key],
                                   <<Packet("data", p.key, p.gen, PacketSize, 0)>>)

After(p) ==
    CASE p.part = "type" -> Parser(p.key, 0, <<>>)
      [] p.part = "size" -> Parser(p.key, KeySize[p.key], <<>>)
      [] p.part = "data" -> IF Long(p.key) THEN Parser(p.key, KeySize[p.key], <<p>>) ELSE EmptyParser
      [] p.part = "rest" -> EmptyParser

\* Nothing is missing in the packets c, up to the end of a key.
Flows(c) ==
    /\ \A i \in 1..Len(c) : i + 1 <= Len(c) => Before(c[i + 1]) = After(c[i])
    /\ c # <<>> => After(c[Len(c)]) = EmptyParser

\* The parser that c is meant for.
At(c) == IF c = <<>> THEN EmptyParser ELSE Before(c[1])

\* What comes next is what the parser pr expects.
InStep(pr, c) == Flows(c) /\ pr = At(c)

-----------------------------------------------------------------------------
\* The stream with something missing.

\* What a parser expects.
Awaited(pr) ==
    IF pr.type = "undefined" THEN "type"
    ELSE IF pr.size = 0 THEN "size"
    ELSE IF pr.data = <<>> THEN "data" ELSE "rest"

\* Size expected, bytes there, and the part that comes next: with the sizes of the
\* program the bytes pass the size without being equal to it.
Misfits ==
    {<<91, 0, "type">>, <<91, 1, "size">>, <<91, 2, "data">>,
     <<91, 53, "type">>, <<91, 54, "size">>, <<91, 55, "data">>, <<91, 66, "rest">>,
     <<91, 64, "type">>, <<91, 65, "size">>, <<91, 66, "data">>,
     <<51, 0, "type">>, <<51, 1, "size">>, <<51, 2, "data">>}

\* The parser is at pr while the sender is at place v.
Misplaced(pr, v) ==
    \/ pr = EmptyParser /\ Awaited(v) = "size"
    \/ pr.type \in KeyTypes /\ pr.size = 0 /\ Awaited(v) = "data"
    \/ pr.type \in KeyTypes /\ <<pr.size, Bytes(pr.data), Awaited(v)>> \in Misfits

\* More has been read than was expected.
Overfull(pr) == pr.type \in KeyTypes /\ pr.size # 0 /\ Bytes(pr.data) > pr.size

\* The parser completes no key of a valid type any more.
Doomed(pr, c) ==
    \/ pr.type = "invalid"
    \/ Overfull(pr)
    \/ Flows(c) /\ Misplaced(pr, At(c))

\* After one more packet.
SoonDoomed(pr, c) == c # <<>> /\ pr = Before(c[1]) /\ Doomed(After(c[1]), Tail(c))

\* The packet u has arrived but was not read.
Held(pr, u, c) ==
    \/ pr.type = "undefined" \/ pr.size = 0
    \/ Bytes(pr.data) + u.size >= pr.size
    \/ pr = Before(u) /\ u.part = "data" /\ Long(u.key) /\ Flows(c) /\ After(u) = At(c)

-----------------------------------------------------------------------------
\* A packet before others.
LEMMA OneBefore ==
    ASSUME NEW T, NEW p \in T, NEW s \in Seq(T)
    PROVE  /\ <<p>> \o s \in Seq(T) /\ <<p>> \o s # <<>>
           /\ (<<p>> \o s)[1] = p /\ Tail(<<p>> \o s) = s
<1>1. PICK m \in Nat : m = Len(s)
  BY LenProperties
<1>2. <<p>> \in Seq(T) /\ Len(<<p>>) = 1 /\ <<p>>[1] = p
  OBVIOUS
<1>3. PICK c : c = <<p>> \o s
  OBVIOUS
<1>4. /\ c \in Seq(T) /\ Len(c) = 1 + m
      /\ \A i \in 1..1 + m : c[i] = IF i <= 1 THEN <<p>>[i] ELSE s[i - 1]
  BY <1>1, <1>2, <1>3, ConcatProperties
<1>5. c # <<>> /\ c[1] = p
  <2>1. 1 \in 1..1 + m /\ 1 + m # 0
    OBVIOUS
  <2> QED
    BY <1>2, <1>4, <2>1, EmptySeq
<1>6. /\ Tail(c) \in Seq(T) /\ Len(Tail(c)) = Len(c) - 1
      /\ \A i \in 1..Len(Tail(c)) : Tail(c)[i] = c[i + 1]
  BY <1>4, <1>5, HeadTailProperties
<1>7. Len(Tail(c)) = Len(s)
  BY <1>1, <1>4, <1>6
<1>8. ASSUME NEW i \in 1..Len(s) PROVE Tail(c)[i] = s[i]
  <2>1. i + 1 \in 1..1 + m /\ ~(i + 1 <= 1) /\ (i + 1) - 1 = i
    BY <1>1
  <2> QED
    BY <1>4, <1>6, <1>7, <2>1
<1>9. Tail(c) = s
  BY <1>6, <1>7, <1>8, SeqEqual
<1> QED
  BY <1>3, <1>4, <1>5, <1>9

\* A flow without its first packet.
LEMMA FlowsTail ==
    ASSUME NEW T, NEW c \in Seq(T), c # <<>>, Flows(c)
    PROVE  Tail(c) \in Seq(T) /\ Flows(Tail(c)) /\ After(c[1]) = At(Tail(c))
<1>1. PICK m \in Nat \ {0} : m = Len(c)
  BY LenProperties, EmptySeq
<1>2. PICK s : s = Tail(c)
  OBVIOUS
<1>3. s \in Seq(T) /\ Len(s) = m - 1 /\ \A i \in 1..m - 1 : s[i] = c[i + 1]
  BY <1>1, <1>2, HeadTailProperties
<1>4. /\ \A i \in 1..m : i + 1 <= m => Before(c[i + 1]) = After(c[i])
      /\ After(c[m]) = EmptyParser
  BY <1>1 DEF Flows
<1>5. CASE m = 1
  <2>1. s = <<>>
    BY <1>3, <1>5, EmptySeq
  <2>2. Len(<<>>) = 0
    BY EmptySeq
  <2> QED
    BY <1>2, <1>3, <1>4, <1>5, <2>1, <2>2 DEF Flows, At
<1>6. CASE m # 1
  <2>1. s # <<>>
    BY <1>3, <1>6, EmptySeq
  <2>2. s[1] = c[2] /\ Before(c[2]) = After(c[1])
    <3>1. 1 \in 1..m - 1 /\ 1 \in 1..m /\ 1 + 1 <= m /\ 1 + 1 = 2
      BY <1>6
    <3> QED
      BY <1>3, <1>4, <3>1
  <2>3. After(s[m - 1]) = EmptyParser
    <3>1. m - 1 \in 1..m - 1 /\ (m - 1) + 1 = m
      BY <1>6
    <3> QED
      BY <1>3, <1>4, <3>1
  <2>4. ASSUME NEW i \in 1..m - 1, i + 1 <= m - 1 PROVE Before(s[i + 1]) = After(s[i])
    <3>1. i + 1 \in 1..m - 1 /\ i + 1 \in 1..m /\ (i + 1) + 1 <= m
      BY <2>4
    <3>2. s[i + 1] = c[(i + 1) + 1] /\ s[i] = c[i + 1]
      BY <1>3, <3>1
    <3> QED
      BY <1>4, <3>1, <3>2
  <2>5. Flows(s)
    BY <1>3, <2>3, <2>4 DEF Flows
  <2> QED
    BY <1>2, <1>3, <2>1, <2>2, <2>5 DEF At
<1> QED
  BY <1>5, <1>6

\* A flow and after it one that starts with a key.
LEMMA FlowsMore ==
    ASSUME NEW T, NEW c \in Seq(T), NEW k \in Seq(T), Flows(c), Flows(k), At(k) = EmptyParser
    PROVE  c \o k \in Seq(T) /\ Flows(c \o k) /\ At(c \o k) = At(c)
<1>1. PICK n \in Nat, m \in Nat : n = Len(c) /\ m = Len(k)
  BY LenProperties
<1>2. PICK s : s = c \o k
  OBVIOUS
<1>3. /\ s \in Seq(T) /\ Len(s) = n + m
      /\ \A i \in 1..n + m : s[i] = IF i <= n THEN c[i] ELSE k[i - n]
  BY <1>1, <1>2, ConcatProperties
<1>4. CASE n = 0
  <2>1. c = <<>>
    BY <1>1, <1>4, EmptySeq
  <2>2. s = k
    BY <1>2, <2>1, ConcatEmptySeq
  <2> QED
    BY <1>2, <2>1, <2>2 DEF At
<1>5. CASE m = 0
  <2>1. k = <<>>
    BY <1>1, <1>5, EmptySeq
  <2>2. s = c
    BY <1>2, <2>1, ConcatEmptySeq
  <2> QED
    BY <1>2, <2>2
<1>6. CASE n # 0 /\ m # 0
  <2>1. c # <<>> /\ k # <<>> /\ s # <<>>
    BY <1>1, <1>3, <1>6, EmptySeq
  <2>2. /\ \A i \in 1..n : i + 1 <= n => Before(c[i + 1]) = After(c[i])
        /\ After(c[n]) = EmptyParser
    BY <1>1, <2>1 DEF Flows
  <2>3. /\ \A i \in 1..m : i + 1 <= m => Before(k[i + 1]) = After(k[i])
        /\ After(k[m]) = EmptyParser
    BY <1>1, <2>1 DEF Flows
  <2>4. Before(k[1]) = EmptyParser
    BY <2>1 DEF At
  <2>5. s[1] = c[1]
    <3>1. 1 \in 1..n + m /\ 1 <= n
      BY <1>6
    <3> QED
      BY <1>3, <3>1
  <2>6. After(s[n + m]) = EmptyParser
    <3>1. n + m \in 1..n + m /\ ~(n + m <= n) /\ (n + m) - n = m
      BY <1>6
    <3> QED
      BY <1>3, <2>3, <3>1
  <2>7. ASSUME NEW i \in 1..n + m, i + 1 <= n + m PROVE Before(s[i + 1]) = After(s[i])
    <3>1. CASE i + 1 <= n
      <4>1. i \in 1..n /\ i <= n /\ i + 1 \in 1..n + m
        BY <2>7, <3>1
      <4>2. s[i] = c[i] /\ s[i + 1] = c[i + 1]
        BY <1>3, <3>1, <4>1
      <4> QED
        BY <2>2, <3>1, <4>1, <4>2
    <3>2. CASE i = n
      <4>1. n \in 1..n + m /\ n + 1 \in 1..n + m /\ ~(n + 1 <= n) /\ (n + 1) - n = 1
        BY <1>6
      <4>2. s[n] = c[n] /\ s[n + 1] = k[1]
        BY <1>3, <4>1
      <4> QED
        BY <2>2, <2>4, <3>2, <4>2
    <3>3. CASE i > n
      <4>1. /\ i - n \in 1..m /\ (i - n) + 1 <= m /\ ~(i <= n) /\ ~(i + 1 <= n)
            /\ i + 1 \in 1..n + m /\ (i + 1) - n = (i - n) + 1
        BY <2>7, <3>3
      <4>2. s[i] = k[i - n] /\ s[i + 1] = k[(i - n) + 1]
        BY <1>3, <4>1
      <4>3. Before(k[(i - n) + 1]) = After(k[i - n])
        BY <2>3, <4>1
      <4> QED
        BY <4>2, <4>3
    <3> QED
      BY <3>1, <3>2, <3>3
  <2>8. Flows(s)
    BY <1>3, <2>6, <2>7 DEF Flows
  <2> QED
    BY <1>2, <1>3, <2>1, <2>5, <2>8 DEF At
<1> QED
  BY <1>2, <1>3, <1>4, <1>5, <1>6

\* What the sizes are like.
LEMMA KeySizes ==
    ASSUME NEW t \in KeyTypes
    PROVE  /\ KeySize[t] \in Nat /\ KeySize[t] >= 4 /\ PacketSize \in Nat /\ PacketSize >= 2
           /\ KeySize[t] - PacketSize <= PacketSize /\ KeySize[t] - PacketSize # 1
           /\ KeyValue[t] \in {0, 1, 2} /\ KeySize[t] \notin {0, 1, 2}
           /\ TypeOfValue(KeyValue[t]) = t
<1>1. KeySize[t] \in 4..255
  BY ProvisioningAssumption
<1>2. PacketSize \in Nat \ {0, 1} /\ KeySize[t] <= 2 * PacketSize /\ KeySize[t] # PacketSize + 1
  BY ProvisioningAssumption
<1>3. KeyValue[t] \in {0, 1, 2}
  BY DEF KeyValue, KeyTypes
<1>4. \A u \in KeyTypes : KeyValue[u] = KeyValue[t] => u = t
  BY DEF KeyValue, KeyTypes
<1>5. TypeOfValue(KeyValue[t]) = t
  BY <1>4 DEF TypeOfValue
<1> QED
  BY <1>1, <1>2, <1>3, <1>5

\* Two packets one after the other.
LEMMA Pair ==
    ASSUME NEW T, NEW a \in T, NEW b \in T
    PROVE  <<a>> \o <<b>> = <<a, b>>
<1>1. <<a>> \in Seq(T) /\ Len(<<a>>) = 1 /\ <<a>>[1] = a
  OBVIOUS
<1>2. <<b>> \in Seq(T) /\ Len(<<b>>) = 1 /\ <<b>>[1] = b
  OBVIOUS
<1>3. PICK s : s = <<a>> \o <<b>>
  OBVIOUS
<1>4. /\ s \in Seq(T) /\ Len(s) = 2
      /\ \A i \in 1..2 : s[i] = IF i <= 1 THEN <<a>>[i] ELSE <<b>>[i - 1]
  BY <1>1, <1>2, <1>3, ConcatProperties
<1>5. s[1] = a /\ s[2] = b
  BY <1>1, <1>2, <1>4
<1>6. PICK r : r = <<a, b>>
  OBVIOUS
<1>7. r \in Seq(T) /\ Len(r) = 2 /\ r[1] = a /\ r[2] = b
  BY <1>6
<1>8. \A i \in 1..2 : i = 1 \/ i = 2
  OBVIOUS
<1>9. s = r
  BY <1>4, <1>5, <1>7, <1>8, SeqEqual
<1> QED
  BY <1>3, <1>6, <1>9

\* Short sequences one after the other.
LEMMA Triple ==
    ASSUME NEW T, NEW a \in T, NEW b \in T, NEW c \in T
    PROVE  <<a, b>> \o <<c>> = <<a, b, c>>
<1>1. <<a, b>> \in Seq(T) /\ Len(<<a, b>>) = 2 /\ <<a, b>>[1] = a /\ <<a, b>>[2] = b
  OBVIOUS
<1>2. <<c>> \in Seq(T) /\ Len(<<c>>) = 1 /\ <<c>>[1] = c
  OBVIOUS
<1>3. PICK s : s = <<a, b>> \o <<c>>
  OBVIOUS
<1>4. /\ s \in Seq(T) /\ Len(s) = 3
      /\ \A i \in 1..3 : s[i] = IF i <= 2 THEN <<a, b>>[i] ELSE <<c>>[i - 2]
  BY <1>1, <1>2, <1>3, ConcatProperties
<1>5. s[1] = a /\ s[2] = b /\ s[3] = c
  BY <1>1, <1>2, <1>4
<1>6. PICK r : r = <<a, b, c>>
  OBVIOUS
<1>7. r \in Seq(T) /\ Len(r) = 3 /\ r[1] = a /\ r[2] = b /\ r[3] = c
  BY <1>6
<1>8. \A i \in 1..3 : i = 1 \/ i = 2 \/ i = 3
  OBVIOUS
<1>9. s = r
  BY <1>4, <1>5, <1>7, <1>8, SeqEqual
<1> QED
  BY <1>3, <1>6, <1>9

LEMMA Quadruple ==
    ASSUME NEW T, NEW a \in T, NEW b \in T, NEW c \in T, NEW d \in T
    PROVE  <<a, b>> \o <<c, d>> = <<a, b, c, d>>
<1>1. <<a, b>> \in Seq(T) /\ Len(<<a, b>>) = 2 /\ <<a, b>>[1] = a /\ <<a, b>>[2] = b
  OBVIOUS
<1>2. <<c, d>> \in Seq(T) /\ Len(<<c, d>>) = 2 /\ <<c, d>>[1] = c /\ <<c, d>>[2] = d
  OBVIOUS
<1>3. PICK s : s = <<a, b>> \o <<c, d>>
  OBVIOUS
<1>4. /\ s \in Seq(T) /\ Len(s) = 4
      /\ \A i \in 1..4 : s[i] = IF i <= 2 THEN <<a, b>>[i] ELSE <<c, d>>[i - 2]
  BY <1>1, <1>2, <1>3, ConcatProperties
<1>5. s[1] = a /\ s[2] = b /\ s[3] = c /\ s[4] = d
  BY <1>1, <1>2, <1>4
<1>6. PICK r : r = <<a, b, c, d>>
  OBVIOUS
<1>7. r \in Seq(T) /\ Len(r) = 4 /\ r[1] = a /\ r[2] = b /\ r[3] = c /\ r[4] = d
  BY <1>6
<1>8. \A i \in 1..4 : i = 1 \/ i = 2 \/ i = 3 \/ i = 4
  OBVIOUS
<1>9. s = r
  BY <1>4, <1>5, <1>7, <1>8, SeqEqual
<1> QED
  BY <1>3, <1>6, <1>9

\* A key is sent without a gap.
LEMMA KeyFlows ==
    ASSUME NEW n \in Nat, NEW g \in 1..n, NEW t \in KeyTypes
    PROVE  LET k == KeyPackets(t, g) IN
           /\ k \in Seq(Packets(n)) /\ k # <<>> /\ Flows(k) /\ At(k) = EmptyParser
           /\ k[1].part = "type" /\ k[1].key = t /\ \A i \in 2..Len(k) : k[i].part # "type"
<1> DEFINE p1 == Packet("type", t, g, 1, KeyValue[t])
           p2 == Packet("size", t, g, 1, KeySize[t])
           p3 == Packet("data", t, g, KeySize[t], 0)
           p4 == Packet("data", t, g, PacketSize, 0)
           p5 == Packet("rest", t, g, KeySize[t] - PacketSize, 0)
<1>1. p1 \in Packets(n) /\ p2 \in Packets(n)
  BY KeySizes DEF Packet, Packets, Parts
<1>2. CASE ~Long(t)
  <2>1. Data(t, g) = <<p3>>
    BY <1>2, KeySizes DEF Long, Data
  <2>2. p3 \in Packets(n)
    BY <1>2, KeySizes DEF Packet, Packets, Parts, Long
  <2>3. Before(p1) = EmptyParser /\ After(p1) = Before(p2)
    BY DEF Before, After, Packet
  <2>4. After(p2) = Before(p3)
    BY DEF Before, After, Packet
  <2>5. After(p3) = EmptyParser
    BY <1>2 DEF After, Packet
  <2>6. p1.part = "type" /\ p1.key = t /\ p2.part # "type" /\ p3.part # "type"
    BY DEF Packet
  <2>7. KeyPackets(t, g) = <<p1, p2>> \o <<p3>>
    BY <2>1 DEF KeyPackets
  <2> HIDE DEF p1, p2, p3
  <2>8. <<p1, p2>> \o <<p3>> = <<p1, p2, p3>>
    BY <1>1, <2>2, Triple
  <2>9. PICK k : k = <<p1, p2, p3>>
    OBVIOUS
  <2>10. Len(k) = 3 /\ k[1] = p1 /\ k[2] = p2 /\ k[3] = p3 /\ k # <<>> /\ k \in Seq(Packets(n))
    BY <1>1, <2>2, <2>9
  <2>11. \A i \in 1..3 : i + 1 <= 3 => Before(k[i + 1]) = After(k[i])
    <3>1. \A i \in 1..3 : i + 1 <= 3 => i = 1 \/ i = 2
      OBVIOUS
    <3>2. Before(k[1 + 1]) = After(k[1]) /\ Before(k[2 + 1]) = After(k[2])
      BY <2>3, <2>4, <2>10
    <3> QED
      BY <3>1, <3>2
  <2>12. Flows(k)
    BY <2>5, <2>10, <2>11 DEF Flows
  <2>13. \A i \in 2..3 : k[i].part # "type"
    <3>1. \A i \in 2..3 : i = 2 \/ i = 3
      OBVIOUS
    <3> QED
      BY <2>6, <2>10, <3>1
  <2> QED
    BY <2>3, <2>6, <2>7, <2>8, <2>9, <2>10, <2>12, <2>13 DEF At
<1>3. CASE Long(t)
  <2>1. Data(t, g) = <<p4, p5>>
    BY <1>3, KeySizes DEF Long, Data
  <2>2. p4 \in Packets(n) /\ p5 \in Packets(n)
    BY <1>3, KeySizes DEF Packet, Packets, Parts, Long
  <2>3. Before(p1) = EmptyParser /\ After(p1) = Before(p2)
    BY DEF Before, After, Packet
  <2>4. After(p2) = Before(p4)
    BY DEF Before, After, Packet
  <2>5. After(p4) = Before(p5) /\ After(p5) = EmptyParser
    BY <1>3 DEF Before, After, Packet
  <2>6. p1.part = "type" /\ p1.key = t /\ p2.part # "type" /\ p4.part # "type" /\ p5.part # "type"
    BY DEF Packet
  <2>7. KeyPackets(t, g) = <<p1, p2>> \o <<p4, p5>>
    BY <2>1 DEF KeyPackets
  <2> HIDE DEF p1, p2, p4, p5
  <2>8. <<p1, p2>> \o <<p4, p5>> = <<p1, p2, p4, p5>>
    BY <1>1, <2>2, Quadruple
  <2>9. PICK k : k = <<p1, p2, p4, p5>>
    OBVIOUS
  <2>10. /\ Len(k) = 4 /\ k[1] = p1 /\ k[2] = p2 /\ k[3] = p4 /\ k[4] = p5 /\ k # <<>>
         /\ k \in Seq(Packets(n))
    BY <1>1, <2>2, <2>9
  <2>11. \A i \in 1..4 : i + 1 <= 4 => Before(k[i + 1]) = After(k[i])
    <3>1. \A i \in 1..4 : i + 1 <= 4 => i = 1 \/ i = 2 \/ i = 3
      OBVIOUS
    <3>2. /\ Before(k[1 + 1]) = After(k[1]) /\ Before(k[2 + 1]) = After(k[2])
          /\ Before(k[3 + 1]) = After(k[3])
      BY <2>3, <2>4, <2>5, <2>10
    <3> QED
      BY <3>1, <3>2
  <2>12. Flows(k)
    BY <2>5, <2>10, <2>11 DEF Flows
  <2>13. \A i \in 2..4 : k[i].part # "type"
    <3>1. \A i \in 2..4 : i = 2 \/ i = 3 \/ i = 4
      OBVIOUS
    <3> QED
      BY <2>6, <2>10, <3>1
  <2> QED
    BY <2>3, <2>6, <2>7, <2>8, <2>9, <2>10, <2>12, <2>13 DEF At
<1> QED
  BY <1>2, <1>3

\* The parts of a key in their order.
LEMMA PartsInOrder ==
    ASSUME NEW n \in Nat, NEW p \in Packets(n)
    PROVE  /\ Awaited(Before(p)) = p.part
           /\ Awaited(After(p)) = IF p.part = "type" THEN "size"
                                  ELSE IF p.part = "size" THEN "data"
                                  ELSE IF p.part = "data" /\ Long(p.key) THEN "rest" ELSE "type"
<1>1. KeySize[p.key] # 0 /\ p.part \in Parts
  BY KeySizes DEF Packets
<1>2. <<p>> # <<>> /\ <<Packet("data", p.key, p.gen, PacketSize, 0)>> # <<>>
  OBVIOUS
<1>3. p.key # "undefined"
  BY DEF Packets, KeyTypes
<1>4. Awaited(Before(p)) = p.part
  BY <1>1, <1>2, <1>3 DEF Before, Awaited, Parser, EmptyParser, Parts
<1>5. CASE p.part = "type" \/ p.part = "size"
  BY <1>1, <1>3, <1>4, <1>5 DEF After, Awaited, Parser, Parts
<1>6. CASE p.part = "data" \/ p.part = "rest"
  BY <1>1, <1>2, <1>3, <1>4, <1>6 DEF After, Awaited, Parser, EmptyParser, Parts
<1> QED
  BY <1>1, <1>4, <1>5, <1>6 DEF Parts

-----------------------------------------------------------------------------
\* What is missing, with the sizes of the program's keys and packets.

\* Keys in DER and the packets of the USB port.
ProgramSizes ==
    /\ KeySize = [clientPublic |-> 91, serverPublic |-> 91, serverPrivate |-> 51]
    /\ PacketSize = 64

\* The two sizes a key has; one of 91 bytes takes two packets.
LEMMA Sizes ==
    ASSUME ProgramSizes, NEW t \in KeyTypes
    PROVE  /\ PacketSize = 64 /\ KeySize[t] \in {51, 91}
           /\ Long(t) <=> KeySize[t] = 91
BY DEF ProgramSizes, KeyTypes, Long

\* Nothing is to come.
LEMMA NothingFlows == Flows(<<>>) /\ At(<<>>) = EmptyParser /\ Awaited(EmptyParser) = "type"
<1>1. Len(<<>>) = 0
  BY EmptySeq
<1> QED
  BY <1>1 DEF Flows, At, Awaited, EmptyParser, Parser

\* The first packet of a sequence.
LEMMA First ==
    ASSUME NEW n \in Nat, NEW c \in Seq(Packets(n)), c # <<>>
    PROVE  c[1] \in Packets(n) /\ Awaited(At(c)) = c[1].part
<1>1. PICK m \in Nat \ {0} : m = Len(c)
  BY LenProperties, EmptySeq
<1>2. c[1] \in Packets(n)
  BY <1>1, ElementOfSeq
<1> QED
  BY <1>2, PartsInOrder DEF At

\* What a packet says of the parsers before and after it.
LEMMA PacketParts ==
    ASSUME NEW n \in Nat, NEW p \in Packets(n)
    PROVE  /\ p.part \in Parts /\ p.key \in KeyTypes /\ p.gen \in 1..n
           /\ p.size \in Nat \ {0} /\ p.value \in Nat
           /\ p.part = "type" => p.size = 1 /\ p.value = KeyValue[p.key]
           /\ p.part = "size" => p.size = 1 /\ p.value = KeySize[p.key]
           /\ p.part = "data" => /\ p.size = IF Long(p.key) THEN PacketSize ELSE KeySize[p.key]
                                 /\ p = Packet("data", p.key, p.gen, p.size, 0)
           /\ p.part = "rest" => /\ Long(p.key) /\ p.size = KeySize[p.key] - PacketSize
                                 /\ p = Packet("rest", p.key, p.gen, p.size, 0)
BY DEF Packets, Packet

\* Once a packet is lost, the parser is out of step for good: it is left with a
\* type or a size that is none, or with data that never has the size expected.
LEMMA Gap ==
    ASSUME ProgramSizes, NEW n \in Nat, NEW pr, NEW c \in Seq(Packets(n)), c # <<>>,
           InStep(pr, c)
    PROVE  Doomed(pr, IF c[1].part \in {"type", "size"} THEN Tail(c) ELSE <<>>)
<1> DEFINE p == c[1]
<1>1. p \in Packets(n) /\ pr = Before(p) /\ Flows(c)
  BY First DEF InStep, At
<1>2. Flows(Tail(c)) /\ After(p) = At(Tail(c))
  BY <1>1, FlowsTail
<1>3. p.key \in KeyTypes
  BY <1>1, PacketParts
<1> HIDE DEF p
<1>4. CASE p.part = "type"
  <2>1. pr = EmptyParser
    BY <1>1, <1>4 DEF Before
  <2>2. Awaited(At(Tail(c))) = "size"
    BY <1>1, <1>2, <1>4, PartsInOrder
  <2> QED
    BY <1>2, <1>4, <2>1, <2>2 DEF Doomed, Misplaced, p
<1>5. CASE p.part = "size"
  <2>1. pr.type \in KeyTypes /\ pr.size = 0
    BY <1>1, <1>3, <1>5 DEF Before, Parser
  <2>2. Awaited(At(Tail(c))) = "data"
    BY <1>1, <1>2, <1>5, PartsInOrder
  <2> QED
    BY <1>2, <1>5, <2>1, <2>2 DEF Doomed, Misplaced, p
<1>6. CASE p.part = "data"
  <2>1. pr.type \in KeyTypes /\ pr.size = KeySize[p.key] /\ pr.data = <<>>
    BY <1>1, <1>3, <1>6 DEF Before, Parser
  <2>2. pr.size \in {51, 91} /\ Bytes(pr.data) = 0
    BY <1>3, <2>1, Sizes, FewBytes
  <2>3. <<pr.size, Bytes(pr.data), "type">> \in Misfits
    BY <2>2 DEF Misfits
  <2>4. Misplaced(pr, EmptyParser)
    BY <2>1, <2>3, NothingFlows DEF Misplaced
  <2> QED
    BY <1>6, <2>4, NothingFlows DEF Doomed, p
<1>7. CASE p.part = "rest"
  <2> DEFINE d == Packet("data", p.key, p.gen, PacketSize, 0)
  <2>1. pr.type \in KeyTypes /\ pr.size = KeySize[p.key] /\ pr.data = <<d>>
    BY <1>1, <1>3, <1>7 DEF Before, Parser
  <2>2. d.size = PacketSize
    BY DEF Packet
  <2>3. pr.size = 91 /\ Bytes(pr.data) = 64
    <3> HIDE DEF d
    <3>1. Long(p.key)
      BY <1>1, <1>7, PacketParts
    <3>2. PacketSize = 64 /\ KeySize[p.key] = 91
      BY <1>3, <3>1, Sizes
    <3>3. d.size \in Nat
      BY <2>2, <3>2
    <3> QED
      BY <2>1, <2>2, <3>2, <3>3, FewBytes
  <2>4. <<pr.size, Bytes(pr.data), "type">> \in Misfits
    BY <2>3 DEF Misfits
  <2>5. Misplaced(pr, EmptyParser)
    BY <2>1, <2>4, NothingFlows DEF Misplaced
  <2> QED
    BY <1>7, <2>5, NothingFlows DEF Doomed, p
<1> QED
  BY <1>1, <1>4, <1>5, <1>6, <1>7, PacketParts DEF Parts

\* Another packet read into the data of a doomed parser.
LEMMA DoomedReads ==
    ASSUME ProgramSizes, NEW n \in Nat, NEW c \in Seq(Packets(n)), c # <<>>,
           NEW pr, pr.type \in KeyTypes, pr.size \in Nat \ {0}, pr.data \in Seq(Packets(n)),
           Doomed(pr, c),
           NEW pr2, pr2.type = pr.type, pr2.size = pr.size, pr2.data = pr.data \o <<c[1]>>
    PROVE  Bytes(pr2.data) # pr2.size /\ Doomed(pr2, Tail(c))
<1> DEFINE p == c[1]
           b == Bytes(pr.data)
<1>1. p \in Packets(n) /\ Awaited(At(c)) = p.part
  BY First
<1>2. \A q \in Packets(n) : q.size \in Nat
  BY PacketParts
<1>3. p.key \in KeyTypes /\ p.size \in Nat \ {0} /\ p.part \in Parts
  BY <1>1, PacketParts
<1>4. b \in Nat /\ Bytes(pr2.data) = b + p.size
  <2>1. <<p>> \in Seq(Packets(n)) /\ Bytes(<<p>>) = p.size
    BY <1>1, <1>3, FewBytes
  <2> HIDE DEF p
  <2>2. b \in Nat /\ Bytes(pr.data \o <<p>>) = b + Bytes(<<p>>)
    BY <1>2, <2>1, MoreBytes
  <2> QED
    BY <2>1, <2>2 DEF p
<1> HIDE DEF p, b
<1>5. CASE b > pr.size
  <2>1. b + p.size > pr.size
    BY <1>3, <1>4, <1>5
  <2> QED
    BY <1>4, <2>1 DEF Doomed, Overfull
<1>6. CASE ~(b > pr.size)
  <2>1. Flows(c) /\ Misplaced(pr, At(c))
    BY <1>6 DEF Doomed, Overfull, KeyTypes, b
  <2>2. pr # EmptyParser
    BY DEF EmptyParser, Parser, KeyTypes
  <2>3. <<pr.size, b, p.part>> \in Misfits
    BY <1>1, <2>1, <2>2 DEF Misplaced, b
  <2>4. Flows(Tail(c)) /\ At(Tail(c)) = After(p)
    BY <2>1, FlowsTail DEF p
  <2> DEFINE a == Awaited(After(p))
  <2>5. a = IF p.part = "type" THEN "size" ELSE IF p.part = "size" THEN "data"
            ELSE IF p.part = "data" /\ Long(p.key) THEN "rest" ELSE "type"
    BY <1>1, PartsInOrder
  <2>6. p.size = IF p.part \in {"type", "size"} THEN 1
                 ELSE IF p.part = "data" THEN IF Long(p.key) THEN 64 ELSE 51
                 ELSE 27
    <3>1. PacketSize = 64 /\ KeySize[p.key] \in {51, 91} /\ (Long(p.key) <=> KeySize[p.key] = 91)
      BY <1>3, Sizes
    <3>2. CASE p.part = "type" \/ p.part = "size"
      BY <1>1, <3>2, PacketParts
    <3>3. CASE p.part = "data"
      BY <1>1, <3>1, <3>3, PacketParts
    <3>4. CASE p.part = "rest"
      <4>1. Long(p.key) /\ p.size = KeySize[p.key] - PacketSize
        BY <1>1, <3>4, PacketParts
      <4> QED
        BY <3>1, <3>4, <4>1
    <3> QED
      BY <1>3, <3>2, <3>3, <3>4 DEF Parts
  <2> HIDE DEF a
  <2>7. b + p.size > pr.size \/ (b + p.size # pr.size /\ <<pr.size, b + p.size, a>> \in Misfits)
    <3>1. CASE p.part = "type"
      <4>1. a = "size" /\ p.size = 1
        BY <2>5, <2>6, <3>1
      <4>2. <<pr.size, b>> \in {<<91, 0>>, <<91, 53>>, <<91, 64>>, <<51, 0>>}
        BY <2>3, <3>1 DEF Misfits
      <4> QED
        BY <4>1, <4>2 DEF Misfits
    <3>2. CASE p.part = "size"
      <4>1. a = "data" /\ p.size = 1
        BY <2>5, <2>6, <3>2
      <4>2. <<pr.size, b>> \in {<<91, 1>>, <<91, 54>>, <<91, 65>>, <<51, 1>>}
        BY <2>3, <3>2 DEF Misfits
      <4> QED
        BY <4>1, <4>2 DEF Misfits
    <3>3. CASE p.part = "data"
      <4>1. (a = "rest" /\ p.size = 64) \/ (a = "type" /\ p.size = 51)
        BY <2>5, <2>6, <3>3
      <4>2. <<pr.size, b>> \in {<<91, 2>>, <<91, 55>>, <<91, 66>>, <<51, 2>>}
        BY <2>3, <3>3 DEF Misfits
      <4> QED
        BY <4>1, <4>2 DEF Misfits
    <3>4. CASE p.part = "rest"
      <4>1. p.size = 27
        BY <2>6, <3>4
      <4>2. pr.size = 91 /\ b = 66
        BY <2>3, <3>4 DEF Misfits
      <4> QED
        BY <4>1, <4>2
    <3> QED
      BY <1>3, <3>1, <3>2, <3>3, <3>4 DEF Parts
  <2>8. CASE b + p.size > pr.size
    BY <1>3, <1>4, <2>8 DEF Doomed, Overfull
  <2>9. CASE b + p.size # pr.size /\ <<pr.size, b + p.size, a>> \in Misfits
    BY <1>4, <2>4, <2>9 DEF Doomed, Misplaced, a
  <2> QED
    BY <2>7, <2>8, <2>9
<1> QED
  BY <1>5, <1>6

-----------------------------------------------------------------------------
\* One more key is sent.

\* What is appended comes after the first packet and the rest.
LEMMA MoreAfterFirst ==
    ASSUME NEW T, NEW c \in Seq(T), NEW k \in Seq(T), c # <<>>
    PROVE  c \o k # <<>> /\ (c \o k)[1] = c[1] /\ Tail(c \o k) = Tail(c) \o k
<1>1. PICK n \in Nat \ {0}, m \in Nat : n = Len(c) /\ m = Len(k)
  BY LenProperties, EmptySeq
<1>2. PICK s : s = c \o k
  OBVIOUS
<1>3. /\ s \in Seq(T) /\ Len(s) = n + m
      /\ \A i \in 1..n + m : s[i] = IF i <= n THEN c[i] ELSE k[i - n]
  BY <1>1, <1>2, ConcatProperties
<1>4. s # <<>> /\ s[1] = c[1]
  <2>1. 1 \in 1..n + m /\ 1 <= n /\ n + m # 0
    OBVIOUS
  <2> QED
    BY <1>3, <2>1, EmptySeq
<1>5. PICK a, b : a = Tail(s) /\ b = Tail(c)
  OBVIOUS
<1>6. a \in Seq(T) /\ Len(a) = n + m - 1 /\ \A i \in 1..n + m - 1 : a[i] = s[i + 1]
  BY <1>3, <1>4, <1>5, HeadTailProperties
<1>7. b \in Seq(T) /\ Len(b) = n - 1 /\ \A i \in 1..n - 1 : b[i] = c[i + 1]
  BY <1>1, <1>5, HeadTailProperties
<1>8. PICK d : d = b \o k
  OBVIOUS
<1>9. /\ d \in Seq(T) /\ Len(d) = (n - 1) + m
      /\ \A i \in 1..(n - 1) + m : d[i] = IF i <= n - 1 THEN b[i] ELSE k[i - (n - 1)]
  <2>1. PICK l \in Nat : l = n - 1
    OBVIOUS
  <2>2. Len(b) = l
    BY <1>7, <2>1
  <2>3. /\ d \in Seq(T) /\ Len(d) = l + m
        /\ \A i \in 1..l + m : d[i] = IF i <= l THEN b[i] ELSE k[i - l]
    <3>1. /\ d \in Seq(T) /\ Len(d) = Len(b) + Len(k)
          /\ \A i \in 1..Len(b) + Len(k) : d[i] = IF i <= Len(b) THEN b[i] ELSE k[i - Len(b)]
      BY <1>1, <1>7, <1>8, ConcatProperties
    <3>2. Len(k) = m
      BY <1>1
    <3> QED
      BY <2>2, <3>1, <3>2, Zenon
  <2>4. d \in Seq(T) /\ Len(d) = (n - 1) + m
    BY <2>1, <2>3
  <2>5. ASSUME NEW i \in 1..(n - 1) + m
        PROVE  d[i] = IF i <= n - 1 THEN b[i] ELSE k[i - (n - 1)]
    <3>1. i \in 1..l + m
      BY <2>1
    <3>2. d[i] = IF i <= l THEN b[i] ELSE k[i - l]
      BY <2>3, <3>1
    <3> QED
      BY <2>1, <3>2
  <2> QED
    BY <2>4, <2>5
<1>10. ASSUME NEW i \in 1..n + m - 1 PROVE a[i] = d[i]
  <2>1. i + 1 \in 1..n + m /\ i \in 1..(n - 1) + m
    OBVIOUS
  <2>2. CASE i <= n - 1
    <3>1. i + 1 <= n /\ i \in 1..n - 1
      BY <2>2
    <3>2. a[i] = c[i + 1]
      BY <1>3, <1>6, <2>1, <3>1
    <3>3. d[i] = c[i + 1]
      BY <1>7, <1>9, <2>1, <2>2, <3>1
    <3> QED
      BY <3>2, <3>3
  <2>3. CASE ~(i <= n - 1)
    <3>1. ~(i + 1 <= n) /\ (i + 1) - n = i - (n - 1)
      BY <2>3
    <3>2. a[i] = k[i - (n - 1)]
      BY <1>3, <1>6, <2>1, <3>1
    <3>3. d[i] = k[i - (n - 1)]
      BY <1>9, <2>1, <2>3
    <3> QED
      BY <3>2, <3>3
  <2> QED
    BY <2>2, <2>3
<1>11. a = d
  <2>1. Len(a) = Len(d) /\ Len(a) = n + m - 1
    BY <1>6, <1>9
  <2> QED
    BY <1>6, <1>9, <1>10, <2>1, SeqEqual
<1> QED
  BY <1>2, <1>4, <1>5, <1>8, <1>11

\* Another key to come does not help a parser that is out of step.
LEMMA DoomedMore ==
    ASSUME NEW T, NEW c \in Seq(T), NEW k \in Seq(T), Flows(k), At(k) = EmptyParser,
           NEW pr, Doomed(pr, c)
    PROVE  Doomed(pr, c \o k)
BY FlowsMore DEF Doomed

\* The same one packet later.
LEMMA SoonDoomedMore ==
    ASSUME NEW T, NEW c \in Seq(T), NEW k \in Seq(T), Flows(k), At(k) = EmptyParser,
           NEW pr, SoonDoomed(pr, c)
    PROVE  SoonDoomed(pr, c \o k)
<1>1. c # <<>> /\ pr = Before(c[1]) /\ Doomed(After(c[1]), Tail(c))
  BY DEF SoonDoomed
<1>2. Tail(c) \in Seq(T)
  BY <1>1, HeadTailProperties
<1>3. Doomed(After(c[1]), Tail(c) \o k)
  BY <1>1, <1>2, DoomedMore
<1> QED
  BY <1>1, <1>3, MoreAfterFirst DEF SoonDoomed

\* The same while a packet is held back.
LEMMA HeldMore ==
    ASSUME NEW T, NEW c \in Seq(T), NEW k \in Seq(T), Flows(k), At(k) = EmptyParser,
           NEW pr, NEW u, Held(pr, u, c)
    PROVE  Held(pr, u, c \o k)
BY FlowsMore DEF Held

-----------------------------------------------------------------------------
\* The parser as the next packet finds it.
Upcoming == IF usb.pc = "idle" \/ parser.type = "invalid" THEN parser ELSE EmptyParser

\* The packets it has yet to read.
Coming == rx \o sending

\* All of a key of type t.
Whole(data, t) == \E g \in 1..gen : data = Data(t, g)

\* Every packet is one of a key that was generated.
StreamInv ==
    /\ parser \in [type : KeyTypes \cup {"undefined", "invalid"}, size : Nat,
                   data : Seq(Packets(gen))]
    /\ rx \in Seq(Packets(gen)) /\ unread \in Seq(Packets(gen)) /\ sending \in Seq(Packets(gen))
    /\ Len(rx) <= 1
    /\ gen \in Nat /\ faults \in Nat
    /\ keys \in Seq(KeyTypes) /\ (keys # <<>> => gen > 0)

\* Only a token that listens has the port open, packets and a callback at work.
LinkInv ==
    /\ usb = [pc |-> usb.pc, count |-> usb.count]
    /\ usb.pc \in {"idle", "store", "read", "write"}
    /\ ~linked => parser = EmptyParser /\ rx = <<>> /\ unread = <<>> /\ usb.pc = "idle"
    /\ linked => mode = "listen"
    /\ usb.pc # "idle" => unread = <<>>
    /\ usb.pc \in {"read", "write"} => parser.type # "invalid"

\* The parser is in step with what comes; after one failure it may be out of step,
\* and then for good. What it is about to store is whole.
ParserInv ==
    /\ usb.pc = "store" /\ parser.type # "invalid" => Whole(parser.data, parser.type)
    /\ linked /\ unread = <<>> =>
         \/ InStep(Upcoming, Coming)
         \/ faults = 1 /\ (Doomed(Upcoming, Coming) \/ SoonDoomed(Upcoming, Coming))
    /\ linked /\ unread # <<>> =>
         faults = 1 /\ Len(unread) = 1 /\ Held(parser, unread[1], Coming)

\* What is stored is whole.
KeysKept ==
    /\ DOMAIN nvs.key = KeyTypes
    /\ \A t \in KeyTypes : nvs.key[t] = <<>> \/ Whole(nvs.key[t], t)

\* What the invariant follows: no failure, or one with the sizes of the program.
Followed == faults = 0 \/ (ProgramSizes /\ faults = 1)

\* All of it, as far as it is followed.
KeysInv == StreamInv /\ LinkInv /\ (Followed => ParserInv /\ KeysKept)

-----------------------------------------------------------------------------
\* What the callback reads.

\* It reads what has arrived, and no assertion fails.
Reads ==
    /\ usb.pc = "idle" /\ rx # <<>>
    /\ IF parser.type = "undefined" \/ parser.size = 0
       THEN Bytes(unread \o rx) = 1 /\ ReadHeader
       ELSE Bytes(unread \o rx) <= parser.size /\ ReadData
    /\ rx' = <<>> /\ unread' = <<>>
    /\ UNCHANGED <<client, faults>>

\* One packet at most has arrived.
LEMMA Arrived ==
    ASSUME StreamInv, rx # <<>>
    PROVE  /\ rx[1] \in Packets(gen) /\ rx = <<rx[1]>>
           /\ Coming # <<>> /\ Coming[1] = rx[1] /\ Tail(Coming) = sending
           /\ Coming \in Seq(Packets(gen))
<1>1. rx \in Seq(Packets(gen)) /\ sending \in Seq(Packets(gen)) /\ Len(rx) <= 1
  BY DEF StreamInv
<1>2. PICK p \in Packets(gen) : rx = <<p>>
  <2>1. Len(rx) = 1
    <3>1. PICK m \in Nat : m = Len(rx)
      BY <1>1, LenProperties
    <3>2. m # 0 /\ m <= 1
      BY <1>1, <3>1, EmptySeq
    <3> QED
      BY <3>1, <3>2
  <2>2. rx[1] \in Packets(gen)
    BY <1>1, <2>1, ElementOfSeq
  <2>3. PICK s : s = <<rx[1]>>
    OBVIOUS
  <2>4. s \in Seq(Packets(gen)) /\ Len(s) = 1 /\ s[1] = rx[1]
    BY <2>2, <2>3
  <2>5. \A i \in 1..1 : i = 1
    OBVIOUS
  <2>6. rx = s
    BY <1>1, <2>1, <2>4, <2>5, SeqEqual
  <2> QED
    BY <2>2, <2>3, <2>6
<1>3. rx[1] = p
  BY <1>2
<1>4. /\ <<p>> \o sending \in Seq(Packets(gen)) /\ <<p>> \o sending # <<>>
      /\ (<<p>> \o sending)[1] = p /\ Tail(<<p>> \o sending) = sending
  BY <1>1, OneBefore
<1> QED
  BY <1>2, <1>3, <1>4 DEF Coming

\* Nothing is left behind: the packet alone is read.
LEMMA ReadsOne ==
    ASSUME StreamInv, Reads, unread = <<>>, NEW p, p = rx[1]
    PROVE  /\ parser.type = "undefined" =>
                /\ usb' = usb
                /\ parser' = [parser EXCEPT !.type = IF p.value \in {KeyValue[t] : t \in KeyTypes}
                                                     THEN TypeOfValue(p.value) ELSE "invalid"]
           /\ parser.type # "undefined" /\ parser.size = 0 =>
                usb' = usb /\ parser' = [parser EXCEPT !.size = p.value]
           /\ parser.type = "undefined" \/ parser.size = 0 => p.size = 1
           /\ ~(parser.type = "undefined" \/ parser.size = 0) =>
                /\ parser' = [parser EXCEPT !.data = parser.data \o <<p>>]
                /\ usb' = IF Bytes(parser.data \o <<p>>) = parser.size
                          THEN [usb EXCEPT !.pc = "store"] ELSE usb
<1>1. p \in Packets(gen) /\ rx = <<p>> /\ gen \in Nat
  BY Arrived DEF Reads, StreamInv
<1>2. rx \in Seq(Packets(gen)) /\ parser.data \in Seq(Packets(gen))
  BY DEF StreamInv
<1>3. unread \o rx = <<p>> /\ parser.data \o unread = parser.data
  BY <1>1, <1>2, ConcatEmptySeq
<1>4. Bytes(<<p>>) = p.size
  BY <1>1, PacketParts, FewBytes
<1>5. parser.data \o unread \o rx = parser.data \o <<p>>
  BY <1>1, <1>3
<1>6. CASE parser.type = "undefined" \/ parser.size = 0
  BY <1>3, <1>4, <1>6 DEF Reads, ReadHeader
<1>7. CASE ~(parser.type = "undefined" \/ parser.size = 0)
  BY <1>5, <1>7 DEF Reads, ReadData, Complete
<1> QED
  BY <1>6, <1>7

\* The packet the parser is meant for.
LEMMA ReadsExpected ==
    ASSUME StreamInv, LinkInv, Reads, unread = <<>>, parser = Before(rx[1])
    PROVE  /\ Upcoming' = After(rx[1])
           /\ usb'.pc = "store" => Whole(parser'.data, parser'.type)
<1> DEFINE p == rx[1]
<1>1. p \in Packets(gen) /\ gen \in Nat
  BY Arrived DEF Reads, StreamInv
<1>2. p = rx[1]
  OBVIOUS
<1>3. usb.pc = "idle" /\ gen' = gen /\ usb = [pc |-> "idle", count |-> usb.count]
  BY DEF Reads, client, LinkInv
<1>4. /\ p.key \in KeyTypes /\ p.part \in Parts /\ p.gen \in 1..gen /\ p.size \in Nat \ {0}
      /\ p.key # "undefined" /\ p.key # "invalid" /\ KeySize[p.key] # 0
  BY <1>1, PacketParts, KeySizes DEF KeyTypes
<1> HIDE DEF p
<1>5. parser = Before(p)
  BY <1>2
<1>6. CASE p.part = "type"
  <2>1. p.value = KeyValue[p.key]
    BY <1>1, <1>6, PacketParts
  <2>2. parser = EmptyParser
    BY <1>5, <1>6 DEF Before
  <2>3. p.value \in {KeyValue[t] : t \in KeyTypes} /\ TypeOfValue(p.value) = p.key
    BY <1>4, <2>1, KeySizes
  <2>4. parser' = [parser EXCEPT !.type = p.key] /\ usb' = usb
    BY <1>2, <2>2, <2>3, ReadsOne DEF EmptyParser, Parser
  <2>5. parser' = After(p)
    BY <1>6, <2>2, <2>4 DEF After, EmptyParser, Parser
  <2> QED
    BY <1>2, <1>3, <2>4, <2>5 DEF Upcoming
<1>7. CASE p.part = "size"
  <2>1. p.value = KeySize[p.key]
    BY <1>1, <1>7, PacketParts
  <2>2. parser = Parser(p.key, 0, <<>>)
    BY <1>5, <1>7 DEF Before
  <2>3. parser' = [parser EXCEPT !.size = p.value] /\ usb' = usb
    BY <1>2, <1>4, <2>2, ReadsOne DEF Parser
  <2>4. parser' = After(p)
    BY <1>7, <2>1, <2>2, <2>3 DEF After, Parser
  <2> QED
    BY <1>2, <1>3, <2>3, <2>4 DEF Upcoming
<1>8. CASE p.part = "data"
  <2>1. parser = Parser(p.key, KeySize[p.key], <<>>)
    BY <1>5, <1>8 DEF Before
  <2>2. /\ parser' = [parser EXCEPT !.data = parser.data \o <<p>>]
        /\ usb' = IF Bytes(parser.data \o <<p>>) = parser.size
                  THEN [usb EXCEPT !.pc = "store"] ELSE usb
    BY <1>2, <1>4, <2>1, ReadsOne DEF Parser
  <2>3. parser.data \o <<p>> = <<p>>
    <3>1. parser.data = <<>> /\ <<p>> \in Seq(Packets(gen))
      BY <1>1, <2>1 DEF Parser
    <3> HIDE DEF p
    <3> QED
      BY <3>1, ConcatEmptySeq
  <2>4. Bytes(<<p>>) = p.size
    BY <1>4, FewBytes
  <2>5. parser' = Parser(p.key, KeySize[p.key], <<p>>)
    BY <2>1, <2>2, <2>3 DEF Parser
  <2>6. usb' = IF p.size = KeySize[p.key] THEN [usb EXCEPT !.pc = "store"] ELSE usb
    BY <2>1, <2>2, <2>3, <2>4 DEF Parser
  <2>7. CASE Long(p.key)
    <3>1. p.size # KeySize[p.key]
      BY <1>1, <1>4, <1>8, <2>7, PacketParts, KeySizes DEF Long
    <3>2. After(p) = Parser(p.key, KeySize[p.key], <<p>>)
      BY <1>8, <2>7 DEF After
    <3> QED
      BY <1>2, <1>3, <2>5, <2>6, <3>1, <3>2 DEF Upcoming
  <2>8. CASE ~Long(p.key)
    <3>1. p.size = KeySize[p.key] /\ p = Packet("data", p.key, p.gen, KeySize[p.key], 0)
      BY <1>1, <1>8, <2>8, PacketParts
    <3>2. After(p) = EmptyParser
      BY <1>8, <2>8 DEF After
    <3>3. KeySize[p.key] <= PacketSize
      BY <1>4, <2>8, KeySizes DEF Long
    <3>4. <<p>> = Data(p.key, p.gen)
      BY <3>1, <3>3 DEF Data
    <3>5. parser'.data = Data(p.key, p.gen) /\ parser'.type = p.key
      BY <2>5, <3>4 DEF Parser
    <3>6. usb'.pc = "store" /\ parser'.type # "invalid"
      BY <1>3, <1>4, <2>6, <3>1, <3>5
    <3> QED
      BY <1>2, <1>3, <1>4, <3>2, <3>5, <3>6 DEF Upcoming, Whole
  <2> QED
    BY <2>7, <2>8
<1>9. CASE p.part = "rest"
  <2> DEFINE d == Packet("data", p.key, p.gen, PacketSize, 0)
  <2>1. parser = Parser(p.key, KeySize[p.key], <<d>>)
    BY <1>5, <1>9 DEF Before
  <2>2. /\ parser' = [parser EXCEPT !.data = parser.data \o <<p>>]
        /\ usb' = IF Bytes(parser.data \o <<p>>) = parser.size
                  THEN [usb EXCEPT !.pc = "store"] ELSE usb
    BY <1>2, <1>4, <2>1, ReadsOne DEF Parser
  <2>3. /\ Long(p.key) /\ p.size = KeySize[p.key] - PacketSize
        /\ p = Packet("rest", p.key, p.gen, KeySize[p.key] - PacketSize, 0)
    BY <1>1, <1>9, PacketParts
  <2>4. d \in Packets(gen) /\ d.size = PacketSize
    BY <1>4, <2>3, KeySizes DEF Packet, Packets, Parts
  <2> HIDE DEF d
  <2>5. parser.data = <<d>> /\ parser.size = KeySize[p.key] /\ parser.type = p.key
    BY <2>1 DEF Parser
  <2>6. Bytes(<<d>> \o <<p>>) = KeySize[p.key]
    <3>1. <<d>> \in Seq(Packets(gen)) /\ <<p>> \in Seq(Packets(gen))
      BY <1>1, <2>4
    <3>2. Bytes(<<d>>) = PacketSize /\ Bytes(<<p>>) = KeySize[p.key] - PacketSize
      BY <1>4, <2>3, <2>4, KeySizes, FewBytes
    <3>3. \A q \in Packets(gen) : q.size \in Nat
      BY <1>1, PacketParts
    <3>4. Bytes(<<d>> \o <<p>>) = Bytes(<<d>>) + Bytes(<<p>>)
      BY <3>1, <3>3, MoreBytes
    <3> QED
      BY <1>4, <3>2, <3>4, KeySizes
  <2>7. <<d>> \o <<p>> = Data(p.key, p.gen)
    <3>1. ~(KeySize[p.key] <= PacketSize)
      BY <1>4, <2>3, KeySizes DEF Long
    <3>2. Data(p.key, p.gen) = <<d, p>>
      BY <2>3, <3>1 DEF Data, d
    <3>3. <<d>> \o <<p>> = <<d, p>>
      BY <1>1, <2>4, Pair
    <3> QED
      BY <3>2, <3>3
  <2>8. parser'.data = Data(p.key, p.gen) /\ parser'.type = p.key
    BY <2>1, <2>2, <2>5, <2>7 DEF Parser
  <2>9. usb'.pc = "store"
    BY <1>3, <2>2, <2>5, <2>6
  <2>10. After(p) = EmptyParser
    BY <1>9 DEF After
  <2> QED
    BY <1>2, <1>3, <1>4, <2>8, <2>9, <2>10 DEF Upcoming, Whole
<1> QED
  BY <1>4, <1>6, <1>7, <1>8, <1>9 DEF Parts

\* A doomed parser stays so, and has no key to store.
LEMMA ReadsDoomed ==
    ASSUME ProgramSizes, StreamInv, LinkInv, Reads, unread = <<>>, Doomed(parser, Coming)
    PROVE  /\ Doomed(Upcoming', sending)
           /\ usb'.pc = "store" => parser'.type = "invalid"
<1>1. PICK p \in Packets(gen) : p = rx[1]
  BY Arrived DEF Reads
<1>2. Coming # <<>> /\ Coming[1] = p /\ Tail(Coming) = sending /\ Coming \in Seq(Packets(gen))
  BY <1>1, Arrived DEF Reads
<1>3. gen \in Nat /\ usb.pc = "idle" /\ usb = [pc |-> "idle", count |-> usb.count]
  BY DEF StreamInv, Reads, LinkInv
<1>4. Awaited(At(Coming)) = p.part
  BY <1>2, <1>3, First
<1>5. /\ p.key \in KeyTypes /\ p.size \in Nat \ {0}
      /\ p.part = "size" => p.value = KeySize[p.key]
  BY <1>1, <1>3, PacketParts
<1>6. /\ parser.type \in KeyTypes \cup {"undefined", "invalid"} /\ parser.size \in Nat
      /\ parser.data \in Seq(Packets(gen))
      /\ parser = [type |-> parser.type, size |-> parser.size, data |-> parser.data]
  BY DEF StreamInv
<1>7. CASE parser.type = "invalid"
  <2>1. parser'.type = "invalid"
    <3>1. CASE parser.size = 0
      BY <1>1, <1>6, <1>7, <3>1, ReadsOne
    <3>2. CASE parser.size # 0
      BY <1>1, <1>6, <1>7, <3>2, ReadsOne
    <3> QED
      BY <3>1, <3>2
  <2> QED
    BY <2>1 DEF Upcoming, Doomed
<1>8. CASE parser = EmptyParser /\ Awaited(At(Coming)) = "size"
  <2>1. parser.type = "undefined"
    BY <1>8 DEF EmptyParser, Parser
  <2>2. p.value = KeySize[p.key]
    BY <1>4, <1>5, <1>8
  <2>3. p.value \notin {KeyValue[t] : t \in KeyTypes}
    BY <1>5, <2>2, KeySizes
  <2>4. parser'.type = "invalid"
    BY <1>1, <1>6, <2>1, <2>3, ReadsOne
  <2> QED
    BY <2>4 DEF Upcoming, Doomed
<1>9. CASE parser.type \in KeyTypes /\ parser.size = 0 /\ Awaited(At(Coming)) = "data"
  <2>1. p.size = 1
    BY <1>1, <1>9, ReadsOne
  <2>2. p.size = IF Long(p.key) THEN PacketSize ELSE KeySize[p.key]
    <3>1. p.part = "data"
      BY <1>4, <1>9
    <3>2. p.part = "data" => p.size = IF Long(p.key) THEN PacketSize ELSE KeySize[p.key]
      BY <1>3, PacketParts
    <3> QED
      BY <3>1, <3>2
  <2>3. p.key \in KeyTypes
    BY <1>5
  <2>4. KeySize[p.key] >= 4 /\ PacketSize >= 2 /\ KeySize[p.key] \in Nat /\ PacketSize \in Nat
    BY <2>3, KeySizes
  <2> QED
    BY <2>1, <2>2, <2>4
<1>10. CASE parser.type \in KeyTypes /\ parser.size # 0
  <2>1. parser.type # "undefined"
    BY <1>10 DEF KeyTypes
  <2>2. /\ parser' = [parser EXCEPT !.data = parser.data \o <<p>>]
        /\ usb' = IF Bytes(parser.data \o <<p>>) = parser.size
                  THEN [usb EXCEPT !.pc = "store"] ELSE usb
    BY <1>1, <1>10, <2>1, ReadsOne
  <2>3. parser'.type = parser.type /\ parser'.size = parser.size /\ parser'.data = parser.data \o <<p>>
    BY <1>6, <2>2
  <2>4. Bytes(parser'.data) # parser'.size /\ Doomed(parser', Tail(Coming))
    <3>1. PICK pr2 : pr2 = parser'
      OBVIOUS
    <3>2. parser.size \in Nat \ {0}
      BY <1>6, <1>10
    <3>3. pr2.data = parser.data \o <<Coming[1]>>
      BY <1>2, <2>3, <3>1
    <3>4. Bytes(pr2.data) # pr2.size /\ Doomed(pr2, Tail(Coming))
      BY <1>2, <1>3, <1>6, <1>10, <2>3, <3>1, <3>2, <3>3, DoomedReads
    <3> QED
      BY <3>1, <3>4
  <2>5. usb' = usb
    BY <2>2, <2>3, <2>4
  <2> QED
    BY <1>2, <1>3, <2>4, <2>5 DEF Upcoming
<1>11. CASE Flows(Coming) /\ Misplaced(parser, At(Coming))
  <2>1. CASE /\ parser.type \in KeyTypes
             /\ <<parser.size, Bytes(parser.data), Awaited(At(Coming))>> \in Misfits
    <3>1. parser.size # 0
      BY <2>1 DEF Misfits
    <3> QED
      BY <1>10, <2>1, <3>1
  <2> QED
    BY <1>8, <1>9, <1>11, <2>1 DEF Misplaced
<1> QED
  BY <1>7, <1>10, <1>11 DEF Doomed, Overfull

\* A packet was left behind: it is read with the one after it.
LEMMA ReadsHeld ==
    ASSUME ProgramSizes, StreamInv, LinkInv, Reads, Len(unread) = 1, unread # <<>>,
           Held(parser, unread[1], Coming)
    PROVE  /\ InStep(Upcoming', sending) \/ Doomed(Upcoming', sending)
           /\ usb'.pc = "store" /\ parser'.type # "invalid" => Whole(parser'.data, parser'.type)
<1>1. PICK p \in Packets(gen) : p = rx[1] /\ rx = <<p>>
  BY Arrived DEF Reads
<1>2. Coming # <<>> /\ Coming[1] = p /\ Tail(Coming) = sending /\ Coming \in Seq(Packets(gen))
  BY <1>1, Arrived DEF Reads
<1>3. gen \in Nat /\ usb.pc = "idle" /\ usb = [pc |-> "idle", count |-> usb.count] /\ gen' = gen
  BY DEF StreamInv, Reads, LinkInv, client
<1>4. PICK u \in Packets(gen) : u = unread[1] /\ unread = <<u>>
  <2>1. unread \in Seq(Packets(gen))
    BY DEF StreamInv
  <2>2. unread[1] \in Packets(gen)
    BY <2>1, ElementOfSeq
  <2>3. PICK s : s = <<unread[1]>>
    OBVIOUS
  <2>4. s \in Seq(Packets(gen)) /\ Len(s) = 1 /\ s[1] = unread[1]
    BY <2>2, <2>3
  <2>5. \A i \in 1..1 : i = 1
    OBVIOUS
  <2>6. unread = s
    BY <2>1, <2>4, <2>5, SeqEqual
  <2> QED
    BY <2>2, <2>3, <2>6
<1>5. /\ p.key \in KeyTypes /\ p.part \in Parts /\ p.gen \in 1..gen /\ p.size \in Nat \ {0}
      /\ u.key \in KeyTypes /\ u.gen \in 1..gen /\ u.size \in Nat \ {0}
  BY <1>1, <1>3, <1>4, PacketParts
<1>6. /\ parser.type \in KeyTypes \cup {"undefined", "invalid"} /\ parser.size \in Nat
      /\ parser.data \in Seq(Packets(gen))
      /\ parser = [type |-> parser.type, size |-> parser.size, data |-> parser.data]
  BY DEF StreamInv
<1>7. \A q \in Packets(gen) : q.size \in Nat
  BY <1>3, PacketParts
<1>8. /\ <<u>> \in Seq(Packets(gen)) /\ <<p>> \in Seq(Packets(gen))
      /\ Bytes(<<u>>) = u.size /\ Bytes(<<p>>) = p.size
  BY <1>5, FewBytes
<1>9. /\ unread \o rx = <<u, p>>
      /\ Bytes(unread \o rx) = u.size + p.size
      /\ parser.data \o unread \o rx = parser.data \o <<u, p>>
      /\ Bytes(parser.data) \in Nat
      /\ Bytes(parser.data \o unread \o rx) = Bytes(parser.data) + u.size + p.size
  <2>1. <<u>> \o <<p>> = <<u, p>>
    BY Pair
  <2>2. Bytes(<<u>> \o <<p>>) = u.size + p.size
    BY <1>7, <1>8, MoreBytes
  <2>3. <<u, p>> \in Seq(Packets(gen)) /\ Bytes(<<u, p>>) = u.size + p.size
    <3>1. <<u, p>> \in Seq(Packets(gen))
      OBVIOUS
    <3> QED
      BY <2>1, <2>2, <3>1
  <2>4. (parser.data \o <<u>>) \o <<p>> = parser.data \o (<<u>> \o <<p>>)
    BY <1>6, <1>8, ConcatAssociative
  <2>5. /\ Bytes(parser.data) \in Nat
        /\ Bytes(parser.data \o <<u, p>>) = Bytes(parser.data) + (u.size + p.size)
    BY <1>6, <1>7, <2>3, MoreBytes
  <2>6. unread \o rx = <<u, p>> /\ Bytes(unread \o rx) = u.size + p.size
    BY <1>1, <1>4, <2>1, <2>2
  <2>7. parser.data \o unread \o rx = parser.data \o <<u, p>>
    BY <1>1, <1>4, <2>1, <2>4
  <2>8. PICK a \in Nat, b \in Nat, c \in Nat : a = Bytes(parser.data) /\ b = u.size /\ c = p.size
    BY <1>5, <2>5
  <2>9. a + (b + c) = a + b + c
    OBVIOUS
  <2> QED
    BY <2>5, <2>6, <2>7, <2>8, <2>9
<1>10. ~(parser.type = "undefined" \/ parser.size = 0)
  <2>1. Bytes(unread \o rx) # 1
    BY <1>5, <1>9
  <2> QED
    BY <2>1 DEF Reads
<1>11. /\ parser' = [parser EXCEPT !.data = parser.data \o <<u, p>>]
       /\ usb' = IF Bytes(parser.data) + u.size + p.size = parser.size
                 THEN [usb EXCEPT !.pc = "store"] ELSE usb
  BY <1>9, <1>10 DEF Reads, ReadData, Complete
<1>12. /\ parser'.type = parser.type /\ parser'.size = parser.size
       /\ parser'.data = parser.data \o <<u, p>>
       /\ Bytes(parser'.data) = Bytes(parser.data) + u.size + p.size
  BY <1>6, <1>9, <1>11
<1>13. CASE parser.type = "invalid"
  BY <1>12, <1>13 DEF Upcoming, Doomed
<1>14. CASE parser.type # "invalid" /\ Bytes(parser.data) + u.size >= parser.size
  <2>1. Bytes(parser.data) + u.size + p.size > parser.size
    <3>1. PICK a \in Nat, b \in Nat \ {0}, c \in Nat \ {0}, z \in Nat :
            a = Bytes(parser.data) /\ b = u.size /\ c = p.size /\ z = parser.size
      BY <1>5, <1>6, <1>9
    <3>2. a + b >= z
      BY <1>14, <3>1
    <3>3. a + b + c > z
      BY <3>2
    <3> QED
      BY <3>1, <3>3
  <2>2. usb' = usb
    BY <1>11, <2>1, <1>6
  <2>3. parser.type \in KeyTypes
    BY <1>6, <1>10, <1>14
  <2>4. Overfull(parser')
    BY <1>10, <1>12, <2>1, <2>3 DEF Overfull
  <2> QED
    BY <1>3, <2>2, <2>4 DEF Upcoming, Doomed
<1>15. CASE /\ parser = Before(u) /\ u.part = "data" /\ Long(u.key)
            /\ Flows(Coming) /\ After(u) = At(Coming)
  <2>1. After(u) = Before(p) /\ p.part = "rest"
    <3>1. Awaited(After(u)) = "rest"
      BY <1>3, <1>15, PartsInOrder
    <3> QED
      BY <1>2, <1>3, <1>15, <3>1, First DEF At
  <2>2. parser = Parser(u.key, KeySize[u.key], <<>>)
    BY <1>15 DEF Before
  <2>3. After(u) = Parser(u.key, KeySize[u.key], <<u>>)
    BY <1>15 DEF After
  <2>4. Before(p) = Parser(p.key, KeySize[p.key], <<Packet("data", p.key, p.gen, PacketSize, 0)>>)
    BY <2>1 DEF Before
  <2>5. u.key = p.key /\ <<u>> = <<Packet("data", p.key, p.gen, PacketSize, 0)>>
    <3>1. PICK a, b : a = <<u>> /\ b = <<Packet("data", p.key, p.gen, PacketSize, 0)>>
      OBVIOUS
    <3>2. Parser(u.key, KeySize[u.key], a) = Parser(p.key, KeySize[p.key], b)
      BY <2>1, <2>3, <2>4, <3>1
    <3>3. u.key = p.key /\ a = b
      BY <3>2 DEF Parser
    <3> QED
      BY <3>1, <3>3
  <2>6. u = Packet("data", p.key, p.gen, PacketSize, 0) /\ u.size = PacketSize
    <3>1. PICK d : d = Packet("data", p.key, p.gen, PacketSize, 0)
      OBVIOUS
    <3>2. <<u>>[1] = <<d>>[1]
      BY <2>5, <3>1
    <3>3. u = d
      BY <3>2
    <3> QED
      BY <3>1, <3>3 DEF Packet
  <2>7. /\ Long(p.key) /\ p.size = KeySize[p.key] - PacketSize
        /\ p = Packet("rest", p.key, p.gen, KeySize[p.key] - PacketSize, 0)
    BY <1>1, <1>3, <2>1, PacketParts
  <2>8. <<u, p>> = Data(p.key, p.gen)
    <3>1. ~(KeySize[p.key] <= PacketSize)
      BY <1>5, <2>7, KeySizes DEF Long
    <3> QED
      BY <2>6, <2>7, <3>1 DEF Data
  <2>9. parser.data \o <<u, p>> = <<u, p>>
    <3>1. parser.data = <<>> /\ <<u, p>> \in Seq(Packets(gen))
      BY <2>2 DEF Parser
    <3> QED
      BY <3>1, ConcatEmptySeq
  <2>10. Bytes(parser.data) + u.size + p.size = parser.size
    <3>1. Bytes(parser.data) = 0 /\ parser.size = KeySize[p.key]
      BY <2>2, <2>5, FewBytes DEF Parser
    <3> QED
      BY <1>5, <2>6, <2>7, <3>1, KeySizes
  <2>11. usb'.pc = "store"
    BY <1>3, <1>11, <2>10
  <2>12. parser'.data = Data(p.key, p.gen) /\ parser'.type = p.key /\ p.key # "invalid"
    BY <1>5, <1>12, <2>2, <2>5, <2>8, <2>9 DEF Parser, KeyTypes
  <2>13. Upcoming' = EmptyParser
    BY <2>11, <2>12 DEF Upcoming
  <2>14. Flows(sending) /\ After(p) = At(sending)
    BY <1>2, <1>15, FlowsTail
  <2>15. After(p) = EmptyParser
    BY <2>1 DEF After
  <2> QED
    BY <1>3, <1>5, <2>12, <2>13, <2>14, <2>15 DEF InStep, Whole
<1>16. parser.type \in KeyTypes \/ parser.type = "invalid"
  BY <1>6, <1>10
<1> QED
  BY <1>4, <1>10, <1>13, <1>14, <1>15, <1>16 DEF Held

-----------------------------------------------------------------------------
\* The steps, by what they do to the stream.

\* The token restarts, whatever becomes of its storage.
Restarts == Reboot /\ UNCHANGED client /\ faults' \in {faults, faults + 1}

\* Neither the client nor the callback does anything.
Idles ==
    /\ UNCHANGED <<parser, rx, unread, usb, linked, client>>
    /\ \/ UNCHANGED <<faults, mode>>
       \/ mode = "boot" /\ faults' \in {faults, faults + 1}

\* The packets that have arrived are taken without an assertion failing.
Takes == Reads /\ UNCHANGED <<nvs, mode, linked, handles, reset>> /\ mode = "listen"

\* An assertion that fails restarts the token.
LEMMA TrapRestarts == \A a : Trap(a) => Restarts
BY DEF Trap, Stop, Restarts, bounds

\* Every step is of one of these kinds.
LEMMA Kinds ==
    ASSUME [Next]_vars
    PROVE  \/ Restarts \/ Idles
           \/ GenerateKeys \/ OpenPort \/ OpenPortFails \/ WritePacket \/ WriteFails
           \/ Takes \/ ReceiveFails \/ StoreKey \/ ReadCount \/ WriteCount
<1>1. CASE Receive
  <2>1. CASE \E a : Trap(a)
    BY <2>1, TrapRestarts
  <2>2. CASE ~\E a : Trap(a)
    BY <1>1, <2>2 DEF Receive, Takes, Reads, bounds
  <2> QED
    BY <2>1, <2>2
<1>2. CASE StoreKeyFails \/ WriteCountFails \/ BootCreatesFails \/ FlashFails \/ StorageFails
           \/ ResetWriteFails
  BY <1>2 DEF StoreKeyFails, WriteCountFails, BootCreatesFails, FlashFails, StorageFails,
              ResetWriteFails, Fault, Stop, Restarts
<1>3. CASE StoreKeyThrows \/ BootWithoutNamespace \/ BootWithoutKeys \/ PollRestarts
           \/ ResetRestarts \/ PowerCut
  BY <1>3 DEF StoreKeyThrows, BootWithoutNamespace, BootWithoutKeys, PollRestarts,
              ResetRestarts, PowerCut, Restarts, bounds
<1>4. CASE BootAsserts \/ NoHandle
  BY <1>4, TrapRestarts DEF BootAsserts, NoHandle
<1>5. CASE EraseFlash \/ BootCreates \/ BootListens \/ BootServes
  BY <1>5 DEF EraseFlash, BootCreates, BootListens, BootServes, Fault, Idles, bounds, ram
<1>6. CASE Poll \/ PressButton \/ ResetOpens \/ ResetWrites \/ UNCHANGED vars
  BY <1>6 DEF Poll, PressButton, ResetOpens, ResetWrites, vars, ram, bounds, Idles
<1> QED
  BY <1>1, <1>2, <1>3, <1>4, <1>5, <1>6 DEF Next, UsbStep, MainStep

\* The packets of fewer uses of Generate Keys are among those of more.
LEMMA MorePackets ==
    ASSUME NEW n \in Nat, NEW m \in Nat, n <= m
    PROVE  Packets(n) \subseteq Packets(m) /\ Seq(Packets(n)) \subseteq Seq(Packets(m))
<1>1. 1..n \subseteq 1..m
  OBVIOUS
<1>2. Packets(n) \subseteq Packets(m)
  BY <1>1 DEF Packets
<1>3. \A q \in Seq(Packets(n)) : q \in Seq(Packets(m))
  <2> SUFFICES ASSUME NEW q \in Seq(Packets(n)) PROVE q \in Seq(Packets(m))
    OBVIOUS
  <2>1. PICK l \in Nat : l = Len(q) /\ q \in [1..l -> Packets(n)]
    BY LenProperties
  <2>2. q \in [1..l -> Packets(m)]
    BY <1>2, <2>1
  <2> QED
    BY <2>2
<1> QED
  BY <1>2, <1>3

\* What a parser is made of.
LEMMA EmptyTyped ==
    \A n \in Nat : EmptyParser \in [type : KeyTypes \cup {"undefined", "invalid"}, size : Nat,
                                    data : Seq(Packets(n))]
BY DEF EmptyParser, Parser

\* There is no packet at first.
LEMMA StreamInit == Init => StreamInv
BY EmptyTyped DEF Init, StreamInv, KeyTypes

\* Every packet stays one of a key that was generated.
LEMMA StreamStep == StreamInv /\ LinkInv /\ [Next]_vars => StreamInv'
<1> SUFFICES ASSUME StreamInv, LinkInv, [Next]_vars PROVE StreamInv'
  OBVIOUS
<1>1. CASE Restarts
  BY <1>1, EmptyTyped DEF Restarts, Reboot, StreamInv, client
<1>2. CASE Idles
  BY <1>2 DEF Idles, StreamInv, client
<1>3. CASE GenerateKeys
  <2>1. gen' = gen + 1 /\ UNCHANGED <<parser, rx, unread, sending, faults>> /\ keys' = SendOrder
    BY <1>3 DEF GenerateKeys, ram, bounds
  <2>2. gen \in Nat /\ gen' \in Nat /\ gen <= gen'
    BY <2>1 DEF StreamInv
  <2>3. Seq(Packets(gen)) \subseteq Seq(Packets(gen'))
    BY <2>2, MorePackets
  <2>4. SendOrder \in Seq(KeyTypes)
    BY DEF SendOrder, KeyTypes
  <2>5. gen' > 0
    BY <2>1, <2>2
  <2>6. parser' \in [type : KeyTypes \cup {"undefined", "invalid"}, size : Nat,
                       data : Seq(Packets(gen'))]
    BY <2>1, <2>3 DEF StreamInv
  <2> QED
    BY <2>1, <2>2, <2>3, <2>4, <2>5, <2>6 DEF StreamInv
<1>4. CASE OpenPort
  <2>1. /\ keys # <<>> /\ keys' = Tail(keys) /\ sending' = KeyPackets(Head(keys), gen)
        /\ UNCHANGED <<parser, rx, unread, gen, faults>>
    BY <1>4 DEF OpenPort, bounds
  <2>2. keys \in Seq(KeyTypes) /\ gen \in Nat /\ gen > 0
    BY <2>1 DEF StreamInv
  <2>3. Head(keys) \in KeyTypes /\ Tail(keys) \in Seq(KeyTypes)
    BY <2>1, <2>2, HeadTailProperties
  <2>4. gen \in 1..gen
    BY <2>2
  <2>5. KeyPackets(Head(keys), gen) \in Seq(Packets(gen))
    BY <2>2, <2>3, <2>4, KeyFlows
  <2> QED
    BY <2>1, <2>2, <2>3, <2>5 DEF StreamInv
<1>5. CASE OpenPortFails
  <2>1. /\ keys # <<>> /\ keys' = Tail(keys)
        /\ UNCHANGED <<parser, rx, unread, gen, sending>> /\ faults' \in {faults, faults + 1}
    BY <1>5 DEF OpenPortFails, ram
  <2>2. keys \in Seq(KeyTypes) /\ gen \in Nat /\ gen > 0
    BY <2>1 DEF StreamInv
  <2>3. Tail(keys) \in Seq(KeyTypes)
    BY <2>1, <2>2, HeadTailProperties
  <2> QED
    BY <2>1, <2>2, <2>3 DEF StreamInv
<1>6. CASE WritePacket
  <2>1. /\ sending # <<>> /\ rx' = <<Head(sending)>> /\ sending' = Tail(sending)
        /\ UNCHANGED <<parser, unread, gen, keys, faults>>
    BY <1>6 DEF WritePacket, bounds
  <2>2. Head(sending) \in Packets(gen) /\ Tail(sending) \in Seq(Packets(gen))
    BY <2>1, HeadTailProperties DEF StreamInv
  <2>3. <<Head(sending)>> \in Seq(Packets(gen)) /\ Len(<<Head(sending)>>) <= 1
    BY <2>2
  <2> QED
    BY <2>1, <2>2, <2>3 DEF StreamInv
<1>7. CASE WriteFails
  <2>1. /\ sending # <<>> /\ sending' \in {Tail(sending), <<>>}
        /\ UNCHANGED <<parser, rx, unread, gen, keys>> /\ faults' \in {faults, faults + 1}
    BY <1>7 DEF WriteFails, ram
  <2>2. Tail(sending) \in Seq(Packets(gen)) /\ <<>> \in Seq(Packets(gen))
    BY <2>1, HeadTailProperties DEF StreamInv
  <2>3. sending' \in Seq(Packets(gen))
    BY <2>1, <2>2
  <2>4. faults' \in Nat
    BY <2>1 DEF StreamInv
  <2> QED
    BY <2>1, <2>3, <2>4 DEF StreamInv
<1>8. CASE Takes
  <2>1. /\ rx # <<>> /\ rx' = <<>> /\ unread' = <<>> /\ UNCHANGED <<gen, keys, sending, faults>>
        /\ ReadHeader \/ ReadData
    BY <1>8 DEF Takes, Reads, client
  <2>2. rx[1] \in Packets(gen) /\ gen \in Nat
    BY <2>1, Arrived DEF StreamInv
  <2>3. rx[1].value \in Nat
    BY <2>2, PacketParts
  <2>4. parser.data \o unread \o rx \in Seq(Packets(gen))
    BY ConcatProperties DEF StreamInv
  <2>5. \A v \in {KeyValue[t] : t \in KeyTypes} : TypeOfValue(v) \in KeyTypes
    BY KeySizes
  <2>6. parser' \in [type : KeyTypes \cup {"undefined", "invalid"}, size : Nat,
                       data : Seq(Packets(gen))]
    <3>1. CASE ReadHeader
      BY <2>3, <2>5, <3>1 DEF ReadHeader, StreamInv
    <3>2. CASE ReadData
      BY <2>4, <3>2 DEF ReadData, StreamInv
    <3> QED
      BY <2>1, <3>1, <3>2
  <2> QED
    BY <2>1, <2>6 DEF StreamInv
<1>9. CASE ReceiveFails
  <2>1. /\ rx' = <<>> /\ unread' = unread \o rx /\ UNCHANGED <<parser, gen, keys, sending>>
        /\ faults' = faults + 1
    BY <1>9 DEF ReceiveFails, client
  <2>2. unread \o rx \in Seq(Packets(gen))
    BY ConcatProperties DEF StreamInv
  <2> QED
    BY <2>1, <2>2 DEF StreamInv
<1>10. CASE StoreKey \/ ReadCount
  BY <1>10 DEF StoreKey, ReadCount, client, bounds, StreamInv
<1>11. CASE WriteCount
  BY <1>11, EmptyTyped DEF WriteCount, client, bounds, StreamInv
<1> QED
  BY <1>1, <1>2, <1>3, <1>4, <1>5, <1>6, <1>7, <1>8, <1>9, <1>10, <1>11, Kinds

\* The callback is idle at first.
LEMMA LinkInit == Init => LinkInv
BY DEF Init, LinkInv

\* Only a token that listens is linked, and only a linked one has packets.
LEMMA LinkStep == StreamInv /\ LinkInv /\ [Next]_vars => LinkInv'
<1> SUFFICES ASSUME StreamInv, LinkInv, [Next]_vars PROVE LinkInv'
  OBVIOUS
<1>1. CASE Restarts
  BY <1>1 DEF Restarts, Reboot, LinkInv
<1>2. CASE Idles
  BY <1>2 DEF Idles, LinkInv
<1>3. CASE GenerateKeys \/ OpenPortFails \/ WriteFails
  BY <1>3 DEF GenerateKeys, OpenPortFails, WriteFails, ram, LinkInv
<1>4. CASE OpenPort
  BY <1>4 DEF OpenPort, AccessTokenIsConnected, LinkInv
<1>5. CASE WritePacket
  BY <1>5 DEF WritePacket, LinkInv
<1>6. CASE Takes
  <2>1. usb' \in {usb, [usb EXCEPT !.pc = "store"]} /\ usb.pc = "idle"
    BY <1>6 DEF Takes, Reads, ReadHeader, ReadData
  <2>2. linked /\ linked' /\ mode' = "listen" /\ unread' = <<>>
    BY <1>6 DEF Takes, Reads, LinkInv
  <2>3. usb' = [pc |-> usb'.pc, count |-> usb'.count] /\ usb'.pc \in {"idle", "store"}
    BY <2>1 DEF LinkInv
  <2> QED
    BY <2>2, <2>3 DEF LinkInv
<1>7. CASE ReceiveFails
  BY <1>7 DEF ReceiveFails, LinkInv
<1>8. CASE StoreKey
  BY <1>8 DEF StoreKey, LinkInv
<1>9. CASE ReadCount
  BY <1>9 DEF ReadCount, LinkInv
<1>10. CASE WriteCount
  BY <1>10 DEF WriteCount, LinkInv
<1> QED
  BY <1>1, <1>2, <1>3, <1>4, <1>5, <1>6, <1>7, <1>8, <1>9, <1>10, Kinds

-----------------------------------------------------------------------------
\* The parser and what comes next: every kind of step.

\* As long as nothing failed, nothing is missing.
LEMMA Undisturbed ==
    ASSUME StreamInv, ParserInv, faults = 0, linked
    PROVE  unread = <<>> /\ InStep(Upcoming, Coming)
BY DEF ParserInv

\* What the parser reads.
LEMMA TakesInv ==
    ASSUME Followed, StreamInv, LinkInv, ParserInv, Takes
    PROVE  ParserInv'
<1>1. /\ Reads /\ linked /\ linked' /\ usb.pc = "idle" /\ rx # <<>>
      /\ unread' = <<>> /\ faults' = faults /\ gen' = gen
      /\ Upcoming = parser /\ gen \in Nat
  BY DEF Takes, Reads, LinkInv, Upcoming, StreamInv, client
<1>2. Coming' = sending
  <2>1. rx' = <<>> /\ sending' = sending /\ sending \in Seq(Packets(gen))
    BY DEF Takes, Reads, client, StreamInv
  <2> QED
    BY <2>1, ConcatEmptySeq DEF Coming
<1>3. /\ Coming # <<>> /\ Coming[1] = rx[1] /\ Tail(Coming) = sending
      /\ Coming \in Seq(Packets(gen)) /\ rx[1] \in Packets(gen)
  BY <1>1, Arrived
<1>4. SUFFICES ASSUME InStep(Upcoming', sending)
                      \/ (faults = 1 /\ Doomed(Upcoming', sending)),
                      usb'.pc = "store" /\ parser'.type # "invalid" => Whole(parser'.data, parser'.type)
               PROVE  ParserInv'
  <2>1. CASE unread = <<>>
    <3>1. CASE InStep(Upcoming, Coming)
      <4>1. parser = Before(rx[1]) /\ Flows(Coming)
        BY <1>1, <1>3, <3>1 DEF InStep, At
      <4>2. Flows(sending) /\ After(rx[1]) = At(sending)
        BY <1>3, <4>1, FlowsTail
      <4>3. /\ Upcoming' = After(rx[1])
            /\ usb'.pc = "store" => Whole(parser'.data, parser'.type)
        BY <1>1, <2>1, <4>1, ReadsExpected
      <4> QED
        BY <1>4, <4>2, <4>3 DEF InStep
    <3>2. CASE faults = 1 /\ Doomed(Upcoming, Coming)
      BY <1>1, <1>4, <2>1, <3>2, ReadsDoomed DEF Followed
    <3>3. CASE faults = 1 /\ SoonDoomed(Upcoming, Coming)
      <4>1. parser = Before(rx[1]) /\ Doomed(After(rx[1]), sending)
        BY <1>1, <1>3, <3>3 DEF SoonDoomed
      <4>2. /\ Upcoming' = After(rx[1])
            /\ usb'.pc = "store" => Whole(parser'.data, parser'.type)
        BY <1>1, <2>1, <4>1, ReadsExpected
      <4> QED
        BY <1>4, <3>3, <4>1, <4>2
    <3> QED
      BY <1>1, <2>1, <3>1, <3>2, <3>3 DEF ParserInv
  <2>2. CASE unread # <<>>
    <3>1. faults = 1 /\ Len(unread) = 1 /\ Held(parser, unread[1], Coming)
      BY <1>1, <2>2 DEF ParserInv
    <3> QED
      BY <1>1, <1>4, <2>2, <3>1, ReadsHeld DEF Followed
  <2> QED
    BY <2>1, <2>2
<1> QED
  BY <1>1, <1>2, <1>4 DEF ParserInv, Whole

\* A packet that could not be read.
LEMMA ReceiveFailsInv ==
    ASSUME StreamInv, LinkInv, ParserInv, ReceiveFails, faults = 0
    PROVE  ParserInv'
<1>1. /\ linked /\ linked' /\ usb.pc = "idle" /\ usb' = usb /\ rx # <<>> /\ faults' = 1
      /\ UNCHANGED <<parser, sending, gen>> /\ rx' = <<>> /\ unread' = unread \o rx
      /\ gen \in Nat /\ Upcoming = parser
  BY DEF ReceiveFails, LinkInv, client, Upcoming, StreamInv
<1>2. unread = <<>> /\ InStep(parser, Coming)
  BY <1>1, Undisturbed
<1>3. PICK u \in Packets(gen) : u = rx[1] /\ rx = <<u>>
  BY <1>1, Arrived
<1>4. /\ Coming # <<>> /\ Coming[1] = u /\ Tail(Coming) = sending
      /\ Coming \in Seq(Packets(gen))
  BY <1>1, <1>3, Arrived
<1>5. unread' = <<u>> /\ Len(unread') = 1 /\ unread'[1] = u /\ unread' # <<>>
  <2>1. unread' = <<u>>
    BY <1>1, <1>2, <1>3, ConcatEmptySeq DEF StreamInv
  <2> QED
    BY <2>1
<1>6. Coming' = sending
  BY <1>1, ConcatEmptySeq DEF Coming, StreamInv
<1>7. parser = Before(u) /\ Flows(sending) /\ After(u) = At(sending)
  BY <1>2, <1>4, FlowsTail DEF InStep, At
<1>8. u.key \in KeyTypes /\ u.part \in Parts /\ u.size \in Nat \ {0}
  BY <1>1, PacketParts
<1>9. Held(parser, u, sending)
  <2>1. CASE u.part = "type"
    BY <1>7, <2>1 DEF Held, Before, EmptyParser, Parser
  <2>2. CASE u.part = "size"
    BY <1>7, <2>2 DEF Held, Before, Parser
  <2>3. CASE u.part = "data"
    <3>1. CASE Long(u.key)
      BY <1>7, <2>3, <3>1 DEF Held
    <3>2. CASE ~Long(u.key)
      <4>1. u.size = KeySize[u.key]
        BY <1>1, <2>3, <3>2, PacketParts
      <4>2. parser.size = KeySize[u.key] /\ parser.data = <<>>
        BY <1>7, <2>3 DEF Before, Parser
      <4>3. Bytes(parser.data) = 0
        BY <4>2, FewBytes
      <4>4. Bytes(parser.data) + u.size >= parser.size
        BY <1>8, <4>1, <4>2, <4>3
      <4> QED
        BY <4>4 DEF Held
    <3> QED
      BY <3>1, <3>2
  <2>4. CASE u.part = "rest"
    <3> DEFINE d == Packet("data", u.key, u.gen, PacketSize, 0)
    <3>1. u.size = KeySize[u.key] - PacketSize
      BY <1>1, <2>4, PacketParts
    <3>2. parser.size = KeySize[u.key] /\ parser.data = <<d>>
      BY <1>7, <2>4 DEF Before, Parser
    <3>3. d.size = PacketSize /\ PacketSize \in Nat
      BY <1>8, KeySizes DEF Packet
    <3> HIDE DEF d
    <3>4. Bytes(parser.data) = PacketSize
      BY <3>2, <3>3, FewBytes
    <3>5. Bytes(parser.data) + u.size >= parser.size
      BY <1>8, <3>1, <3>2, <3>3, <3>4, KeySizes
    <3> QED
      BY <3>5 DEF Held
  <2> QED
    BY <1>8, <2>1, <2>2, <2>3, <2>4 DEF Parts
<1> QED
  BY <1>1, <1>5, <1>6, <1>9 DEF ParserInv

\* A packet that was not sent.
LEMMA WriteFailsInv ==
    ASSUME ProgramSizes, StreamInv, LinkInv, ParserInv, WriteFails, linked, faults = 0
    PROVE  ParserInv'
<1>1. /\ sending # <<>> /\ faults' = 1 /\ linked' /\ gen \in Nat
      /\ UNCHANGED <<parser, rx, unread, usb, gen>>
      /\ sending' = IF Head(sending).part \in {"type", "size"} THEN Tail(sending) ELSE <<>>
      /\ sending \in Seq(Packets(gen))
  BY DEF WriteFails, MayFail, StreamInv, ram
<1>2. unread = <<>> /\ InStep(Upcoming, Coming)
  BY Undisturbed
<1>3. sending' = IF sending[1].part \in {"type", "size"} THEN Tail(sending) ELSE <<>>
  BY <1>1
<1>4. Upcoming' = Upcoming
  BY <1>1 DEF Upcoming
<1>5. (usb.pc = "store" /\ parser.type # "invalid" => Whole(parser.data, parser.type))'
  BY <1>1 DEF ParserInv, Whole
<1>6. SUFFICES Doomed(Upcoming, Coming') \/ SoonDoomed(Upcoming, Coming')
  BY <1>1, <1>2, <1>4, <1>5 DEF ParserInv, Whole
<1>7. sending' \in Seq(Packets(gen))
  BY <1>1, HeadTailProperties
<1>8. CASE rx = <<>>
  <2>1. Coming = sending /\ Coming' = sending'
    BY <1>1, <1>7, <1>8, ConcatEmptySeq DEF Coming
  <2> QED
    BY <1>1, <1>2, <1>3, <1>6, <2>1, Gap
<1>9. CASE rx # <<>>
  <2>1. PICK p \in Packets(gen) : p = rx[1] /\ rx = <<p>>
    BY <1>9, Arrived
  <2>2. /\ Coming # <<>> /\ Coming[1] = p /\ Tail(Coming) = sending
        /\ Coming \in Seq(Packets(gen))
    BY <1>9, <2>1, Arrived
  <2>3. Upcoming = Before(p) /\ Flows(sending) /\ After(p) = At(sending)
    BY <1>2, <2>2, FlowsTail DEF InStep, At
  <2>4. Doomed(After(p), sending')
    BY <1>1, <1>3, <2>3, Gap DEF InStep
  <2>5. Coming' = <<p>> \o sending'
    BY <1>1, <2>1 DEF Coming
  <2>6. Coming' # <<>> /\ Coming'[1] = p /\ Tail(Coming') = sending'
    BY <1>7, <2>5, OneBefore
  <2> QED
    BY <1>6, <2>3, <2>4, <2>6 DEF SoonDoomed
<1> QED
  BY <1>8, <1>9

\* A packet that gets through.
LEMMA WritePacketInv ==
    ASSUME StreamInv, ParserInv, WritePacket
    PROVE  ParserInv'
<1>1. /\ sending # <<>> /\ rx = <<>> /\ rx' = <<Head(sending)>> /\ sending' = Tail(sending)
      /\ UNCHANGED <<parser, unread, usb, linked, gen, faults>>
      /\ sending \in Seq(Packets(gen))
  BY DEF WritePacket, bounds, StreamInv
<1>2. Coming' = Coming
  <2>1. Coming = sending
    BY <1>1, ConcatEmptySeq DEF Coming
  <2>2. PICK p, s : p = Head(sending) /\ s = Tail(sending)
    OBVIOUS
  <2>3. PICK l \in Nat \ {0} : l = Len(sending)
    BY <1>1, LenProperties, EmptySeq
  <2>4. /\ p \in Packets(gen) /\ p = sending[1]
        /\ s \in Seq(Packets(gen)) /\ Len(s) = l - 1 /\ \A i \in 1..l - 1 : s[i] = sending[i + 1]
    BY <1>1, <2>2, <2>3, HeadTailProperties
  <2>5. PICK c : c = <<p>> \o s
    OBVIOUS
  <2>6. <<p>> \in Seq(Packets(gen)) /\ Len(<<p>>) = 1 /\ <<p>>[1] = p
    BY <2>4
  <2>7. PICK k \in Nat : k = l - 1
    OBVIOUS
  <2>8. /\ c \in Seq(Packets(gen)) /\ Len(c) = 1 + k
        /\ \A i \in 1..1 + k : c[i] = IF i <= 1 THEN <<p>>[i] ELSE s[i - 1]
    BY <2>4, <2>5, <2>6, <2>7, ConcatProperties
  <2>9. ASSUME NEW i \in 1..l PROVE c[i] = sending[i]
    <3>1. CASE i = 1
      <4>1. 1 \in 1..1 + k
        BY <2>7
      <4> QED
        BY <2>4, <2>6, <2>8, <3>1, <4>1
    <3>2. CASE i # 1
      <4>1. i \in 1..1 + k /\ ~(i <= 1) /\ i - 1 \in 1..l - 1 /\ (i - 1) + 1 = i
        BY <2>7, <3>2
      <4>2. c[i] = s[i - 1]
        BY <2>8, <4>1
      <4>3. s[i - 1] = sending[i]
        BY <2>4, <4>1
      <4> QED
        BY <4>2, <4>3
    <3> QED
      BY <3>1, <3>2
  <2>10. Len(c) = l
    BY <2>7, <2>8
  <2>11. c = sending
    BY <1>1, <2>3, <2>8, <2>9, <2>10, SeqEqual
  <2> QED
    BY <1>1, <2>1, <2>2, <2>5, <2>11 DEF Coming
<1> QED
  BY <1>1, <1>2 DEF ParserInv, Upcoming, Whole

\* Another key.
LEMMA OpenPortInv ==
    ASSUME StreamInv, LinkInv, ParserInv, OpenPort
    PROVE  ParserInv'
<1>1. /\ sending = <<>> /\ keys # <<>> /\ linked' /\ sending' = KeyPackets(Head(keys), gen)
      /\ UNCHANGED <<parser, rx, unread, usb, gen, faults>>
      /\ keys \in Seq(KeyTypes) /\ gen \in Nat /\ gen > 0 /\ rx \in Seq(Packets(gen))
  BY DEF OpenPort, bounds, StreamInv
<1>2. gen \in 1..gen /\ Head(keys) \in KeyTypes
  BY <1>1, HeadTailProperties
<1>3. sending' \in Seq(Packets(gen)) /\ Flows(sending') /\ At(sending') = EmptyParser
  BY <1>1, <1>2, KeyFlows
<1>4. Coming = rx /\ Coming' = rx \o sending'
  BY <1>1, ConcatEmptySeq DEF Coming
<1>5. Upcoming' = Upcoming
  BY <1>1 DEF Upcoming
<1>6. CASE ~linked
  <2>1. parser = EmptyParser /\ rx = <<>> /\ unread = <<>> /\ usb.pc = "idle"
    BY <1>6 DEF LinkInv
  <2>2. Coming' = sending'
    BY <1>3, <1>4, <2>1, ConcatEmptySeq
  <2>3. InStep(Upcoming', Coming')
    BY <1>3, <1>5, <2>1, <2>2 DEF InStep, Upcoming
  <2> QED
    BY <1>1, <2>1, <2>3 DEF ParserInv
<1>7. CASE linked
  <2>1. InStep(Upcoming, Coming) => InStep(Upcoming', Coming')
    BY <1>1, <1>3, <1>4, <1>5, FlowsMore DEF InStep
  <2>2. Doomed(Upcoming, Coming) => Doomed(Upcoming', Coming')
    BY <1>1, <1>3, <1>4, <1>5, DoomedMore
  <2>3. SoonDoomed(Upcoming, Coming) => SoonDoomed(Upcoming', Coming')
    BY <1>1, <1>3, <1>4, <1>5, SoonDoomedMore
  <2>4. Held(parser, unread[1], Coming) => Held(parser, unread[1], Coming')
    BY <1>1, <1>3, <1>4, HeldMore
  <2> QED
    BY <1>1, <1>7, <2>1, <2>2, <2>3, <2>4 DEF ParserInv, Whole
<1> QED
  BY <1>6, <1>7

\* A key is stored, the count read and written.
LEMMA CallbackInv ==
    ASSUME StreamInv, LinkInv, ParserInv, StoreKey \/ ReadCount \/ WriteCount
    PROVE  ParserInv'
<1>1. /\ UNCHANGED <<rx, unread, sending, linked, gen, faults>>
      /\ parser.type # "invalid" /\ usb.pc # "idle"
  BY DEF StoreKey, ReadCount, WriteCount, client, bounds, LinkInv
<1>2. Upcoming = EmptyParser /\ Coming' = Coming /\ unread = <<>>
  BY <1>1 DEF Upcoming, Coming, LinkInv
<1>3. Upcoming' = EmptyParser /\ usb'.pc # "store"
  <2>1. CASE StoreKey
    BY <1>1, <2>1 DEF StoreKey, Upcoming, LinkInv
  <2>2. CASE ReadCount
    BY <1>1, <2>2 DEF ReadCount, Upcoming
  <2>3. CASE WriteCount
    BY <2>3 DEF WriteCount, Upcoming
  <2> QED
    BY <2>1, <2>2, <2>3
<1> QED
  BY <1>1, <1>2, <1>3 DEF ParserInv

\* Every step leaves the parser in step, or with one failure out of step for good.
LEMMA ParserStep ==
    ASSUME StreamInv, LinkInv, ParserInv, Followed', [Next]_vars
    PROVE  ParserInv'
<1>0. faults \in Nat /\ gen \in Nat
  BY DEF StreamInv
<1>1. CASE Restarts
  BY <1>1 DEF Restarts, Reboot, ParserInv
<1>2. CASE Idles
  <2>1. CASE linked
    BY <1>2, <2>1 DEF Idles, client, LinkInv, ParserInv, Upcoming, Coming, Whole
  <2>2. CASE ~linked
    BY <1>2, <2>2 DEF Idles, LinkInv, ParserInv
  <2> QED
    BY <2>1, <2>2
<1>3. CASE GenerateKeys
  <2>1. gen' = gen + 1 /\ UNCHANGED <<parser, rx, unread, usb, linked, sending, faults>>
    BY <1>3 DEF GenerateKeys, ram, bounds
  <2>2. 1..gen \subseteq 1..gen'
    BY <1>0, <2>1
  <2>3. Upcoming' = Upcoming /\ Coming' = Coming
    BY <2>1 DEF Upcoming, Coming
  <2> QED
    BY <2>1, <2>2, <2>3 DEF ParserInv, Whole
<1>4. CASE OpenPortFails
  <2>1. /\ UNCHANGED <<parser, rx, unread, usb, linked, sending, gen>>
        /\ (linked => faults' = faults + 1)
    BY <1>4 DEF OpenPortFails, ram, AccessTokenIsConnected, LinkInv
  <2>2. Upcoming' = Upcoming /\ Coming' = Coming
    BY <2>1 DEF Upcoming, Coming
  <2>3. CASE linked
    <3>1. faults = 0
      BY <1>0, <2>1, <2>3 DEF Followed
    <3>2. unread = <<>> /\ InStep(Upcoming, Coming)
      BY <2>3, <3>1, Undisturbed
    <3> QED
      BY <2>1, <2>2, <3>2 DEF ParserInv, Whole
  <2>4. CASE ~linked
    BY <2>1, <2>4 DEF LinkInv, ParserInv
  <2> QED
    BY <2>3, <2>4
<1>5. CASE WriteFails
  <2>1. CASE linked
    <3>1. faults = 0 /\ ProgramSizes
      BY <1>0, <1>5, <2>1 DEF WriteFails, Followed
    <3> QED
      BY <1>5, <2>1, <3>1, WriteFailsInv
  <2>2. CASE ~linked
    BY <1>5, <2>2 DEF WriteFails, ram, LinkInv, ParserInv
  <2> QED
    BY <2>1, <2>2
<1>6. CASE ReceiveFails
  <2>1. faults = 0
    BY <1>0, <1>6 DEF ReceiveFails, Followed
  <2> QED
    BY <1>6, <2>1, ReceiveFailsInv
<1>7. CASE Takes
  <2>1. Followed
    BY <1>7 DEF Takes, Reads, Followed
  <2> QED
    BY <1>7, <2>1, TakesInv
<1> QED
  BY <1>1, <1>2, <1>3, <1>4, <1>5, <1>6, <1>7, Kinds, WritePacketInv, OpenPortInv, CallbackInv

-----------------------------------------------------------------------------
\* The keys in storage.

\* What a step does to them.
LEMMA KeySteps ==
    ASSUME [Next]_vars
    PROVE  \/ nvs'.key = nvs.key
           \/ nvs' = Erased
           \/ /\ usb.pc = "store" /\ parser.type # "invalid"
              /\ nvs'.key = [nvs.key EXCEPT ![parser.type] = parser.data]
              /\ StoreKey \/ Restarts
<1>1. CASE StoreKey
  BY <1>1 DEF StoreKey, WriteBinary
<1>2. CASE StoreKeyFails
  <2>1. Restarts
    BY <1>2 DEF StoreKeyFails, Fault, Stop, Restarts
  <2> QED
    BY <1>2, <2>1 DEF StoreKeyFails, Written, WriteErrors, WriteBinary
<1>3. CASE WriteCount \/ ResetWrites \/ BootCreates \/ ResetOpens
  BY <1>3 DEF WriteCount, ResetWrites, BootCreates, ResetOpens, WriteInt8
<1>4. CASE WriteCountFails
  BY <1>4 DEF WriteCountFails, Written, WriteErrors, WriteInt8
<1>5. CASE BootCreatesFails \/ ResetWriteFails
  BY <1>5 DEF BootCreatesFails, ResetWriteFails, Written, WriteErrors, WriteInt8
<1>6. CASE EraseFlash \/ FlashFails
  BY <1>6 DEF EraseFlash, FlashFails
<1>7. CASE Receive \/ BootAsserts \/ NoHandle
  BY <1>7 DEF Receive, BootAsserts, NoHandle, Trap
<1> QED
  BY <1>1, <1>2, <1>3, <1>4, <1>5, <1>6, <1>7
  DEF Next, vars, GenerateKeys, OpenPort, OpenPortFails, WritePacket, WriteFails, ReceiveFails,
      UsbStep, StoreKeyThrows, ReadCount, MainStep, BootWithoutNamespace, BootListens, BootServes,
      BootWithoutKeys, PollRestarts, Poll, StorageFails, PressButton, ResetRestarts, PowerCut

\* The uses of Generate Keys and the failures are only added to.
LEMMA Counted ==
    ASSUME StreamInv, [Next]_vars
    PROVE  /\ gen' \in {gen, gen + 1} /\ faults' \in {faults, faults + 1}
           /\ gen \in Nat /\ faults \in Nat
<1>1. Restarts \/ Idles => gen' = gen /\ faults' \in {faults, faults + 1}
  BY DEF Restarts, Idles, client
<1>2. GenerateKeys => gen' = gen + 1 /\ faults' = faults
  BY DEF GenerateKeys, bounds
<1>3. OpenPort \/ OpenPortFails \/ WritePacket \/ WriteFails
        => gen' = gen /\ faults' \in {faults, faults + 1}
  BY DEF OpenPort, OpenPortFails, WritePacket, WriteFails, bounds
<1>4. Takes \/ ReceiveFails \/ StoreKey \/ ReadCount \/ WriteCount
        => gen' = gen /\ faults' \in {faults, faults + 1}
  BY DEF Takes, Reads, ReceiveFails, StoreKey, ReadCount, WriteCount, client, bounds
<1> QED
  BY <1>1, <1>2, <1>3, <1>4, Kinds DEF StreamInv

\* What is stored is whole, as the parser has completed nothing else.
LEMMA KeptStep ==
    ASSUME StreamInv, ParserInv, KeysKept, [Next]_vars
    PROVE  KeysKept'
<1>1. \A data, t : Whole(data, t) => Whole(data, t)'
  <2>1. 1..gen \subseteq 1..gen'
    BY Counted
  <2> QED
    BY <2>1 DEF Whole
<1>2. CASE nvs'.key = nvs.key
  BY <1>1, <1>2 DEF KeysKept
<1>3. CASE nvs' = Erased
  BY <1>3 DEF Erased, KeysKept
<1>4. CASE /\ usb.pc = "store" /\ parser.type # "invalid"
           /\ nvs'.key = [nvs.key EXCEPT ![parser.type] = parser.data]
  <2>1. Whole(parser.data, parser.type)
    BY <1>4 DEF ParserInv
  <2> QED
    BY <1>1, <1>4, <2>1 DEF KeysKept
<1> QED
  BY <1>2, <1>3, <1>4, KeySteps

\* No key is stored at first.
LEMMA KeysInit == Init => KeysInv
<1> SUFFICES ASSUME Init PROVE KeysInv
  OBVIOUS
<1>1. ParserInv
  BY DEF Init, ParserInv
<1>2. KeysKept
  BY DEF Init, KeysKept, Erased, WriteInt8
<1> QED
  BY <1>1, <1>2, StreamInit, LinkInit DEF KeysInv

\* The invariant is inductive.
LEMMA KeysStep ==
    ASSUME KeysInv, [Next]_vars
    PROVE  KeysInv'
<1>1. StreamInv' /\ LinkInv'
  BY StreamStep, LinkStep DEF KeysInv
<1>2. ASSUME Followed' PROVE ParserInv' /\ KeysKept'
  <2>1. Followed
    BY <1>2, Counted DEF KeysInv, Followed
  <2>2. StreamInv /\ LinkInv /\ ParserInv /\ KeysKept
    BY <2>1 DEF KeysInv
  <2> QED
    BY <1>2, <2>2, ParserStep, KeptStep
<1> QED
  BY <1>1, <1>2 DEF KeysInv

\* With the sizes that the program's keys and packets have, what is stored under
\* a key's name is a whole key of that type, in spite of one failure of the port
\* or the storage, and of any restarts and presses of the button
\* (usb_cdc.cpp:64-103).
THEOREM KeysStayIntact == ASSUME ProgramSizes PROVE Spec => []KeysIntact
<1>1. KeysInv => KeysIntact
  <2> SUFFICES ASSUME KeysInv, faults <= 1 PROVE KeysKept
    BY DEF KeysKept, KeysIntact, Whole
  <2>1. faults \in Nat
    BY DEF KeysInv, StreamInv
  <2>2. faults = 0 \/ faults = 1
    BY <2>1
  <2> QED
    BY <2>2 DEF KeysInv, Followed
<1> QED
  BY KeysInit, KeysStep, <1>1, PTL DEF Spec

\* Keys and packets may have any size as long as no call fails: restarts of the
\* token between two packets and presses of the button leave only whole keys
\* (usb_cdc.cpp:64-103).
THEOREM KeysIntactUndisturbed == Spec => [](faults = 0 => KeysIntact)
<1>1. KeysInv => (faults = 0 => KeysIntact)
  BY DEF KeysInv, KeysKept, KeysIntact, Whole, Followed
<1> QED
  BY KeysInit, KeysStep, <1>1, PTL DEF Spec

-----------------------------------------------------------------------------
\* How many keys can have been stored.

\* A packet of one byte is a type or a size.
One(s) == IF s # <<>> /\ s[1].size = 1 THEN 1 ELSE 0

\* The packets of one byte that are still to be sent of a key.
Left(s) ==
    CASE s = <<>> -> 0
      [] s # <<>> /\ s[1].part = "type" -> 2
      [] s # <<>> /\ s[1].part = "size" -> 1
      [] s # <<>> /\ s[1].part \notin {"type", "size"} -> 0

\* The packets of one byte that the parser has read of a key not yet stored.
HeadersRead ==
    CASE usb.pc \in {"read", "write"} \/ parser.type = "undefined" -> 0
      [] ~(usb.pc \in {"read", "write"} \/ parser.type = "undefined") /\ parser.size = 0 -> 1
      [] ~(usb.pc \in {"read", "write"} \/ parser.type = "undefined") /\ parser.size # 0 -> 2

\* No second key in the packets of s.
OneKey(s) == \A i \in 2..Len(s) : s[i].part # "type"

\* What is being sent is the end of a key.
SendingInv == Flows(sending) /\ OneKey(sending)

\* Sizes are read after types; a complete key has both.
HeaderInv ==
    /\ parser.type = "undefined" => parser.size = 0
    /\ usb.pc # "idle" => parser.type # "undefined" /\ parser.size # 0

\* A key takes two packets of one byte to be stored, and is sent only once.
StoresInv ==
    /\ stores \in Nat
    /\ Len(keys) <= 3 * gen
    /\ 2 * stores + HeadersRead + One(rx) + Left(sending) <= 2 * (3 * gen - Len(keys))

\* The sizes of the packets tell the header from the rest.
LEMMA OneByte ==
    ASSUME NEW n \in Nat, NEW p \in Packets(n)
    PROVE  p.size = 1 <=> p.part \in {"type", "size"}
<1>1. p.key \in KeyTypes /\ p.part \in Parts
  BY PacketParts
<1>2. CASE p.part = "type" \/ p.part = "size"
  BY <1>2, PacketParts
<1>3. CASE p.part = "data"
  BY <1>1, <1>3, PacketParts, KeySizes
<1>4. CASE p.part = "rest"
  BY <1>1, <1>4, PacketParts, KeySizes
<1> QED
  BY <1>1, <1>2, <1>3, <1>4 DEF Parts

\* Whether it gets through or not, the first packet takes its byte with it.
LEMMA LeftTail ==
    ASSUME NEW n \in Nat, NEW c \in Seq(Packets(n)), c # <<>>, Flows(c), OneKey(c)
    PROVE  /\ Tail(c) \in Seq(Packets(n)) /\ Flows(Tail(c)) /\ OneKey(Tail(c))
           /\ Left(Tail(c)) + One(c) <= Left(c)
           /\ Left(Tail(c)) \in 0..2 /\ Left(c) \in 0..2
<1>1. PICK m \in Nat \ {0} : m = Len(c)
  BY LenProperties, EmptySeq
<1>2. PICK s, p : s = Tail(c) /\ p = c[1]
  OBVIOUS
<1>3. s \in Seq(Packets(n)) /\ Len(s) = m - 1 /\ \A i \in 1..m - 1 : s[i] = c[i + 1]
  BY <1>1, <1>2, HeadTailProperties
<1>4. Flows(s) /\ After(p) = At(s) /\ p \in Packets(n) /\ p.part \in Parts
  BY <1>2, FlowsTail, First, PacketParts
<1>5. \A i \in 1..m - 1 : s[i].part # "type"
  <2>1. \A i \in 1..m - 1 : i + 1 \in 2..m
    OBVIOUS
  <2> QED
    BY <1>1, <1>3, <2>1 DEF OneKey
<1>6. OneKey(s)
  <2>1. \A i \in 2..m - 1 : i \in 1..m - 1
    OBVIOUS
  <2> QED
    BY <1>3, <1>5, <2>1 DEF OneKey
<1>7. One(c) = IF p.part \in {"type", "size"} THEN 1 ELSE 0
  BY <1>2, <1>4, OneByte DEF One
<1>8. Left(c) = IF p.part = "type" THEN 2 ELSE IF p.part = "size" THEN 1 ELSE 0
  BY <1>2 DEF Left
<1>9. Awaited(After(p)) = IF p.part = "type" THEN "size"
                          ELSE IF p.part = "size" THEN "data"
                          ELSE IF p.part = "data" /\ Long(p.key) THEN "rest" ELSE "type"
  BY <1>4, PartsInOrder
<1>10. CASE s = <<>>
  <2>1. Awaited(After(p)) = "type"
    BY <1>4, <1>10, NothingFlows
  <2>2. p.part \notin {"type", "size"}
    BY <1>9, <2>1
  <2>3. Left(s) = 0
    BY <1>10 DEF Left
  <2> QED
    BY <1>2, <1>3, <1>4, <1>6, <1>7, <1>8, <2>2, <2>3
<1>11. CASE s # <<>>
  <2>1. s[1].part = Awaited(After(p))
    BY <1>3, <1>4, <1>11, First
  <2>2. s[1].part # "type"
    <3>1. m - 1 # 0
      BY <1>3, <1>11, EmptySeq
    <3>2. 1 \in 1..m - 1
      BY <3>1
    <3> QED
      BY <1>5, <3>2
  <2>3. Left(s) = IF p.part = "type" THEN 1 ELSE 0
    BY <1>9, <1>11, <2>1, <2>2 DEF Left
  <2>4. Left(s) + One(c) <= Left(c) /\ Left(s) \in 0..2 /\ Left(c) \in 0..2
    BY <1>7, <1>8, <2>3
  <2> QED
    BY <1>2, <1>3, <1>4, <1>6, <2>4
<1> QED
  BY <1>10, <1>11

\* The bytes read of a header, those of a packet and those still to be sent.
LEMMA HeadersRange == HeadersRead \in 0..2
BY DEF HeadersRead

\* The bytes of a packet that count.
LEMMA OneRange == \A s : One(s) \in 0..1
BY DEF One

\* The bytes still to be sent that count.
LEMMA LeftRange == \A s : Left(s) \in 0..2
<1> SUFFICES ASSUME NEW s PROVE Left(s) \in 0..2
  OBVIOUS
<1>1. CASE s = <<>>
  BY <1>1 DEF Left
<1>2. CASE s # <<>>
  BY <1>2 DEF Left
<1> QED
  BY <1>1, <1>2

\* Whatever is lost, what is being sent stays the end of one key.
LEMMA SendingStep ==
    ASSUME StreamInv, LinkInv, SendingInv, [Next]_vars
    PROVE  SendingInv'
<1>1. CASE UNCHANGED sending
  BY <1>1 DEF SendingInv
<1>2. CASE OpenPort
  <2>1. sending' = KeyPackets(Head(keys), gen) /\ keys # <<>>
    BY <1>2 DEF OpenPort
  <2>2. gen \in Nat /\ gen \in 1..gen /\ Head(keys) \in KeyTypes
    BY <2>1, HeadTailProperties DEF StreamInv
  <2> QED
    BY <2>1, <2>2, KeyFlows DEF SendingInv, OneKey
<1>3. CASE WritePacket \/ WriteFails
  <2>1. sending # <<>> /\ sending' \in {Tail(sending), <<>>}
    BY <1>3 DEF WritePacket, WriteFails
  <2>2. Flows(Tail(sending)) /\ OneKey(Tail(sending))
    BY <2>1, LeftTail DEF SendingInv, StreamInv
  <2>3. Flows(<<>>) /\ OneKey(<<>>)
    <3>1. Len(<<>>) = 0 /\ 2..0 = {}
      BY EmptySeq
    <3> QED
      BY <3>1, NothingFlows DEF OneKey
  <2> QED
    BY <2>1, <2>2, <2>3 DEF SendingInv
<1>4. UNCHANGED sending \/ OpenPort \/ WritePacket \/ WriteFails
  BY Kinds DEF Restarts, Idles, client, GenerateKeys, OpenPortFails, Takes, Reads, ReceiveFails,
               StoreKey, ReadCount, WriteCount
<1> QED
  BY <1>1, <1>2, <1>3, <1>4

\* A header that is read is one byte.
LEMMA HeaderTaken ==
    ASSUME StreamInv, Reads, parser.type = "undefined" \/ parser.size = 0
    PROVE  One(rx) = 1 /\ ReadHeader
<1>1. PICK p \in Packets(gen) : p = rx[1] /\ rx = <<p>>
  BY Arrived DEF Reads
<1>2. gen \in Nat /\ unread \in Seq(Packets(gen)) /\ rx \in Seq(Packets(gen)) /\ rx # <<>>
  BY DEF StreamInv, Reads
<1>3. \A q \in Packets(gen) : q.size \in Nat \ {0}
  BY <1>2, PacketParts
<1>4. Bytes(rx) = p.size
  BY <1>1, <1>3, FewBytes
<1>5. Bytes(unread) \in Nat /\ Bytes(unread \o rx) = Bytes(unread) + Bytes(rx)
  BY <1>2, <1>3, MoreBytes
<1>6. Bytes(unread \o rx) = 1
  BY DEF Reads
<1>7. p.size \in Nat \ {0}
  BY <1>3
<1>8. p.size = 1
  BY <1>4, <1>5, <1>6, <1>7
<1> QED
  BY <1>1, <1>2, <1>8 DEF One, Reads

\* What a header makes of the parser.
LEMMA HeaderReads ==
    ASSUME StreamInv, ReadHeader, rx # <<>>
    PROVE  /\ usb' = usb
           /\ parser.type = "undefined" =>
                parser'.type # "undefined" /\ parser'.size = parser.size
           /\ parser.type # "undefined" => parser'.type = parser.type
<1>1. \A v \in {KeyValue[t] : t \in KeyTypes} : TypeOfValue(v) \in KeyTypes
  BY KeySizes
<1>2. "undefined" \notin KeyTypes
  BY DEF KeyTypes
<1> QED
  BY <1>1, <1>2 DEF ReadHeader, StreamInv

\* A parser without a type has no size either.
LEMMA HeaderStep ==
    ASSUME StreamInv, LinkInv, HeaderInv, [Next]_vars
    PROVE  HeaderInv'
<1>1. CASE UNCHANGED <<parser, usb>>
  BY <1>1 DEF HeaderInv
<1>2. CASE Restarts
  BY <1>2 DEF Restarts, Reboot, HeaderInv, EmptyParser, Parser
<1>3. CASE Takes
  <2>1. CASE parser.type = "undefined" \/ parser.size = 0
    <3>1. usb.pc = "idle" /\ usb' = usb
      BY <1>3, <2>1, HeaderTaken, HeaderReads DEF Takes, Reads
    <3>2. parser.type = "undefined" => parser'.type # "undefined"
      BY <1>3, <2>1, HeaderTaken, HeaderReads DEF Takes, Reads
    <3>3. parser.type # "undefined" => parser'.type = parser.type
      BY <1>3, <2>1, HeaderTaken, HeaderReads DEF Takes, Reads
    <3> QED
      BY <3>1, <3>2, <3>3 DEF HeaderInv
  <2>2. CASE ~(parser.type = "undefined" \/ parser.size = 0)
    BY <1>3, <2>2 DEF Takes, Reads, ReadData, HeaderInv, StreamInv
  <2> QED
    BY <2>1, <2>2
<1>4. CASE StoreKey
  BY <1>4 DEF StoreKey, HeaderInv, LinkInv
<1>5. CASE ReadCount
  BY <1>5 DEF ReadCount, HeaderInv
<1>6. CASE WriteCount
  BY <1>6 DEF WriteCount, HeaderInv, EmptyParser, Parser
<1>7. \/ UNCHANGED <<parser, usb>> \/ Restarts \/ Takes \/ StoreKey \/ ReadCount \/ WriteCount
  BY Kinds DEF Idles, GenerateKeys, OpenPort, OpenPortFails, WritePacket, WriteFails, ReceiveFails, ram
<1> QED
  BY <1>1, <1>2, <1>3, <1>4, <1>5, <1>6, <1>7

\* The count of keys stored is only taken up by a key that is complete.
LEMMA StoredSteps ==
    ASSUME [Next]_vars
    PROVE  \/ stores' = stores
           \/ stores' = 0 /\ Idles
           \/ StoreKey /\ stores' = stores + 1
<1>1. CASE BootCreates \/ BootListens
  BY <1>1 DEF BootCreates, BootListens, Idles, bounds
<1>2. CASE Receive \/ BootAsserts \/ NoHandle
  BY <1>2 DEF Receive, BootAsserts, NoHandle, Trap, history
<1>3. CASE \/ StoreKeyFails \/ WriteCountFails \/ BootCreatesFails \/ FlashFails \/ StorageFails
           \/ ResetWriteFails \/ EraseFlash
  BY <1>3 DEF StoreKeyFails, WriteCountFails, BootCreatesFails, FlashFails, StorageFails,
              ResetWriteFails, EraseFlash, history
<1>4. CASE StoreKey
  BY <1>4 DEF StoreKey
<1> QED
  BY <1>1, <1>2, <1>3, <1>4
  DEF Next, vars, history, GenerateKeys, OpenPort, OpenPortFails, WritePacket, WriteFails,
      ReceiveFails, UsbStep, StoreKeyThrows, ReadCount, WriteCount, MainStep,
      BootWithoutNamespace, BootServes, BootWithoutKeys, PollRestarts, Poll, PressButton,
      ResetOpens, ResetWrites, ResetRestarts, PowerCut

\* A step that stores nothing and leaves no more to be stored.
LEMMA NoMore ==
    ASSUME StoresInv, StreamInv, stores' \in {stores, 0}, UNCHANGED <<gen, keys>>,
           HeadersRead' + One(rx') + Left(sending') <= HeadersRead + One(rx) + Left(sending)
    PROVE  StoresInv'
<1>1. PICK h \in Nat, o \in Nat, l \in Nat : h = HeadersRead /\ o = One(rx) /\ l = Left(sending)
  BY HeadersRange, OneRange, LeftRange
<1>2. HeadersRead' \in 0..2
  BY DEF HeadersRead
<1>3. PICK i \in Nat, p \in Nat, m \in Nat : i = HeadersRead' /\ p = One(rx') /\ m = Left(sending')
  BY <1>2, OneRange, LeftRange
<1>4. PICK k \in Nat, g \in Nat : k = Len(keys) /\ g = gen
  BY LenProperties DEF StreamInv
<1>5. 2 * stores + h + o + l <= 2 * (3 * g - k) /\ k <= 3 * g /\ stores \in Nat
  BY <1>1, <1>4 DEF StoresInv
<1>6. i + p + m <= h + o + l
  BY <1>1, <1>3
<1>7. stores' \in Nat /\ 2 * stores' + i + p + m <= 2 * (3 * g - k)
  <2>1. CASE stores' = stores
    BY <1>5, <1>6, <2>1
  <2>2. CASE stores' = 0
    BY <1>5, <1>6, <2>2
  <2> QED
    BY <2>1, <2>2
<1> QED
  BY <1>3, <1>4, <1>5, <1>7 DEF StoresInv

\* No step makes more of the packets than was sent.
LEMMA StoresStep ==
    ASSUME StreamInv, LinkInv, SendingInv, HeaderInv, StoresInv, [Next]_vars
    PROVE  StoresInv'
<1>0. HeadersRead \in 0..2 /\ One(rx) \in 0..1 /\ Left(sending) \in 0..2 /\ gen \in Nat
  BY HeadersRange, OneRange, LeftRange DEF StreamInv
<1>1. CASE Restarts
  <2>1. HeadersRead' = 0 /\ One(rx') = 0 /\ sending' = sending /\ UNCHANGED <<gen, keys>>
    BY <1>1 DEF Restarts, Reboot, HeadersRead, One, EmptyParser, Parser, client
  <2>2. HeadersRead' + One(rx') + Left(sending') <= HeadersRead + One(rx) + Left(sending)
    BY <1>0, <2>1
  <2>3. stores' \in {stores, 0}
    <3>1. ~StoreKey
      BY <1>1 DEF Restarts, Reboot, StoreKey
    <3> QED
      BY <3>1, StoredSteps
  <2> QED
    BY <2>1, <2>2, <2>3, NoMore
<1>2. CASE Idles
  <2>1. UNCHANGED <<parser, rx, usb, sending, gen, keys>>
    BY <1>2 DEF Idles, client
  <2>2. HeadersRead' = HeadersRead
    BY <2>1 DEF HeadersRead
  <2>3. HeadersRead' + One(rx') + Left(sending') <= HeadersRead + One(rx) + Left(sending)
    BY <1>0, <2>1, <2>2
  <2>4. stores' \in {stores, 0}
    <3>1. ~StoreKey
      BY <2>1 DEF StoreKey, LinkInv
    <3> QED
      BY <3>1, StoredSteps
  <2> QED
    BY <2>1, <2>3, <2>4, NoMore
<1>3. CASE GenerateKeys
  <2>1. /\ keys = <<>> /\ keys' = SendOrder /\ gen' = gen + 1
        /\ UNCHANGED <<parser, rx, usb, sending, stores>>
    BY <1>3 DEF GenerateKeys, ram, history
  <2>2. Len(keys) = 0 /\ Len(keys') = 3
    BY <2>1 DEF SendOrder
  <2>3. HeadersRead' = HeadersRead
    BY <2>1 DEF HeadersRead
  <2>4. PICK r \in Nat : r = HeadersRead + One(rx) + Left(sending)
    BY <1>0
  <2>5. stores \in Nat /\ 2 * stores + r <= 2 * (3 * gen - 0)
    <3>1. PICK h \in Nat, o \in Nat, l \in Nat :
            h = HeadersRead /\ o = One(rx) /\ l = Left(sending)
      BY <1>0
    <3>2. PICK t \in Nat : t = stores
      BY DEF StoresInv
    <3>3. 2 * t + h + o + l <= 2 * (3 * gen - 0)
      BY <2>2, <3>1, <3>2 DEF StoresInv
    <3>4. r = h + o + l /\ 2 * t + (h + o + l) = 2 * t + h + o + l
      BY <2>4, <3>1
    <3> QED
      BY <3>2, <3>3, <3>4
  <2>6. 2 * stores + r <= 2 * (3 * (gen + 1) - 3) /\ 3 <= 3 * (gen + 1)
    BY <1>0, <2>5
  <2> QED
    BY <1>0, <2>1, <2>2, <2>3, <2>4, <2>5, <2>6 DEF StoresInv
<1>4. CASE OpenPort \/ OpenPortFails
  <2>1. /\ sending = <<>> /\ keys # <<>> /\ keys' = Tail(keys) /\ keys \in Seq(KeyTypes)
        /\ UNCHANGED <<parser, rx, usb, gen, stores>>
    BY <1>4 DEF OpenPort, OpenPortFails, ram, history, StreamInv
  <2>2. Left(sending) = 0
    BY <2>1 DEF Left
  <2>3. PICK k \in Nat \ {0} : k = Len(keys) /\ Len(keys') = k - 1
    BY <2>1, LenProperties, EmptySeq, HeadTailProperties
  <2>4. HeadersRead' = HeadersRead
    BY <2>1 DEF HeadersRead
  <2>5. PICK r \in Nat : r = HeadersRead + One(rx)
    BY <1>0
  <2>6. stores \in Nat /\ 2 * stores + r <= 2 * (3 * gen - k) /\ k <= 3 * gen
    BY <1>0, <2>2, <2>3, <2>5 DEF StoresInv
  <2>7. PICK l \in 0..2 : l = Left(sending')
    BY LeftRange
  <2>8. 2 * stores + r + l <= 2 * (3 * gen - (k - 1)) /\ k - 1 <= 3 * gen
    BY <1>0, <2>6
  <2>9. Len(keys') <= 3 * gen'
    BY <2>1, <2>3, <2>8
  <2>10. 2 * stores' + HeadersRead' + One(rx') + Left(sending') = 2 * stores + r + l
    <3>1. One(rx') = One(rx)
      BY <2>1
    <3>2. PICK h \in Nat, o \in Nat : h = HeadersRead /\ o = One(rx)
      BY <1>0
    <3>3. r = h + o /\ HeadersRead' = h /\ One(rx') = o
      BY <2>4, <2>5, <3>1, <3>2
    <3>4. PICK t \in Nat : t = stores /\ stores' = t
      BY <2>1, <2>6
    <3>5. 2 * t + h + o + l = 2 * t + (h + o) + l
      OBVIOUS
    <3> QED
      BY <2>7, <3>3, <3>4, <3>5
  <2>11. 2 * (3 * gen' - Len(keys')) = 2 * (3 * gen - (k - 1))
    BY <2>1, <2>3
  <2> QED
    BY <2>1, <2>6, <2>8, <2>9, <2>10, <2>11 DEF StoresInv
<1>5. CASE WritePacket
  <2>1. /\ sending # <<>> /\ rx = <<>> /\ rx' = <<Head(sending)>> /\ sending' = Tail(sending)
        /\ UNCHANGED <<parser, usb, gen, keys, stores>>
    BY <1>5 DEF WritePacket, history
  <2>2. Left(sending') + One(sending) <= Left(sending)
    BY <1>0, <2>1, LeftTail DEF StreamInv, SendingInv
  <2>3. One(rx') = One(sending) /\ One(rx) = 0
    <3>1. Head(sending) = sending[1]
      BY <2>1 DEF StreamInv
    <3>2. rx' # <<>> /\ rx'[1] = sending[1]
      BY <2>1, <3>1
    <3> QED
      BY <2>1, <3>2 DEF One
  <2>4. HeadersRead' = HeadersRead
    BY <2>1 DEF HeadersRead
  <2>5. Left(sending') \in 0..2 /\ One(sending) \in 0..1
    BY LeftRange, OneRange
  <2>6. HeadersRead' + One(rx') + Left(sending') <= HeadersRead + One(rx) + Left(sending)
    BY <1>0, <2>2, <2>3, <2>4, <2>5
  <2> QED
    BY <2>1, <2>6, NoMore
<1>6. CASE WriteFails
  <2>1. /\ sending # <<>> /\ sending' \in {Tail(sending), <<>>}
        /\ UNCHANGED <<parser, rx, usb, gen, keys, stores>>
    BY <1>6 DEF WriteFails, ram, history
  <2>2. Left(Tail(sending)) + One(sending) <= Left(sending) /\ Left(<<>>) = 0
    BY <1>0, <2>1, LeftTail DEF StreamInv, SendingInv, Left
  <2>3. Left(Tail(sending)) \in 0..2 /\ One(sending) \in 0..1
    BY LeftRange, OneRange
  <2>4. Left(sending') <= Left(sending) /\ Left(sending') \in 0..2
    <3>1. CASE sending' = Tail(sending)
      <4>1. PICK a \in Nat, b \in Nat : a = Left(Tail(sending)) /\ b = One(sending)
        BY <2>3
      <4> QED
        BY <1>0, <2>2, <2>3, <3>1, <4>1
    <3>2. CASE sending' = <<>>
      BY <1>0, <2>2, <3>2
    <3> QED
      BY <2>1, <3>1, <3>2
  <2>5. HeadersRead' = HeadersRead
    BY <2>1 DEF HeadersRead
  <2>6. HeadersRead' + One(rx') + Left(sending') <= HeadersRead + One(rx) + Left(sending)
    BY <1>0, <2>1, <2>4, <2>5
  <2> QED
    BY <2>1, <2>6, NoMore
<1>7. CASE Takes
  <2>1. /\ UNCHANGED <<sending, gen, keys>> /\ One(rx') = 0 /\ Reads
        /\ usb.pc = "idle" /\ rx # <<>>
    BY <1>7 DEF Takes, Reads, client, One
  <2>2. stores' \in {stores, 0}
    <3>1. ~StoreKey
      BY <2>1 DEF StoreKey
    <3> QED
      BY <3>1, StoredSteps
  <2>3. HeadersRead' <= HeadersRead + One(rx) /\ HeadersRead' \in 0..2
    <3>0. HeadersRead' \in 0..2
      BY DEF HeadersRead
    <3>1. CASE parser.type = "undefined"
      <4>1. One(rx) = 1 /\ usb' = usb /\ parser'.type # "undefined" /\ parser'.size = 0
        BY <2>1, <3>1, HeaderTaken, HeaderReads DEF HeaderInv
      <4>2. HeadersRead' = 1 /\ HeadersRead = 0
        BY <2>1, <3>1, <4>1 DEF HeadersRead
      <4> QED
        BY <4>1, <4>2
    <3>2. CASE parser.type # "undefined" /\ parser.size = 0
      <4>1. One(rx) = 1
        BY <2>1, <3>2, HeaderTaken
      <4>2. HeadersRead = 1
        BY <2>1, <3>2 DEF HeadersRead
      <4> QED
        BY <3>0, <4>1, <4>2
    <3>3. CASE parser.type # "undefined" /\ parser.size # 0
      <4>1. HeadersRead = 2
        BY <2>1, <3>3 DEF HeadersRead
      <4> QED
        BY <1>0, <3>0, <4>1
    <3> QED
      BY <3>1, <3>2, <3>3
  <2>4. HeadersRead' + One(rx') + Left(sending') <= HeadersRead + One(rx) + Left(sending)
    BY <1>0, <2>1, <2>3
  <2> QED
    BY <2>1, <2>2, <2>4, NoMore
<1>8. CASE ReceiveFails
  <2>1. /\ One(rx') = 0 /\ UNCHANGED <<parser, usb, sending, gen, keys, stores>>
    BY <1>8 DEF ReceiveFails, client, history, One
  <2>2. HeadersRead' = HeadersRead
    BY <2>1 DEF HeadersRead
  <2>3. HeadersRead' + One(rx') + Left(sending') <= HeadersRead + One(rx) + Left(sending)
    BY <1>0, <2>1, <2>2
  <2> QED
    BY <2>1, <2>3, NoMore
<1>9. CASE StoreKey
  <2>1. /\ usb.pc = "store" /\ usb' = [usb EXCEPT !.pc = "read"] /\ stores' = stores + 1
        /\ UNCHANGED <<rx, sending, gen, keys>>
    BY <1>9 DEF StoreKey, client
  <2>2. HeadersRead = 2
    BY <2>1 DEF HeadersRead, HeaderInv
  <2>3. usb'.pc = "read"
    BY <2>1 DEF LinkInv
  <2>4. HeadersRead' = 0
    BY <2>3 DEF HeadersRead
  <2>5. PICK r \in Nat, k \in Nat : r = One(rx) + Left(sending) /\ k = Len(keys)
    BY <1>0, LenProperties DEF StreamInv
  <2>6. stores \in Nat /\ 2 * stores + 2 + r <= 2 * (3 * gen - k) /\ k <= 3 * gen
    BY <1>0, <2>2, <2>5 DEF StoresInv
  <2>7. 2 * (stores + 1) + r <= 2 * (3 * gen - k)
    BY <1>0, <2>6
  <2>8. 2 * stores' + HeadersRead' + One(rx') + Left(sending') <= 2 * (3 * gen' - Len(keys'))
    <3>1. PICK t \in Nat : t = stores
      BY <2>6
    <3>2. PICK o \in Nat, l \in Nat : o = One(rx) /\ l = Left(sending)
      BY <1>0
    <3>3. 2 * (t + 1) + 0 + o + l = 2 * (t + 1) + (o + l)
      OBVIOUS
    <3>4. /\ stores' = t + 1 /\ HeadersRead' = 0 /\ One(rx') = o /\ Left(sending') = l
          /\ gen' = gen /\ Len(keys') = k /\ r = o + l
      BY <2>1, <2>4, <2>5, <3>1, <3>2
    <3> QED
      BY <2>7, <3>1, <3>3, <3>4
  <2> QED
    BY <2>1, <2>5, <2>6, <2>8 DEF StoresInv
<1>10. CASE ReadCount \/ WriteCount
  <2>1. /\ UNCHANGED <<rx, sending, gen, keys, stores>> /\ usb.pc \in {"read", "write"}
    BY <1>10 DEF ReadCount, WriteCount, client, history
  <2>2. HeadersRead' = 0
    <3>1. CASE ReadCount
      BY <3>1 DEF ReadCount, HeadersRead
    <3>2. CASE WriteCount
      BY <3>2 DEF WriteCount, HeadersRead, EmptyParser, Parser
    <3> QED
      BY <1>10, <3>1, <3>2
  <2>3. HeadersRead' + One(rx') + Left(sending') <= HeadersRead + One(rx) + Left(sending)
    BY <1>0, <2>1, <2>2
  <2> QED
    BY <2>1, <2>3, NoMore
<1> QED
  BY <1>1, <1>2, <1>3, <1>4, <1>5, <1>6, <1>7, <1>8, <1>9, <1>10, Kinds

-----------------------------------------------------------------------------
\* The types.

\* A token that listens has a count.
StorageInv ==
    /\ nvs.space \in BOOLEAN
    /\ nvs.count \in Int /\ nvs.count >= NoCount
    /\ DOMAIN nvs.key = KeyTypes
    /\ mode = "listen" => nvs.count >= 0
    /\ usb.count \in Nat /\ (usb.pc # "write" => usb.count = 0)

\* A boot has opened no handle yet, unless the button was pressed.
HandlesInv ==
    /\ mode \in {"boot", "listen", "ble"}
    /\ reset \in {"idle", "pressed", "opened", "zeroed"}
    /\ handles \in 0..MaxHandles
    /\ mode = "boot" /\ reset \in {"idle", "pressed"} => handles = 0
    /\ mode = "boot" /\ reset \in {"opened", "zeroed"} => handles <= 1

\* The bounds.
BoundsInv ==
    /\ gen \in 0..MaxGenerations
    /\ faults \in 0..MaxFaults
    /\ powerCuts \in 0..MaxPowerCuts
    /\ presses \in 0..MaxPresses
    /\ linked \in BOOLEAN
    /\ asserted \subseteq {"header", "overflow", "count", "memory", "storage"}

\* All that the types rest on.
TypeInv ==
    /\ CountInv /\ StreamInv /\ LinkInv /\ SendingInv /\ HeaderInv /\ StoresInv
    /\ StorageInv /\ HandlesInv /\ BoundsInv

\* What a restart may find in the storage.
LEMMA StorageFound ==
    ASSUME [Next]_vars, Restarts
    PROVE  \/ nvs' \in {nvs, Erased, WriteInt8(nvs, 0)}
           \/ nvs' = WriteInt8(nvs, usb.count + 1) /\ usb.pc = "write"
           \/ /\ nvs' = WriteBinary(nvs, parser.type, parser.data)
              /\ usb.pc = "store" /\ parser.type # "invalid"
<1>1. CASE StoreKeyFails \/ WriteCountFails \/ BootCreatesFails \/ ResetWriteFails
  BY <1>1 DEF StoreKeyFails, WriteCountFails, BootCreatesFails, ResetWriteFails, Written, WriteErrors
<1>2. CASE EraseFlash \/ FlashFails
  BY <1>2 DEF EraseFlash, FlashFails
<1>3. CASE Receive \/ BootAsserts \/ NoHandle
  BY <1>3 DEF Receive, BootAsserts, NoHandle, Trap
<1>4. CASE StoreKey \/ ReadCount \/ WriteCount
  BY <1>4 DEF StoreKey, ReadCount, WriteCount
<1>5. CASE BootCreates \/ BootListens \/ BootServes
  BY <1>5 DEF BootCreates, BootListens, BootServes
<1>6. CASE ResetOpens \/ ResetWrites
  BY <1>6 DEF ResetOpens, ResetWrites, Restarts, Reboot
<1> QED
  BY <1>1, <1>2, <1>3, <1>4, <1>5, <1>6
  DEF Next, vars, GenerateKeys, OpenPort, OpenPortFails, WritePacket, WriteFails, ReceiveFails,
      UsbStep, StoreKeyThrows, MainStep, BootWithoutNamespace, BootWithoutKeys, PollRestarts,
      Poll, StorageFails, PressButton, ResetRestarts, PowerCut

\* The boots that come to their end.
Boots == BootCreates \/ BootListens \/ BootServes

\* The steps that leave the token as it is, in all that has to do with handles.
Unmoved == UNCHANGED <<nvs, mode, handles, reset, usb>>

\* Every step, by what it does to modes, handles and storage.
LEMMA Moves ==
    ASSUME [Next]_vars
    PROVE  \/ Restarts \/ Unmoved \/ Takes \/ StoreKey \/ ReadCount \/ WriteCount
           \/ Boots \/ Poll \/ PressButton \/ ResetOpens \/ ResetWrites \/ EraseFlash
<1>1. CASE Receive
  <2>1. CASE \E a : Trap(a)
    BY <2>1, TrapRestarts
  <2>2. CASE ~\E a : Trap(a)
    BY <1>1, <2>2 DEF Receive, Takes, Reads, bounds
  <2> QED
    BY <2>1, <2>2
<1>2. CASE StoreKeyFails \/ WriteCountFails \/ BootCreatesFails \/ FlashFails \/ StorageFails
           \/ ResetWriteFails
  BY <1>2 DEF StoreKeyFails, WriteCountFails, BootCreatesFails, FlashFails, StorageFails,
              ResetWriteFails, Fault, Stop, Restarts
<1>3. CASE StoreKeyThrows \/ BootWithoutNamespace \/ BootWithoutKeys \/ PollRestarts
           \/ ResetRestarts \/ PowerCut
  BY <1>3 DEF StoreKeyThrows, BootWithoutNamespace, BootWithoutKeys, PollRestarts,
              ResetRestarts, PowerCut, Restarts, bounds
<1>4. CASE BootAsserts \/ NoHandle
  BY <1>4, TrapRestarts DEF BootAsserts, NoHandle
<1>5. CASE GenerateKeys \/ OpenPort \/ OpenPortFails \/ WritePacket \/ WriteFails \/ ReceiveFails
           \/ UNCHANGED vars
  BY <1>5 DEF GenerateKeys, OpenPort, OpenPortFails, WritePacket, WriteFails, ReceiveFails,
              Unmoved, vars, ram
<1> QED
  BY <1>1, <1>2, <1>3, <1>4, <1>5 DEF Next, UsbStep, MainStep, Boots

\* A token that listens keeps its count.
LEMMA StorageStep ==
    ASSUME LinkInv, StorageInv, [Next]_vars
    PROVE  StorageInv'
<1>1. CASE Restarts
  <2>1. mode' = "boot" /\ usb' = [pc |-> "idle", count |-> 0]
    BY <1>1 DEF Restarts, Reboot
  <2>2. /\ nvs'.space \in BOOLEAN /\ nvs'.count \in Int /\ nvs'.count >= NoCount
        /\ DOMAIN nvs'.key = KeyTypes
    <3>1. CASE nvs' = nvs
      BY <3>1 DEF StorageInv
    <3>2. CASE nvs' = Erased
      BY <3>2 DEF Erased, NoCount
    <3>3. CASE nvs' = WriteInt8(nvs, 0) \/ nvs' = WriteInt8(nvs, usb.count + 1)
      <4>1. nvs'.space = TRUE /\ nvs'.count \in {0, usb.count + 1} /\ nvs'.key = nvs.key
        BY <3>3 DEF WriteInt8
      <4>2. 0 >= NoCount /\ usb.count + 1 \in Nat /\ usb.count + 1 >= NoCount
        BY DEF NoCount, StorageInv
      <4>3. nvs'.space \in BOOLEAN /\ DOMAIN nvs'.key = KeyTypes
        BY <4>1 DEF StorageInv
      <4> QED
        BY <4>1, <4>2, <4>3
    <3>4. CASE nvs' = WriteBinary(nvs, parser.type, parser.data)
      BY <3>4 DEF WriteBinary, StorageInv
    <3> QED
      BY <1>1, <3>1, <3>2, <3>3, <3>4, StorageFound
  <2> QED
    BY <2>1, <2>2 DEF StorageInv
<1>2. CASE Unmoved \/ Poll \/ PressButton
  BY <1>2 DEF Unmoved, Poll, PressButton, StorageInv
<1>3. CASE Takes
  <2>1. UNCHANGED <<nvs, mode>> /\ usb' \in {usb, [usb EXCEPT !.pc = "store"]} /\ usb.pc = "idle"
    BY <1>3 DEF Takes, Reads, ReadHeader, ReadData
  <2>2. usb'.count = usb.count /\ usb'.pc # "write"
    BY <2>1 DEF LinkInv
  <2> QED
    BY <2>1, <2>2 DEF StorageInv
<1>4. CASE StoreKey
  <2>1. /\ mode' = mode /\ usb' = [usb EXCEPT !.pc = "read"] /\ usb.pc = "store"
        /\ nvs' = WriteBinary(nvs, parser.type, parser.data)
    BY <1>4 DEF StoreKey
  <2>2. usb'.count = usb.count
    BY <2>1 DEF LinkInv
  <2>3. nvs'.space = TRUE /\ nvs'.count = nvs.count /\ DOMAIN nvs'.key = DOMAIN nvs.key
    BY <2>1 DEF WriteBinary
  <2> QED
    BY <2>1, <2>2, <2>3 DEF StorageInv
<1>5. CASE ReadCount
  <2>1. UNCHANGED <<nvs, mode>> /\ usb' = [pc |-> "write", count |-> nvs.count] /\ mode = "listen"
    BY <1>5 DEF ReadCount, LinkInv
  <2> QED
    BY <2>1 DEF StorageInv
<1>6. CASE WriteCount
  <2>1. mode' = mode /\ usb' = [pc |-> "idle", count |-> 0] /\ nvs' = WriteInt8(nvs, usb.count + 1)
    BY <1>6 DEF WriteCount
  <2> QED
    BY <2>1 DEF StorageInv, WriteInt8, NoCount
<1>7. CASE Boots
  <2>1. usb' = usb /\ mode' \in {"listen", "ble"}
    BY <1>7 DEF Boots, BootCreates, BootListens, BootServes
  <2>2. nvs' = WriteInt8(nvs, 0) \/ (nvs' = nvs /\ (mode' = "listen" => nvs.count = 0))
    BY <1>7 DEF Boots, BootCreates, BootListens, BootServes
  <2>3. CASE nvs' = WriteInt8(nvs, 0)
    <3>1. nvs'.space = TRUE /\ nvs'.count = 0 /\ nvs'.key = nvs.key
      BY <2>3 DEF WriteInt8
    <3>2. nvs'.count \in Int /\ nvs'.count >= NoCount /\ nvs'.count >= 0
      <4>1. nvs'.count = 0
        BY <3>1
      <4> QED
        BY <4>1 DEF NoCount
    <3>3. nvs'.space \in BOOLEAN /\ DOMAIN nvs'.key = KeyTypes
      BY <3>1 DEF StorageInv
    <3>4. usb'.count \in Nat /\ (usb'.pc # "write" => usb'.count = 0)
      BY <2>1 DEF StorageInv
    <3> QED
      BY <3>2, <3>3, <3>4 DEF StorageInv
  <2>4. CASE nvs' = nvs /\ (mode' = "listen" => nvs.count = 0)
    BY <2>1, <2>4 DEF StorageInv
  <2> QED
    BY <2>2, <2>3, <2>4
<1>8. CASE ResetOpens
  BY <1>8 DEF ResetOpens, StorageInv
<1>9. CASE ResetWrites
  BY <1>9 DEF ResetWrites, StorageInv, WriteInt8, NoCount
<1>10. CASE EraseFlash
  BY <1>10 DEF EraseFlash, Erased, NoCount, ram, StorageInv
<1> QED
  BY <1>1, <1>2, <1>3, <1>4, <1>5, <1>6, <1>7, <1>8, <1>9, <1>10, Moves

\* No step opens more handles than there is memory for.
LEMMA HandlesStep ==
    ASSUME LinkInv, HandlesInv, [Next]_vars
    PROVE  HandlesInv'
<1>0. MaxHandles \in Nat /\ MaxHandles > 2 /\ handles \in 0..MaxHandles
  BY ProvisioningAssumption DEF HandlesInv
<1>1. CASE Restarts
  BY <1>0, <1>1 DEF Restarts, Reboot, HandlesInv
<1>2. CASE Unmoved
  BY <1>2 DEF Unmoved, HandlesInv
<1>3. CASE Takes
  <2>1. mode = "listen" /\ mode' = "listen" /\ handles' = handles /\ reset' = reset
    BY <1>3 DEF Takes
  <2> QED
    BY <2>1 DEF HandlesInv
<1>4. CASE StoreKey \/ ReadCount \/ WriteCount \/ Poll
  <2>1. mode = "listen" /\ mode' = mode /\ reset' = reset /\ OpenHandle
    BY <1>4 DEF StoreKey, ReadCount, WriteCount, Poll, LinkInv, MakeReader, MakeWriter
  <2>2. handles' \in 0..MaxHandles
    BY <1>0, <2>1 DEF OpenHandle
  <2> QED
    BY <2>1, <2>2 DEF HandlesInv
<1>5. CASE Boots
  <2>1. mode = "boot" /\ mode' \in {"listen", "ble"} /\ reset' = reset
    BY <1>5 DEF Boots, BootCreates, BootListens, BootServes
  <2>2. handles <= 1
    BY <1>0, <2>1 DEF HandlesInv
  <2>3. handles' \in {handles + 1, handles + 2}
    BY <1>5 DEF Boots, BootCreates, BootListens, BootServes, MakeReader, OpenHandle
  <2>4. handles' \in 0..MaxHandles
    BY <1>0, <2>2, <2>3
  <2> QED
    BY <2>1, <2>4 DEF HandlesInv
<1>6. CASE PressButton
  BY <1>6 DEF PressButton, HandlesInv
<1>7. CASE ResetOpens
  <2>1. /\ reset = "pressed" /\ reset' = "opened" /\ mode' = mode
        /\ handles < MaxHandles /\ handles' = handles + 1
    BY <1>7 DEF ResetOpens, MakeWriter, OpenHandle
  <2>2. handles' \in 0..MaxHandles
    BY <1>0, <2>1
  <2>3. mode = "boot" => handles' <= 1
    BY <1>0, <2>1 DEF HandlesInv
  <2> QED
    BY <2>1, <2>2, <2>3 DEF HandlesInv
<1>8. CASE ResetWrites
  BY <1>8 DEF ResetWrites, HandlesInv
<1>9. CASE EraseFlash
  BY <1>9 DEF EraseFlash, ram, HandlesInv
<1> QED
  BY <1>1, <1>2, <1>3, <1>4, <1>5, <1>6, <1>7, <1>8, <1>9, Moves

\* The button and the plug, and the counters of the events.
LEMMA BoundsStep ==
    ASSUME BoundsInv, [Next]_vars
    PROVE  BoundsInv'
<1>0. /\ MaxGenerations \in Nat /\ MaxFaults \in Nat /\ MaxPowerCuts \in Nat /\ MaxPresses \in Nat
      /\ gen \in 0..MaxGenerations /\ faults \in 0..MaxFaults
      /\ powerCuts \in 0..MaxPowerCuts /\ presses \in 0..MaxPresses
  BY ProvisioningAssumption DEF BoundsInv
<1> DEFINE Names == {"header", "overflow", "count", "memory", "storage"}
<1>1. gen' \in 0..MaxGenerations
  <2>1. gen' = gen \/ (gen < MaxGenerations /\ gen' = gen + 1)
    <3>1. CASE GenerateKeys
      BY <3>1 DEF GenerateKeys
    <3>2. CASE Restarts \/ Idles \/ Takes \/ ReceiveFails
      BY <3>2 DEF Restarts, Idles, Takes, Reads, ReceiveFails, client
    <3>3. CASE \/ OpenPort \/ OpenPortFails \/ WritePacket \/ WriteFails
               \/ StoreKey \/ ReadCount \/ WriteCount
      BY <3>3 DEF OpenPort, OpenPortFails, WritePacket, WriteFails, StoreKey, ReadCount,
                  WriteCount, client
    <3> QED
      BY <3>1, <3>2, <3>3, Kinds
  <2> QED
    BY <1>0, <2>1
<1>2. UNCHANGED <<faults, powerCuts, presses>>
      \/ (faults < MaxFaults /\ faults' = faults + 1 /\ UNCHANGED <<powerCuts, presses>>)
      \/ (powerCuts < MaxPowerCuts /\ powerCuts' = powerCuts + 1 /\ UNCHANGED <<faults, presses>>)
      \/ (presses < MaxPresses /\ presses' = presses + 1 /\ UNCHANGED <<faults, powerCuts>>)
  <2>1. CASE OpenPortFails \/ WriteFails \/ ReceiveFails
    BY <2>1 DEF OpenPortFails, WriteFails, ReceiveFails, MayFail
  <2>2. CASE \/ StoreKeyFails \/ WriteCountFails \/ BootCreatesFails \/ FlashFails \/ StorageFails
             \/ ResetWriteFails \/ EraseFlash
    BY <2>2 DEF StoreKeyFails, WriteCountFails, BootCreatesFails, FlashFails, StorageFails,
                ResetWriteFails, EraseFlash, Fault, MayFail
  <2>3. CASE PowerCut \/ PressButton
    BY <2>3 DEF PowerCut, PressButton
  <2>4. CASE Receive \/ BootAsserts \/ NoHandle
    BY <2>4 DEF Receive, BootAsserts, NoHandle, Trap, bounds
  <2> QED
    BY <2>1, <2>2, <2>3, <2>4
    DEF Next, vars, bounds, GenerateKeys, OpenPort, WritePacket, UsbStep, StoreKey, StoreKeyThrows,
        ReadCount, WriteCount, MainStep, BootWithoutNamespace, BootCreates, BootListens,
        BootServes, BootWithoutKeys, PollRestarts, Poll, ResetOpens, ResetWrites, ResetRestarts
<1>3. faults' \in 0..MaxFaults /\ powerCuts' \in 0..MaxPowerCuts /\ presses' \in 0..MaxPresses
  BY <1>0, <1>2
<1>4. linked' \in BOOLEAN
  <2>1. linked' = linked \/ linked' = TRUE \/ linked' = FALSE
    BY Kinds DEF Restarts, Reboot, Idles, GenerateKeys, OpenPort, OpenPortFails, WritePacket,
                 WriteFails, Takes, ReceiveFails, StoreKey, ReadCount, WriteCount, ram
  <2> QED
    BY <2>1 DEF BoundsInv
<1>5. asserted' \subseteq Names
  <2>1. asserted' = asserted \/ \E a \in Names : asserted' = {a}
    <3>1. CASE Receive \/ BootAsserts \/ NoHandle
      BY <3>1 DEF Receive, BootAsserts, NoHandle, Trap, Stop, history
    <3>2. CASE \/ StoreKeyFails \/ WriteCountFails \/ BootCreatesFails \/ FlashFails
               \/ StorageFails \/ ResetWriteFails \/ EraseFlash
      BY <3>2 DEF StoreKeyFails, WriteCountFails, BootCreatesFails, FlashFails, StorageFails,
                  ResetWriteFails, EraseFlash, Stop, history
    <3> QED
      BY <3>1, <3>2
      DEF Next, vars, history, GenerateKeys, OpenPort, OpenPortFails, WritePacket, WriteFails,
          ReceiveFails, UsbStep, StoreKey, StoreKeyThrows, ReadCount, WriteCount, MainStep,
          BootWithoutNamespace, BootCreates, BootListens, BootServes, BootWithoutKeys,
          PollRestarts, Poll, PressButton, ResetOpens, ResetWrites, ResetRestarts, PowerCut
  <2> QED
    BY <2>1 DEF BoundsInv
<1> QED
  BY <1>1, <1>3, <1>4, <1>5 DEF BoundsInv

\* The types at first.
LEMMA TypeInit == Init => TypeInv
<1> SUFFICES ASSUME Init PROVE TypeInv
  OBVIOUS
<1>1. SendingInv /\ HeaderInv
  <2>1. Len(<<>>) = 0 /\ 2..0 = {}
    BY EmptySeq
  <2> QED
    BY <2>1, NothingFlows DEF Init, SendingInv, OneKey, HeaderInv, EmptyParser, Parser
<1>2. StoresInv
  <2>1. Len(keys) = 0 /\ gen = 0 /\ stores = 0
    BY EmptySeq DEF Init
  <2>2. HeadersRead = 0 /\ One(rx) = 0 /\ Left(sending) = 0
    BY DEF Init, HeadersRead, One, Left, EmptyParser, Parser
  <2> QED
    BY <2>1, <2>2 DEF StoresInv
<1>3. StorageInv
  <2>1. nvs.space \in BOOLEAN /\ nvs.count \in {0, -1} /\ DOMAIN nvs.key = KeyTypes
    <3>1. CASE nvs = Erased
      BY <3>1 DEF Erased, NoCount
    <3>2. CASE nvs = WriteInt8(Erased, 0)
      <4>1. nvs.space = TRUE /\ nvs.count = 0 /\ nvs.key = Erased.key
        BY <3>2 DEF WriteInt8
      <4>2. DOMAIN Erased.key = KeyTypes
        BY DEF Erased
      <4> QED
        BY <4>1, <4>2
    <3> QED
      BY <3>1, <3>2 DEF Init
  <2>2. usb = [pc |-> "idle", count |-> 0] /\ mode = "boot"
    BY DEF Init
  <2> QED
    BY <2>1, <2>2 DEF StorageInv, NoCount
<1>4. HandlesInv
  BY ProvisioningAssumption DEF Init, HandlesInv
<1>5. BoundsInv
  <2>1. gen = 0 /\ faults = 0 /\ powerCuts = 0 /\ presses = 0
    BY DEF Init
  <2>2. linked = FALSE /\ asserted = {}
    BY DEF Init
  <2>3. /\ 0 \in 0..MaxGenerations /\ 0 \in 0..MaxFaults
        /\ 0 \in 0..MaxPowerCuts /\ 0 \in 0..MaxPresses
    BY ProvisioningAssumption
  <2> QED
    BY <2>1, <2>2, <2>3 DEF BoundsInv
<1> QED
  BY <1>1, <1>2, <1>3, <1>4, <1>5, CountInit, StreamInit, LinkInit DEF TypeInv

\* Every step keeps the types.
LEMMA TypeStep == TypeInv /\ [Next]_vars => TypeInv'
BY CountStep, StreamStep, LinkStep, SendingStep, HeaderStep, StoresStep, StorageStep,
   HandlesStep, BoundsStep DEF TypeInv

\* No more keys are counted than were sent, handles are never more than there is
\* memory for: every variable keeps its type.
THEOREM TypeCorrect == Spec => []TypeOK
<1>1. TypeInv => TypeOK
  <2> SUFFICES ASSUME TypeInv PROVE TypeOK
    OBVIOUS
  <2>1. PICK g \in Nat, s \in Nat : g = gen /\ s = stores /\ g <= MaxGenerations
    BY DEF TypeInv, BoundsInv, StoresInv
  <2>2. PICK h \in Nat, o \in Nat, l \in Nat, k \in Nat :
           h = HeadersRead /\ o = One(rx) /\ l = Left(sending) /\ k = Len(keys)
    <3>1. HeadersRead \in Nat /\ One(rx) \in Nat /\ Left(sending) \in Nat
      BY HeadersRange, OneRange, LeftRange
    <3>2. Len(keys) \in Nat
      BY LenProperties DEF TypeInv, StreamInv
    <3> QED
      BY <3>1, <3>2
  <2>3. 2 * s + h + o + l <= 2 * (3 * g - k)
    BY <2>1, <2>2 DEF TypeInv, StoresInv
  <2>4. s <= 3 * g
    BY <2>3
  <2>5. MaxGenerations \in Nat /\ 3 * g <= 3 * MaxGenerations
    BY <2>1, ProvisioningAssumption
  <2>6. nvs.count \in NoCount..3 * MaxGenerations
    <3>1. PICK c \in Int : c = nvs.count
      BY DEF TypeInv, CountInv
    <3>2. c >= NoCount /\ c <= s
      BY <2>1, <3>1 DEF TypeInv, CountInv, StorageInv
    <3> QED
      BY <2>4, <2>5, <3>1, <3>2 DEF NoCount
  <2>7. usb.count \in 0..3 * MaxGenerations
    BY <2>1, <2>4, <2>5 DEF TypeInv, CountInv, StorageInv, LinkInv
  <2> QED
    BY <2>6, <2>7 DEF TypeInv, StreamInv, LinkInv, StorageInv, HandlesInv, BoundsInv, TypeOK
<1> QED
  BY TypeInit, TypeStep, <1>1, PTL DEF Spec

-----------------------------------------------------------------------------
\* No key is counted twice.

\* Where a key of type t is on its way to the storage.
Waits(t) == \E i \in 1..Len(keys) : keys[i] = t

Starts(s, t) == s # <<>> /\ s[1].part = "type" /\ s[1].key = t

Reading(t) == parser.type = t /\ usb.pc \in {"idle", "store"}

Stored(t) == nvs.key[t] # <<>>

\* In one of these places at most.
AtOnePlace(t) ==
    /\ Waits(t) => ~Starts(sending, t) /\ ~Starts(rx, t) /\ ~Reading(t) /\ ~Stored(t)
    /\ Starts(sending, t) => ~Starts(rx, t) /\ ~Reading(t) /\ ~Stored(t)
    /\ Starts(rx, t) => ~Reading(t) /\ ~Stored(t)
    /\ Reading(t) => ~Stored(t)

\* It goes from one place to the next, or is lost.
Advances(t) ==
    /\ Waits(t)' => Waits(t)
    /\ Starts(sending, t)' => Starts(sending, t) \/ (Waits(t) /\ ~Waits(t)')
    /\ Starts(rx, t)' => Starts(rx, t) \/ (Starts(sending, t) /\ ~Starts(sending, t)')
    /\ Reading(t)' => Reading(t) \/ (Starts(rx, t) /\ ~Starts(rx, t)')
    /\ Stored(t)' => Stored(t) \/ (Reading(t) /\ ~Reading(t)')

\* Generate Keys, used once, sends no type of key twice.  What is complete has data.
OnceInv ==
    /\ usb.pc = "store" => parser.data # <<>>
    /\ gen <= 1 =>
         /\ \A i, j \in 1..Len(keys) : keys[i] = keys[j] => i = j
         /\ gen = 0 => \A t \in KeyTypes : parser.type # t /\ ~Stored(t)
         /\ \A t \in KeyTypes : AtOnePlace(t)

\* The types whose keys are stored.
Weight(t) == IF Stored(t) THEN 1 ELSE 0
Kept == Weight("clientPublic") + Weight("serverPublic") + Weight("serverPrivate")

\* The count is at most that of the types stored, and less as long as a key is
\* stored and not yet counted.
KeptInv ==
    gen <= 1 =>
        /\ nvs.count <= Kept
        /\ usb.pc \in {"read", "write"} => Kept >= 1
        /\ usb.pc = "read" => nvs.count + 1 <= Kept
        /\ usb.pc = "write" => usb.count + 1 <= Kept

\* Whatever advances stays in one place.
LEMMA OnePlaceStep ==
    ASSUME NEW t \in KeyTypes, AtOnePlace(t), Advances(t)
    PROVE  AtOnePlace(t)'
BY Zenon DEF AtOnePlace, Advances

\* The keys without the first.
LEMMA OtherKeys ==
    ASSUME StreamInv, keys # <<>>
    PROVE  /\ Head(keys) = keys[1] /\ Head(keys) \in KeyTypes
           /\ \E k \in Nat \ {0} : /\ k = Len(keys) /\ Len(Tail(keys)) = k - 1
                                   /\ \A i \in 1..k - 1 : Tail(keys)[i] = keys[i + 1]
<1>1. keys \in Seq(KeyTypes)
  BY DEF StreamInv
<1>2. PICK k \in Nat : k = Len(keys)
  BY <1>1, LenProperties
<1>3. k # 0
  BY <1>1, <1>2, EmptySeq
<1>4. /\ Head(keys) = keys[1] /\ Head(keys) \in KeyTypes /\ Len(Tail(keys)) = k - 1
      /\ \A i \in 1..k - 1 : Tail(keys)[i] = keys[i + 1]
  BY <1>1, <1>2, HeadTailProperties
<1> QED
  BY <1>2, <1>3, <1>4

\* A key that waits is sent or given up.
LEMMA WaitingAdvances ==
    ASSUME StreamInv, [Next]_vars, ~GenerateKeys, NEW t \in KeyTypes
    PROVE  Waits(t)' => Waits(t)
<1>1. CASE keys' = keys
  BY <1>1 DEF Waits
<1>2. CASE keys # <<>> /\ keys' = Tail(keys)
  <2>2. PICK k \in Nat \ {0} : k = Len(keys) /\ Len(Tail(keys)) = k - 1
                               /\ \A i \in 1..k - 1 : Tail(keys)[i] = keys[i + 1]
    BY <1>2, OtherKeys
  <2>3. ASSUME NEW i \in 1..k - 1, keys'[i] = t PROVE i + 1 \in 1..k /\ keys[i + 1] = t
    BY <1>2, <2>2, <2>3
  <2> QED
    BY <1>2, <2>2, <2>3 DEF Waits
<1>3. keys' = keys \/ (keys # <<>> /\ keys' = Tail(keys))
  BY Kinds DEF Restarts, Idles, client, OpenPort, OpenPortFails, WritePacket, WriteFails,
               Takes, Reads, ReceiveFails, StoreKey, ReadCount, WriteCount
<1> QED
  BY <1>1, <1>2, <1>3

\* The type of a key is sent first, and once.
LEMMA TailStartsNothing ==
    ASSUME NEW n \in Nat, NEW c \in Seq(Packets(n)), c # <<>>, OneKey(c), NEW t
    PROVE  ~Starts(Tail(c), t) /\ ~Starts(<<>>, t)
<1>1. PICK m \in Nat \ {0} : m = Len(c)
  BY LenProperties, EmptySeq
<1>2. PICK s : s = Tail(c)
  OBVIOUS
<1>3. s \in Seq(Packets(n)) /\ Len(s) = m - 1 /\ \A i \in 1..m - 1 : s[i] = c[i + 1]
  BY <1>1, <1>2, HeadTailProperties
<1>4. CASE s # <<>>
  <2>1. m - 1 # 0
    BY <1>3, <1>4, EmptySeq
  <2>2. 1 \in 1..m - 1 /\ 1 + 1 \in 2..m
    BY <2>1
  <2>3. s[1].part # "type"
    BY <1>1, <1>3, <2>2 DEF OneKey
  <2> QED
    BY <1>2, <2>3 DEF Starts
<1>5. CASE s = <<>>
  BY <1>2, <1>5 DEF Starts
<1> QED
  BY <1>4, <1>5

\* A key's packets start with its type.
LEMMA KeyStarts ==
    ASSUME NEW g \in Nat, g > 0, NEW t \in KeyTypes
    PROVE  KeyPackets(t, g)[1].key = t
<1>1. g \in 1..g
  OBVIOUS
<1> QED
  BY <1>1, KeyFlows

\* What is sent comes from a key that waited.
LEMMA SendingAdvances ==
    ASSUME StreamInv, SendingInv, [Next]_vars, NEW t \in KeyTypes,
           \A i, j \in 1..Len(keys) : keys[i] = keys[j] => i = j
    PROVE  Starts(sending, t)' => Starts(sending, t) \/ (Waits(t) /\ ~Waits(t)')
<1>1. CASE UNCHANGED sending
  BY <1>1 DEF Starts
<1>2. CASE sending # <<>> /\ sending' \in {Tail(sending), <<>>}
  <2>1. ~Starts(Tail(sending), t) /\ ~Starts(<<>>, t)
    BY <1>2, TailStartsNothing DEF StreamInv, SendingInv
  <2> QED
    BY <1>2, <2>1 DEF Starts
<1>3. CASE OpenPort
  <2>1. /\ keys # <<>> /\ keys' = Tail(keys) /\ sending' = KeyPackets(Head(keys), gen)
        /\ gen \in Nat /\ gen > 0
    BY <1>3 DEF OpenPort, StreamInv
  <2>2. PICK k \in Nat \ {0} : k = Len(keys) /\ Len(Tail(keys)) = k - 1
                               /\ \A i \in 1..k - 1 : Tail(keys)[i] = keys[i + 1]
    BY <2>1, OtherKeys
  <2>3. Head(keys) = keys[1] /\ Head(keys) \in KeyTypes
    BY <2>1, OtherKeys
  <2>4. Starts(sending', t) => keys[1] = t
    <3>1. KeyPackets(Head(keys), gen)[1].key = Head(keys)
      BY <2>1, <2>3, KeyStarts
    <3>2. sending'[1].key = keys[1]
      BY <2>1, <2>3, <3>1
    <3> QED
      BY <3>2 DEF Starts
  <2>5. ASSUME keys[1] = t, NEW i \in 1..k - 1, keys'[i] = t PROVE FALSE
    <3>1. i + 1 \in 1..k /\ keys[i + 1] = t /\ 1 \in 1..k /\ i + 1 # 1
      BY <2>1, <2>2, <2>5
    <3> QED
      BY <2>2, <2>5, <3>1
  <2>6. keys[1] = t => Waits(t) /\ ~Waits(t)'
    BY <2>1, <2>2, <2>5 DEF Waits
  <2> QED
    BY <2>4, <2>6 DEF Starts
<1>4. UNCHANGED sending \/ OpenPort \/ (sending # <<>> /\ sending' \in {Tail(sending), <<>>})
  BY Kinds DEF Restarts, Idles, client, GenerateKeys, OpenPortFails, WritePacket, WriteFails,
               Takes, Reads, ReceiveFails, StoreKey, ReadCount, WriteCount
<1> QED
  BY <1>1, <1>2, <1>3, <1>4

\* What arrives was sent, and is not sent again.
LEMMA ArrivingAdvances ==
    ASSUME StreamInv, SendingInv, [Next]_vars, NEW t \in KeyTypes
    PROVE  Starts(rx, t)' => Starts(rx, t) \/ (Starts(sending, t) /\ ~Starts(sending, t)')
<1>1. CASE rx' = rx \/ rx' = <<>>
  BY <1>1 DEF Starts
<1>2. CASE WritePacket
  <2>1. /\ sending # <<>> /\ rx' = <<Head(sending)>> /\ sending' = Tail(sending)
        /\ Head(sending) = sending[1]
    BY <1>2 DEF WritePacket, StreamInv
  <2>2. ~Starts(sending', t)
    BY <2>1, TailStartsNothing DEF StreamInv, SendingInv
  <2>3. rx'[1] = sending[1]
    BY <2>1
  <2>4. Starts(rx', t) => Starts(sending, t)
    BY <2>1, <2>3 DEF Starts
  <2> QED
    BY <2>2, <2>4 DEF Starts
<1>3. rx' = rx \/ rx' = <<>> \/ WritePacket
  BY Kinds DEF Restarts, Reboot, Idles, GenerateKeys, OpenPort, OpenPortFails, WriteFails, ram,
               Takes, Reads, ReceiveFails, StoreKey, ReadCount, WriteCount
<1> QED
  BY <1>1, <1>2, <1>3

\* A type that the parser comes to know has just arrived; a size is no type.
LEMMA TypeRead ==
    ASSUME StreamInv, Reads, NEW t \in KeyTypes, parser'.type = t
    PROVE  parser.type = t \/ Starts(rx, t)
<1>1. CASE parser.type = "undefined"
  <2>1. PICK p \in Packets(gen) : p = rx[1] /\ rx # <<>>
    BY Arrived DEF Reads
  <2>2. One(rx) = 1 /\ ReadHeader
    BY <1>1, HeaderTaken
  <2>3. p.part \in {"type", "size"} /\ p.key \in KeyTypes
        /\ (p.part = "type" => p.value = KeyValue[p.key])
        /\ (p.part = "size" => p.value = KeySize[p.key])
    BY <2>1, <2>2, OneByte, PacketParts DEF One, StreamInv
  <2>4. p.value \in {KeyValue[u] : u \in KeyTypes} /\ t = TypeOfValue(p.value)
    <3>1. parser'.type = IF p.value \in {KeyValue[u] : u \in KeyTypes}
                         THEN TypeOfValue(p.value) ELSE "invalid"
      BY <1>1, <2>1, <2>2 DEF ReadHeader, StreamInv
    <3>2. t # "invalid"
      BY DEF KeyTypes
    <3> QED
      BY <3>1, <3>2
  <2>5. p.part # "size"
    <3>1. \A u \in KeyTypes : KeyValue[u] \in {0, 1, 2} /\ KeySize[u] \notin {0, 1, 2}
      BY KeySizes
    <3>2. p.value \in {0, 1, 2}
      BY <2>4, <3>1
    <3> QED
      BY <2>3, <3>1, <3>2
  <2>6. t = p.key
    BY <2>3, <2>4, <2>5, KeySizes
  <2> QED
    BY <2>1, <2>3, <2>5, <2>6 DEF Starts
<1>2. CASE parser.type # "undefined"
  <2>1. parser' = [parser EXCEPT !.size = parser'.size] \/ parser' = [parser EXCEPT !.data = parser'.data]
    BY <1>2 DEF Reads, ReadHeader, ReadData, StreamInv
  <2>2. parser'.type = parser.type
    BY <2>1 DEF StreamInv
  <2> QED
    BY <2>2
<1> QED
  BY <1>1, <1>2

\* The parser reads the types that arrive, and no other.
LEMMA ReadingAdvances ==
    ASSUME StreamInv, LinkInv, [Next]_vars, NEW t \in KeyTypes
    PROVE  Reading(t)' => Reading(t) \/ (Starts(rx, t) /\ ~Starts(rx, t)')
<1>0. t \notin {"undefined", "invalid"}
  BY DEF KeyTypes
<1>1. CASE UNCHANGED <<parser, usb>>
  BY <1>1 DEF Reading
<1>2. CASE parser' = EmptyParser
  BY <1>0, <1>2 DEF Reading, EmptyParser, Parser
<1>3. CASE StoreKey \/ ReadCount
  <2>1. usb'.pc \in {"read", "write"}
    BY <1>3 DEF StoreKey, ReadCount, LinkInv
  <2> QED
    BY <2>1 DEF Reading
<1>4. CASE Takes
  <2>1. Reads /\ usb.pc = "idle" /\ rx' = <<>>
    BY <1>4 DEF Takes, Reads
  <2> QED
    BY <2>1, TypeRead DEF Reading, Starts
<1>5. UNCHANGED <<parser, usb>> \/ parser' = EmptyParser \/ StoreKey \/ ReadCount \/ Takes
  BY Kinds DEF Restarts, Reboot, Idles, GenerateKeys, OpenPort, OpenPortFails, WritePacket,
               WriteFails, ram, ReceiveFails, WriteCount
<1> QED
  BY <1>1, <1>2, <1>3, <1>4, <1>5

\* What is stored was complete, and is not complete any more.
LEMMA StoringAdvances ==
    ASSUME StreamInv, LinkInv, StorageInv, HeaderInv, [Next]_vars, NEW t \in KeyTypes
    PROVE  Stored(t)' => Stored(t) \/ (Reading(t) /\ ~Reading(t)')
<1>0. t \notin {"undefined", "invalid"}
  BY DEF KeyTypes
<1>1. CASE nvs'.key = nvs.key
  BY <1>1 DEF Stored
<1>2. CASE nvs' = Erased
  BY <1>2 DEF Stored, Erased
<1>3. CASE /\ usb.pc = "store" /\ parser.type # "invalid"
           /\ nvs'.key = [nvs.key EXCEPT ![parser.type] = parser.data]
           /\ StoreKey \/ Restarts
  <2>1. CASE parser.type = t
    <3>1. Reading(t)
      BY <1>3, <2>1 DEF Reading
    <3>2. CASE StoreKey
      <4>1. usb'.pc = "read"
        BY <3>2 DEF StoreKey, LinkInv
      <4> QED
        BY <3>1, <4>1 DEF Reading
    <3>3. CASE Restarts
      BY <1>0, <3>1, <3>3 DEF Restarts, Reboot, Reading, EmptyParser, Parser
    <3> QED
      BY <1>3, <3>2, <3>3
  <2>2. CASE parser.type # t
    BY <1>3, <2>2 DEF Stored, StorageInv
  <2> QED
    BY <2>1, <2>2
<1> QED
  BY <1>1, <1>2, <1>3, KeySteps

\* A type goes from one place to the next, except that Generate Keys starts it.
LEMMA AdvancesStep ==
    ASSUME StreamInv, LinkInv, StorageInv, HeaderInv, SendingInv, [Next]_vars, ~GenerateKeys,
           \A i, j \in 1..Len(keys) : keys[i] = keys[j] => i = j,
           NEW t \in KeyTypes
    PROVE  Advances(t)
<1>1. Waits(t)' => Waits(t)
  BY WaitingAdvances
<1>2. Starts(sending, t)' => Starts(sending, t) \/ (Waits(t) /\ ~Waits(t)')
  BY SendingAdvances
<1>3. Starts(rx, t)' => Starts(rx, t) \/ (Starts(sending, t) /\ ~Starts(sending, t)')
  BY ArrivingAdvances
<1>4. Reading(t)' => Reading(t) \/ (Starts(rx, t) /\ ~Starts(rx, t)')
  BY ReadingAdvances
<1>5. Stored(t)' => Stored(t) \/ (Reading(t) /\ ~Reading(t)')
  BY StoringAdvances
<1> QED
  BY <1>1, <1>2, <1>3, <1>4, <1>5, Zenon DEF Advances

\* Data is complete when some has been read.
LEMMA DataRead ==
    ASSUME StreamInv, LinkInv, [Next]_vars, usb.pc = "store" => parser.data # <<>>
    PROVE  (usb.pc = "store" => parser.data # <<>>)'
<1>1. CASE UNCHANGED <<parser, usb>>
  BY <1>1
<1>2. CASE usb'.pc # "store"
  BY <1>2
<1>3. CASE Takes
  <2>1. PICK d : d = parser.data \o unread \o rx
    OBVIOUS
  <2>2. d # <<>>
    <3>1. Reads /\ rx # <<>> /\ rx \in Seq(Packets(gen))
          /\ unread \in Seq(Packets(gen)) /\ parser.data \in Seq(Packets(gen))
      BY <1>3 DEF Takes, Reads, StreamInv
    <3>2. parser.data \o unread \in Seq(Packets(gen))
      BY <3>1, ConcatProperties
    <3>3. Len(d) = Len(parser.data \o unread) + Len(rx) /\ d \in Seq(Packets(gen))
      BY <2>1, <3>1, <3>2, ConcatProperties
    <3>4. PICK a \in Nat, b \in Nat : a = Len(parser.data \o unread) /\ b = Len(rx)
      BY <3>1, <3>2, LenProperties
    <3>5. b # 0
      BY <3>1, <3>4, EmptySeq
    <3>6. Len(d) # 0
      BY <3>3, <3>4, <3>5
    <3> QED
      BY <3>3, <3>6, EmptySeq
  <2>3. usb.pc = "idle" /\ (ReadHeader \/ ReadData)
    BY <1>3 DEF Takes, Reads
  <2>4. CASE ReadHeader
    BY <2>3, <2>4 DEF ReadHeader
  <2>5. CASE ReadData
    BY <2>1, <2>2, <2>5 DEF ReadData, StreamInv
  <2> QED
    BY <2>3, <2>4, <2>5
<1>4. Restarts \/ StoreKey \/ ReadCount \/ WriteCount => usb'.pc # "store"
  <2>1. Restarts \/ WriteCount => usb'.pc = "idle"
    BY DEF Restarts, Reboot, WriteCount
  <2>2. ReadCount => usb'.pc = "write"
    BY DEF ReadCount
  <2>3. StoreKey => usb'.pc = "read"
    BY DEF StoreKey, LinkInv
  <2> QED
    BY <2>1, <2>2, <2>3
<1>5. \/ UNCHANGED <<parser, usb>> \/ Takes
      \/ Restarts \/ StoreKey \/ ReadCount \/ WriteCount
  BY Kinds DEF Idles, GenerateKeys, OpenPort, OpenPortFails, WritePacket, WriteFails, ram, ReceiveFails
<1> QED
  BY <1>1, <1>2, <1>3, <1>4, <1>5

\* The keys that wait stay different.
LEMMA KeysDiffer ==
    ASSUME StreamInv, [Next]_vars,
           \A i, j \in 1..Len(keys) : keys[i] = keys[j] => i = j
    PROVE  (\A i, j \in 1..Len(keys) : keys[i] = keys[j] => i = j)'
<1>1. CASE keys' = keys
  BY <1>1
<1>2. CASE keys # <<>> /\ keys' = Tail(keys)
  <2>1. PICK k \in Nat \ {0} : k = Len(keys) /\ Len(Tail(keys)) = k - 1
                               /\ \A i \in 1..k - 1 : Tail(keys)[i] = keys[i + 1]
    BY <1>2, OtherKeys
  <2>2. ASSUME NEW i \in 1..k - 1, NEW j \in 1..k - 1, keys'[i] = keys'[j] PROVE i = j
    <3>1. keys[i + 1] = keys[j + 1] /\ i + 1 \in 1..k /\ j + 1 \in 1..k
      BY <1>2, <2>1, <2>2
    <3>2. i + 1 = j + 1
      BY <2>1, <3>1
    <3> QED
      BY <3>2
  <2> QED
    BY <1>2, <2>1, <2>2
<1>3. CASE keys' = SendOrder
  <2>1. PICK k : k = SendOrder
    OBVIOUS
  <2>2. Len(k) = 3 /\ k[1] = "serverPublic" /\ k[2] = "serverPrivate" /\ k[3] = "clientPublic"
    BY <2>1 DEF SendOrder
  <2>3. \A i \in 1..3 : i = 1 \/ i = 2 \/ i = 3
    OBVIOUS
  <2>4. \A i, j \in 1..3 : k[i] = k[j] => i = j
    BY <2>2, <2>3
  <2> QED
    BY <1>3, <2>1, <2>2, <2>4
<1>4. keys' = keys \/ (keys # <<>> /\ keys' = Tail(keys)) \/ keys' = SendOrder
  BY Kinds DEF Restarts, Idles, client, GenerateKeys, OpenPort, OpenPortFails, WritePacket,
               WriteFails, Takes, Reads, ReceiveFails, StoreKey, ReadCount, WriteCount
<1> QED
  BY <1>1, <1>2, <1>3, <1>4

\* Nothing is known of any key before the first use of Generate Keys.
LEMMA NothingYet ==
    ASSUME StreamInv, LinkInv, HeaderInv, gen = 0, [Next]_vars,
           \A t \in KeyTypes : parser.type # t /\ ~Stored(t)
    PROVE  (\A t \in KeyTypes : parser.type # t /\ ~Stored(t))'
<1>1. Packets(gen) = {}
  <2>1. 1..gen = {}
    OBVIOUS
  <2> QED
    BY <2>1 DEF Packets
<1>2. ~Takes
  BY <1>1, Arrived DEF Takes, Reads
<1>3. parser' = parser \/ parser' = EmptyParser
  BY <1>2, Kinds DEF Restarts, Reboot, Idles, GenerateKeys, OpenPort, OpenPortFails, WritePacket,
                     WriteFails, ram, ReceiveFails, StoreKey, ReadCount, WriteCount
<1>4. \A t \in KeyTypes : parser'.type # t
  BY <1>3 DEF EmptyParser, Parser, KeyTypes
<1>5. ~(usb.pc = "store" /\ parser.type # "invalid")
  BY DEF StreamInv, HeaderInv
<1>6. \A t \in KeyTypes : ~Stored(t)'
  <2>1. CASE nvs'.key = nvs.key
    BY <2>1 DEF Stored
  <2>2. CASE nvs' = Erased
    BY <2>2 DEF Stored, Erased
  <2> QED
    BY <1>5, <2>1, <2>2, KeySteps
<1> QED
  BY <1>4, <1>6

\* Before the first use of Generate Keys no key is anywhere.
LEMMA NothingStarts ==
    ASSUME StreamInv, gen = 0
    PROVE  \A t : ~Starts(sending, t) /\ ~Starts(rx, t)
<1>1. Packets(gen) = {}
  <2>1. 1..gen = {}
    OBVIOUS
  <2> QED
    BY <2>1 DEF Packets
<1>2. ASSUME NEW c \in Seq({}) PROVE c = <<>>
  <2>1. c # <<>> => c[1] \in {}
    BY <1>2, HeadTailProperties
  <2> QED
    BY <2>1
<1>3. sending = <<>> /\ rx = <<>>
  BY <1>1, <1>2 DEF StreamInv
<1> QED
  BY <1>3 DEF Starts

\* The first use of Generate Keys puts every key in its first place.
LEMMA FirstKeys ==
    ASSUME StreamInv, LinkInv, HeaderInv, gen = 0, GenerateKeys, [Next]_vars, NEW t \in KeyTypes,
           \A u \in KeyTypes : parser.type # u /\ ~Stored(u)
    PROVE  AtOnePlace(t)'
<1>1. parser'.type # t /\ ~Stored(t)'
  BY NothingYet
<1>2. UNCHANGED <<sending, rx>>
  BY DEF GenerateKeys, ram
<1>3. ~Starts(sending, t)' /\ ~Starts(rx, t)'
  BY <1>2, NothingStarts DEF Starts
<1> QED
  BY <1>1, <1>3 DEF AtOnePlace, Reading

\* No key is sent twice, whatever step is taken.
LEMMA OnceStep ==
    ASSUME TypeInv, OnceInv, [Next]_vars
    PROVE  OnceInv'
<1>0. /\ StreamInv /\ LinkInv /\ StorageInv /\ HeaderInv /\ SendingInv
      /\ gen \in Nat /\ gen' \in {gen, gen + 1}
  BY Counted DEF TypeInv, StreamInv
<1>1. (usb.pc = "store" => parser.data # <<>>)'
  BY <1>0, DataRead DEF OnceInv
<1>2. ASSUME gen' <= 1
      PROVE  /\ (\A i, j \in 1..Len(keys) : keys[i] = keys[j] => i = j)'
             /\ gen' = 0 => (\A t \in KeyTypes : parser.type # t /\ ~Stored(t))'
             /\ \A t \in KeyTypes : AtOnePlace(t)'
  <2>1. gen <= 1 /\ (gen' = 0 => gen = 0)
    BY <1>0, <1>2
  <2>2. (\A i, j \in 1..Len(keys) : keys[i] = keys[j] => i = j)'
    BY <1>0, <2>1, KeysDiffer DEF OnceInv
  <2>3. gen' = 0 => (\A t \in KeyTypes : parser.type # t /\ ~Stored(t))'
    BY <1>0, <2>1, NothingYet DEF OnceInv
  <2>4. ASSUME NEW t \in KeyTypes PROVE AtOnePlace(t)'
    <3>1. CASE GenerateKeys
      <4>1. gen = 0
        BY <1>0, <1>2, <3>1 DEF GenerateKeys
      <4> QED
        BY <1>0, <2>1, <3>1, <4>1, FirstKeys DEF OnceInv
    <3>2. CASE ~GenerateKeys
      BY <1>0, <2>1, <3>2, AdvancesStep, OnePlaceStep DEF OnceInv
    <3> QED
      BY <3>1, <3>2
  <2> QED
    BY <2>2, <2>3, <2>4
<1> QED
  BY <1>1, <1>2 DEF OnceInv

\* The storage and the callback, by what a step does to the count.
LEMMA CountMoves ==
    ASSUME LinkInv, [Next]_vars
    PROVE  \/ nvs' = Erased /\ usb'.pc = "idle"
           \/ /\ nvs'.key = nvs.key /\ nvs'.count \in {nvs.count, 0}
              /\ usb' = usb \/ usb'.pc \in {"idle", "store"}
           \/ /\ usb.pc = "write" /\ usb'.pc = "idle"
              /\ nvs'.key = nvs.key /\ nvs'.count = usb.count + 1
           \/ /\ usb.pc = "read" /\ usb' = [pc |-> "write", count |-> nvs.count] /\ nvs' = nvs
           \/ /\ usb.pc = "store" /\ usb'.pc \in {"idle", "read"} /\ parser.type # "invalid"
              /\ nvs'.key = [nvs.key EXCEPT ![parser.type] = parser.data]
              /\ nvs'.count = nvs.count
<1>1. CASE Restarts
  <2>1. usb'.pc = "idle"
    BY <1>1 DEF Restarts, Reboot
  <2>2. CASE nvs' \in {nvs, Erased, WriteInt8(nvs, 0)}
    BY <2>1, <2>2 DEF WriteInt8
  <2>3. CASE nvs' = WriteInt8(nvs, usb.count + 1) /\ usb.pc = "write"
    BY <2>1, <2>3 DEF WriteInt8
  <2>4. CASE /\ nvs' = WriteBinary(nvs, parser.type, parser.data)
             /\ usb.pc = "store" /\ parser.type # "invalid"
    BY <2>1, <2>4 DEF WriteBinary
  <2>5. \/ nvs' \in {nvs, Erased, WriteInt8(nvs, 0)}
        \/ nvs' = WriteInt8(nvs, usb.count + 1) /\ usb.pc = "write"
        \/ nvs' = WriteBinary(nvs, parser.type, parser.data) /\ usb.pc = "store" /\ parser.type # "invalid"
    BY <1>1, StorageFound
  <2> QED
    BY <2>2, <2>3, <2>4, <2>5
<1>2. CASE Unmoved \/ Poll \/ PressButton
  BY <1>2 DEF Unmoved, Poll, PressButton
<1>3. CASE Takes
  <2>1. usb' \in {usb, [usb EXCEPT !.pc = "store"]} /\ nvs' = nvs
    BY <1>3 DEF Takes, Reads, ReadHeader, ReadData
  <2>2. usb' = usb \/ usb'.pc = "store"
    BY <2>1 DEF LinkInv
  <2> QED
    BY <2>1, <2>2
<1>4. CASE StoreKey
  <2>1. usb'.pc = "read"
    BY <1>4 DEF StoreKey, LinkInv
  <2> QED
    BY <1>4, <2>1 DEF StoreKey, WriteBinary
<1>5. CASE ReadCount
  BY <1>5 DEF ReadCount
<1>6. CASE WriteCount
  BY <1>6 DEF WriteCount, WriteInt8
<1>7. CASE Boots \/ ResetOpens \/ ResetWrites
  BY <1>7 DEF Boots, BootCreates, BootListens, BootServes, ResetOpens, ResetWrites, WriteInt8
<1>8. CASE EraseFlash
  <2>1. usb' = usb /\ nvs' = Erased /\ mode = "boot"
    BY <1>8 DEF EraseFlash, ram
  <2> QED
    BY <2>1 DEF LinkInv
<1> QED
  BY <1>1, <1>2, <1>3, <1>4, <1>5, <1>6, <1>7, <1>8, Moves

\* A key more is stored than before, and no step but erasing takes one away.
LEMMA KeptMore ==
    ASSUME TypeInv, OnceInv, gen <= 1, usb.pc = "store", parser.type # "invalid",
           nvs'.key = [nvs.key EXCEPT ![parser.type] = parser.data]
    PROVE  Kept' = Kept + 1
<1>1. PICK u \in KeyTypes : u = parser.type
  BY DEF TypeInv, StreamInv, HeaderInv
<1>2. ~Stored(u) /\ parser.data # <<>> /\ DOMAIN nvs.key = KeyTypes
  BY <1>1 DEF TypeInv, StorageInv, OnceInv, AtOnePlace, Reading
<1>3. Stored(u)' /\ \A t \in KeyTypes : t # u => Stored(t)' = Stored(t)
  BY <1>1, <1>2 DEF Stored
<1>4. Weight(u) = 0 /\ Weight(u)' = 1 /\ \A t \in KeyTypes : t # u => Weight(t)' = Weight(t)
  BY <1>2, <1>3 DEF Weight
<1>5. \A t \in KeyTypes : Weight(t) \in 0..1
  BY DEF Weight
<1>6. KeyTypes = {"clientPublic", "serverPublic", "serverPrivate"}
  BY DEF KeyTypes
<1>7. PICK a \in Nat, b \in Nat, c \in Nat :
        a = Weight("clientPublic") /\ b = Weight("serverPublic") /\ c = Weight("serverPrivate")
  BY <1>5, <1>6
<1>8. CASE u = "clientPublic"
  <2>1. a = 0 /\ Kept = a + b + c /\ Kept' = 1 + b + c
    BY <1>4, <1>6, <1>7, <1>8 DEF Kept
  <2> QED
    BY <2>1
<1>9. CASE u = "serverPublic"
  <2>1. b = 0 /\ Kept = a + b + c /\ Kept' = a + 1 + c
    BY <1>4, <1>6, <1>7, <1>9 DEF Kept
  <2> QED
    BY <2>1
<1>10. CASE u = "serverPrivate"
  <2>1. c = 0 /\ Kept = a + b + c /\ Kept' = a + b + 1
    BY <1>4, <1>6, <1>7, <1>10 DEF Kept
  <2> QED
    BY <2>1
<1> QED
  BY <1>6, <1>8, <1>9, <1>10

\* There are three types.
LEMMA KeptRange == Kept \in 0..3 /\ (Kept = 3 => \A t \in KeyTypes : Stored(t))
<1>1. KeyTypes = {"clientPublic", "serverPublic", "serverPrivate"}
  BY DEF KeyTypes
<1>2. PICK a \in 0..1, b \in 0..1, c \in 0..1 :
        a = Weight("clientPublic") /\ b = Weight("serverPublic") /\ c = Weight("serverPrivate")
  BY DEF Weight
<1>3. Kept = a + b + c
  BY <1>2 DEF Kept
<1>4. Kept = 3 => a = 1 /\ b = 1 /\ c = 1
  BY <1>3
<1>5. Kept = 3 => Stored("clientPublic") /\ Stored("serverPublic") /\ Stored("serverPrivate")
  BY <1>2, <1>4 DEF Weight
<1> QED
  BY <1>1, <1>3, <1>5

\* No step counts a key that is not among those stored.
LEMMA KeptKeysStep ==
    ASSUME TypeInv, OnceInv, KeptInv, [Next]_vars
    PROVE  KeptInv'
<1> SUFFICES ASSUME gen' <= 1
             PROVE  /\ nvs'.count <= Kept'
                    /\ usb'.pc \in {"read", "write"} => Kept' >= 1
                    /\ usb'.pc = "read" => nvs'.count + 1 <= Kept'
                    /\ usb'.pc = "write" => usb'.count + 1 <= Kept'
  BY DEF KeptInv
<1>1. gen <= 1 /\ LinkInv
  <2>1. gen \in Nat /\ gen' \in {gen, gen + 1}
    BY Counted DEF TypeInv
  <2> QED
    BY <2>1 DEF TypeInv
<1>2. PICK k \in 0..3 : k = Kept
  BY KeptRange
<1>3. PICK n \in Int, m \in Int : n = nvs.count /\ m = usb.count
  BY DEF TypeInv, CountInv
<1>4. /\ n <= k
      /\ usb.pc \in {"read", "write"} => k >= 1
      /\ usb.pc = "read" => n + 1 <= k
      /\ usb.pc = "write" => m + 1 <= k
  BY <1>1, <1>2, <1>3 DEF KeptInv
<1>5. nvs'.key = nvs.key => Kept' = k
  BY <1>2 DEF Kept, Weight, Stored
<1>6. CASE nvs' = Erased /\ usb'.pc = "idle"
  <2>1. nvs'.count = -1
    BY <1>6 DEF Erased, NoCount
  <2>2. Kept' = 0
    BY <1>6 DEF Erased, Kept, Weight, Stored, KeyTypes
  <2> QED
    BY <1>6, <2>1, <2>2
<1>7. CASE /\ nvs'.key = nvs.key /\ nvs'.count \in {nvs.count, 0}
           /\ usb' = usb \/ usb'.pc \in {"idle", "store"}
  <2>1. nvs'.count \in {n, 0} /\ Kept' = k
    BY <1>3, <1>5, <1>7
  <2>2. CASE usb' = usb
    BY <1>3, <1>4, <2>1, <2>2
  <2>3. CASE usb'.pc \in {"idle", "store"}
    BY <1>4, <2>1, <2>3
  <2> QED
    BY <1>7, <2>2, <2>3
<1>8. CASE /\ usb.pc = "write" /\ usb'.pc = "idle"
           /\ nvs'.key = nvs.key /\ nvs'.count = usb.count + 1
  BY <1>3, <1>4, <1>5, <1>8
<1>9. CASE usb.pc = "read" /\ usb' = [pc |-> "write", count |-> nvs.count] /\ nvs' = nvs
  <2>1. usb'.pc = "write" /\ usb'.count = n /\ nvs'.count = n /\ Kept' = k
    BY <1>3, <1>5, <1>9
  <2> QED
    BY <1>4, <1>9, <2>1
<1>10. CASE /\ usb.pc = "store" /\ usb'.pc \in {"idle", "read"} /\ parser.type # "invalid"
            /\ nvs'.key = [nvs.key EXCEPT ![parser.type] = parser.data]
            /\ nvs'.count = nvs.count
  <2>1. Kept' = k + 1
    BY <1>1, <1>2, <1>10, KeptMore
  <2> QED
    BY <1>3, <1>4, <1>10, <2>1
<1> QED
  BY <1>1, <1>6, <1>7, <1>8, <1>9, <1>10, CountMoves

\* Nothing is stored or counted at first.
LEMMA OnceInit == Init => OnceInv /\ KeptInv
<1> SUFFICES ASSUME Init PROVE OnceInv /\ KeptInv
  OBVIOUS
<1>1. /\ nvs.count \in {0, -1} /\ \A t \in KeyTypes : nvs.key[t] = <<>>
  BY DEF Init, Erased, WriteInt8, NoCount
<1>2. /\ usb.pc = "idle" /\ parser = EmptyParser /\ rx = <<>> /\ sending = <<>> /\ keys = <<>>
  BY DEF Init
<1>3. Len(keys) = 0 /\ \A t \in KeyTypes : parser.type # t
  BY <1>2 DEF EmptyParser, Parser, KeyTypes
<1>4. OnceInv
  BY <1>1, <1>2, <1>3 DEF OnceInv, AtOnePlace, Waits, Starts, Reading, Stored
<1>5. KeptInv
  <2>1. Kept \in 0..3
    BY KeptRange
  <2> QED
    BY <1>1, <1>2, <2>1 DEF KeptInv
<1> QED
  BY <1>4, <1>5

\* With the sizes that the program's keys and packets have, the count 3 means
\* three whole keys of different types, whatever restarts, presses of the button
\* and one failure do to one use of Generate Keys (usb_cdc.cpp:93-94,
\* main.cpp:141-148).
THEOREM CountMeansAllKeys == ASSUME ProgramSizes PROVE Spec => []CountMeansKeys
<1> DEFINE Inv == KeysInv /\ TypeInv /\ OnceInv /\ KeptInv
<1>1. Init => Inv
  BY KeysInit, TypeInit, OnceInit
<1>2. Inv /\ [Next]_vars => Inv'
  BY KeysStep, TypeStep, OnceStep, KeptKeysStep
<1>3. Inv => CountMeansKeys
  <2> SUFFICES ASSUME Inv, gen <= 1, faults <= 1, nvs.count = 3, NEW t \in KeyTypes
               PROVE  nvs.key[t] = Data(t, gen)
    BY DEF CountMeansKeys
  <2>1. PICK k \in 0..3 : k = Kept
    BY KeptRange
  <2>2. k = 3
    BY <2>1 DEF KeptInv
  <2>3. nvs.key[t] # <<>>
    BY <2>1, <2>2, KeptRange DEF Stored
  <2>4. faults \in Nat /\ gen \in Nat
    BY DEF TypeInv, StreamInv
  <2>5. KeysKept
    <3>1. faults = 0 \/ faults = 1
      BY <2>4
    <3> QED
      BY <3>1 DEF KeysInv, Followed
  <2>6. PICK g \in 1..gen : nvs.key[t] = Data(t, g)
    BY <2>3, <2>5 DEF KeysKept, Whole
  <2>7. g = gen
    BY <2>4, <2>6
  <2> QED
    BY <2>6, <2>7
<1> QED
  BY <1>1, <1>2, <1>3, PTL DEF Spec
=============================================================================
