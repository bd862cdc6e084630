------------------------------ MODULE Packets -------------------------------
(***************************************************************************)
(* The bytes of the three packets: the demand, the notification that       *)
(* answers it and the authentication packet.  Each has a header of one     *)
(* byte fields that say where a block begins and how long it is.           *)
(*                                                                         *)
(* A packet is a function from positions to bytes.  A byte is what it is   *)
(* for: number k, or byte i of a block that belongs to a demand.  Offsets  *)
(* are computed in eight bits.                                             *)
(***************************************************************************)
EXTENDS Integers

CONSTANTS
    Nonces,             \* contents of random blocks
    None,               \* no nonce
    RandomSizes,        \* sizes generate_random_block draws
    SignatureSizes,     \* sizes wc_ecc_sign_hash returns
    Rssis               \* what ble_gap_conn_rssi measures

\* The sizes fit the limit of the demand's assertion.
ASSUME PacketsAssumption ==
    /\ None \notin Nonces
    /\ RandomSizes # {} /\ RandomSizes \subseteq Nat \ {0}
    /\ SignatureSizes \subseteq Nat \ {0}
    /\ \A r \in RandomSizes, s \in SignatureSizes : 7 + r + 32 + s < 216
    /\ Rssis \subseteq -128..127

VARIABLES
    stage,              \* who has a packet in hand
    packet,             \* the packet on its way
    nonce,              \* what the demand's random block holds
    cached,             \* that block, while the client's replay protector has it
    signed,             \* the signature made last, of a demand or an answer
    macSigned,          \* the signature of the token's address
    hashed,             \* the bytes the notification's hash was made of
    m_RandomDataBlock,  \* CWhereAmI
    m_Rssi,             \* CWhereAmI
    m_SignedMacData,    \* CWhoAmI
    outcome,            \* what became of the packet read last
    rssi                \* the value the client took from it

vars == <<stage, packet, nonce, cached, signed, macSigned, hashed,
          m_RandomDataBlock, m_Rssi, m_SignedMacData, outcome, rssi>>

tokenVars == <<m_RandomDataBlock, m_Rssi>>

macVars == <<macSigned, m_SignedMacData>>

-----------------------------------------------------------------------------
\* Bytes and blocks.

Number(k) == <<"number", None, k>>

Block(what, n, size) == [i \in 0..size - 1 |-> <<what, n, i>>]

Empty == [i \in {} |-> Number(0)]

Zeros(size) == [i \in 0..size - 1 |-> Number(0)]

\* An implicit conversion to uint8_t.
Byte(k) == k % 256

AsInt8(k) == IF k > 127 THEN k - 256 ELSE k

\* The value of a byte.  That of a block's byte says nothing of its place.
Num(p, i) == p[i][3]

Write(p, i, k) == [p EXCEPT ![i] = Number(k)]

\* memcpy of a block to position at.
Copy(p, at, block) ==
    [i \in DOMAIN p |-> IF i - at \in DOMAIN block THEN block[i - at] ELSE p[i]]

\* The assertion of view().
Inside(p, at, size) == at..at + size - 1 \subseteq DOMAIN p

View(p, at, size) == [i \in 0..size - 1 |-> p[at + i]]

-----------------------------------------------------------------------------
\* Hash versions and headers.

Sha2_224 == 0
Sha2_256 == 1
Sha3_224 == 2
Sha3_256 == 3
Sha3_384 == 4
Sha3_512 == 5
ShaCount == 6

size_of_hash_type(version) ==
    CASE version \in {Sha2_224, Sha3_224} -> 28
      [] version \in {Sha2_256, Sha3_256} -> 32
      [] version = Sha3_384 -> 48
      [] version = Sha3_512 -> 64

\* A hash of the type all senders use.
HashBlock(what, n) == Block(what, n, size_of_hash_type(Sha2_256))

Demand == [size |-> 7, randomDataOffset |-> 0, randomDataSize |-> 1, shaVersion |-> 2,
           hashOffset |-> 3, hashSize |-> 4, signatureOffset |-> 5, signatureSize |-> 6]

Notification ==
    [size |-> 9, randomDataOffset |-> 0, randomDataSize |-> 1, rssiOffset |-> 2,
     rssiSize |-> 3, shaVersion |-> 4, hashOffset |-> 5, hashSize |-> 6,
     signatureOffset |-> 7, signatureSize |-> 8]

Authenticate == [size |-> 5, shaVersion |-> 0, hashOffset |-> 1, hashSize |-> 2,
                 signatureOffset |-> 3, signatureSize |-> 4]

\* What a reader does with a hash and a signature: the version must be known, both
\* blocks inside the packet and the hash of its type's size.
Known(p, H) == Num(p, H.shaVersion) < ShaCount

HashInside(p, H) ==
    /\ Inside(p, Num(p, H.hashOffset), Num(p, H.hashSize))
    /\ Num(p, H.hashSize) = size_of_hash_type(Num(p, H.shaVersion))

SignatureInside(p, H) == Inside(p, Num(p, H.signatureOffset), Num(p, H.signatureSize))

ViewHash(p, H) == View(p, Num(p, H.hashOffset), Num(p, H.hashSize))

ViewSignature(p, H) == View(p, Num(p, H.signatureOffset), Num(p, H.signatureSize))

\* wc_ecc_verify_hash: the hash is the one a signature was made of, and that is the
\* signature.
Verifies(p, H, hash, signature) == ViewHash(p, H) = hash /\ ViewSignature(p, H) = signature

-----------------------------------------------------------------------------
\* The client makes a demand.

\* The packet's size, the version and the random block.
InsertRandom(n, r, s) ==
    LET p0 == Zeros(Demand.size + r + size_of_hash_type(Sha2_256) + s)
        p1 == Write(p0, Demand.shaVersion, Sha2_256)
        p2 == Write(p1, Demand.randomDataOffset, Demand.size)
        p3 == Write(p2, Demand.randomDataSize, r)
    IN Copy(p3, Demand.size, Block("random", n, r))

\* Mutant of InsertHash: the hash begins where the random block does.
InsertHashOver(p, n) ==
    LET at == Byte(Demand.size)
        p1 == Write(p, Demand.hashOffset, at)
        p2 == Write(p1, Demand.hashSize, size_of_hash_type(Sha2_256))
    IN Copy(p2, at, HashBlock("hash", n))

InsertHash(p, n) ==
    LET at == Byte(Demand.size + Num(p, Demand.randomDataSize))
        p1 == Write(p, Demand.hashOffset, at)
        p2 == Write(p1, Demand.hashSize, size_of_hash_type(Sha2_256))
    IN Copy(p2, at, HashBlock("hash", n))

InsertSignature(p, n, s) ==
    LET at == Byte(Demand.size + Num(p, Demand.randomDataSize) + Num(p, Demand.hashSize))
        p1 == Write(p, Demand.signatureOffset, at)
        p2 == Write(p1, Demand.signatureSize, s)
    IN Copy(p2, at, Block("signature", n, s))

DemandPacket(n, r, s) == InsertSignature(InsertHash(InsertRandom(n, r, s), n), n, s)

\* Sizes that fit a byte (assert_down_cast) and a packet.
DemandAsserted(r, s) == 7 + r + size_of_hash_type(Sha2_256) + s < 216 /\ r < 256 /\ s < 256

\* What is kept of one demand only.
Forget ==
    /\ packet' = Empty
    /\ nonce' = None
    /\ cached' = Empty
    /\ signed' = Empty
    /\ hashed' = Empty

\* What becomes of a packet that was read or could not be sent.
Done(result) ==
    /\ stage' = "idle"
    /\ Forget
    /\ outcome' = result

\* A failed assertion.
Stop ==
    /\ stage' = "stopped"
    /\ Forget
    /\ outcome' = "none"

MakeDemand(n, r, s) ==
    /\ stage = "idle"
    /\ IF DemandAsserted(r, s)
       THEN /\ packet' = DemandPacket(n, r, s)
            /\ nonce' = n
            /\ cached' = Block("random", n, r)
            /\ signed' = Block("signature", n, s)
            /\ stage' = "demand"
            /\ outcome' = "none"
            /\ UNCHANGED hashed
       ELSE Stop
    /\ UNCHANGED <<tokenVars, macVars, rssi>>

\* The answer is late: the block is purged.
Expire ==
    /\ stage \in {"demand", "notify", "answer"}
    /\ cached' = Empty
    /\ UNCHANGED <<stage, packet, nonce, signed, hashed, tokenVars, macVars, outcome, rssi>>

-----------------------------------------------------------------------------
\* The token reads a demand.

DemandedRandom == View(packet, Num(packet, Demand.randomDataOffset),
                       Num(packet, Demand.randomDataSize))

RandomInside(p, H) == Inside(p, Num(p, H.randomDataOffset), Num(p, H.randomDataSize))

\* The demand's hash is taken from the packet, not made of its random block.  The
\* RSSI may not be there.
ReadDemand ==
    /\ stage = "demand"
    /\ IF packet = Empty \/ ~Known(packet, Demand)
       THEN Done("refused") /\ UNCHANGED tokenVars
       ELSE IF \/ ~HashInside(packet, Demand) \/ ~SignatureInside(packet, Demand)
               \/ ~RandomInside(packet, Demand)
       THEN Stop /\ UNCHANGED tokenVars
       ELSE IF ~Verifies(packet, Demand, HashBlock("hash", nonce), signed)
       THEN Done("refused") /\ UNCHANGED tokenVars
       ELSE \/ Done("failed") /\ UNCHANGED tokenVars
            \/ /\ m_Rssi' \in Rssis
               /\ m_RandomDataBlock' = DemandedRandom
               /\ stage' = "notify"
               /\ packet' = Empty
               /\ UNCHANGED <<nonce, cached, signed, hashed, outcome>>
    /\ UNCHANGED <<macVars, rssi>>

-----------------------------------------------------------------------------
\* The token makes the notification in a buffer of 256 bytes.

SizeOf(block) == CHOOSE n \in 0..255 : DOMAIN block = 0..n - 1

write_random_data_block ==
    LET p0 == Zeros(256)
        p1 == Write(p0, Notification.randomDataOffset, Notification.size)
        p2 == Write(p1, Notification.randomDataSize, SizeOf(m_RandomDataBlock))
    IN Copy(p2, Notification.size, m_RandomDataBlock)

write_rssi_value(p) ==
    LET at == Byte(Num(p, Notification.randomDataOffset) + Num(p, Notification.randomDataSize))
        p1 == Write(p, Notification.rssiOffset, at)
        p2 == Write(p1, Notification.rssiSize, 1)
    IN Write(p2, at, Byte(m_Rssi))

\* Mutant of HashedBytes: the RSSI is left out.
HashedBytesRandom(p) ==
    View(p, Num(p, Notification.randomDataOffset), Num(p, Notification.randomDataSize))

\* make_hash: the random block and the RSSI that follows it.
HashedBytes(p) ==
    View(p, Num(p, Notification.randomDataOffset),
         Byte(Num(p, Notification.randomDataSize) + Num(p, Notification.rssiSize)))

write_hash(p) ==
    LET p1 == Write(p, Notification.shaVersion, Sha2_256)
        at == Byte(Num(p1, Notification.rssiOffset) + Num(p1, Notification.rssiSize))
        p2 == Write(p1, Notification.hashOffset, at)
        p3 == Write(p2, Notification.hashSize, size_of_hash_type(Sha2_256))
    IN Copy(p3, at, HashBlock("answer", nonce))

write_signature(p, s) ==
    LET at == Byte(Num(p, Notification.hashOffset) + Num(p, Notification.hashSize))
        p1 == Write(p, Notification.signatureOffset, at)
        p2 == Write(p1, Notification.signatureSize, Byte(s))
    IN Copy(p2, at, Block("signature", nonce, s))

\* Mutant of packet_size_rssi_notification: the RSSI is not counted.
packet_size_without_rssi(p) ==
    Num(p, Notification.hashSize) + Num(p, Notification.randomDataSize)
        + Num(p, Notification.signatureSize) + Notification.size

packet_size_rssi_notification(p) ==
    (Num(p, Notification.hashSize) + Num(p, Notification.randomDataSize))
        + (Num(p, Notification.rssiSize) + Num(p, Notification.signatureSize))
        + Notification.size

Resized(p, size) == [i \in 0..size - 1 |-> p[i]]

\* The host's buffers may be full.
MakeNotification(s) ==
    /\ stage = "notify"
    /\ LET p1 == write_rssi_value(write_random_data_block)
           p2 == write_signature(write_hash(p1), s)
       IN IF ~SignatureInside(p2, Notification)
          THEN Stop
          ELSE \/ Done("failed")
               \/ /\ hashed' = HashedBytes(p1)
                  /\ signed' = Block("signature", nonce, s)
                  /\ packet' = Resized(p2, packet_size_rssi_notification(p2))
                  /\ stage' = "answer"
                  /\ UNCHANGED <<nonce, cached, outcome>>
    /\ UNCHANGED <<tokenVars, macVars, rssi>>

-----------------------------------------------------------------------------
\* The client reads the notification.

AnsweredRandom == View(packet, Num(packet, Notification.randomDataOffset),
                       Num(packet, Notification.randomDataSize))

ReadNotification ==
    /\ stage = "answer"
    /\ IF ~Known(packet, Notification)
       THEN Done("refused") /\ UNCHANGED rssi
       ELSE IF ~RandomInside(packet, Notification)
       THEN Stop /\ UNCHANGED rssi
       ELSE IF cached = Empty
       THEN Done("late") /\ UNCHANGED rssi
       ELSE IF AnsweredRandom # cached
       THEN Done("refused") /\ UNCHANGED rssi
       ELSE IF ~HashInside(packet, Notification) \/ ~SignatureInside(packet, Notification)
       THEN Stop /\ UNCHANGED rssi
       ELSE IF ~Verifies(packet, Notification, HashBlock("answer", nonce), signed)
       THEN Done("refused") /\ UNCHANGED rssi
       ELSE IF Num(packet, Notification.rssiSize) # 1
       THEN Stop /\ UNCHANGED rssi
       ELSE /\ Done("shown")
            /\ rssi' = AsInt8(Num(packet, Num(packet, Notification.rssiOffset)))
    /\ UNCHANGED <<tokenVars, macVars>>

-----------------------------------------------------------------------------
\* The authentication packet.

fill_header(p, s) ==
    LET h  == size_of_hash_type(Sha2_256)
        p1 == Write(p, Authenticate.shaVersion, Sha2_256)
        p2 == Write(p1, Authenticate.hashOffset, Authenticate.size)
        p3 == Write(p2, Authenticate.hashSize, h)
        p4 == Write(p3, Authenticate.signatureOffset, Authenticate.size + h)
    IN Write(p4, Authenticate.signatureSize, s)

copy_hash_and_signature(p, s) ==
    LET p1 == Copy(p, Authenticate.size, HashBlock("mac", None))
    IN Copy(p1, Authenticate.size + size_of_hash_type(Sha2_256), Block("signature", None, s))

AuthenticatePacket(s) ==
    copy_hash_and_signature(
        fill_header(Zeros(Authenticate.size + size_of_hash_type(Sha2_256) + s), s), s)

\* The address is signed at the first read only.  The host's buffers may be full.
ReadAuthenticate(s) ==
    /\ stage = "idle"
    /\ IF m_SignedMacData = Empty
       THEN /\ m_SignedMacData' = AuthenticatePacket(s)
            /\ macSigned' = Block("signature", None, s)
       ELSE UNCHANGED macVars
    /\ \/ Done("failed")
       \/ /\ packet' = m_SignedMacData'
          /\ stage' = "authenticate"
          /\ outcome' = "none"
          /\ UNCHANGED <<nonce, cached, signed, hashed>>
    /\ UNCHANGED <<tokenVars, rssi>>

PacketSize(p) == CHOOSE n \in 0..255 : DOMAIN p = 0..n - 1

SizeExpected(p) ==
    Authenticate.size + size_of_hash_type(Num(p, Authenticate.shaVersion))
        + Num(p, Authenticate.signatureSize)

\* The client looks the size of the hash up before it checks that it knows the
\* version; with one it does not know it is undefined what follows.
VerifyAddress ==
    /\ stage = "authenticate"
    /\ IF ~Known(packet, Authenticate)
       THEN Stop
       ELSE IF PacketSize(packet) # SizeExpected(packet)
       THEN Done("refused")
       ELSE IF ~HashInside(packet, Authenticate) \/ ~SignatureInside(packet, Authenticate)
       THEN Stop
       ELSE IF ~Verifies(packet, Authenticate, HashBlock("mac", None), macSigned)
       THEN Done("refused")
       ELSE Done("verified")
    /\ UNCHANGED <<tokenVars, macVars, rssi>>

-----------------------------------------------------------------------------
Init ==
    /\ stage = "idle"
    /\ packet = Empty
    /\ nonce = None
    /\ cached = Empty
    /\ signed = Empty
    /\ macSigned = Empty
    /\ hashed = Empty
    /\ m_RandomDataBlock = Empty
    /\ m_Rssi = 0
    /\ m_SignedMacData = Empty
    /\ outcome = "none"
    /\ rssi = 0

Next ==
    \/ \E n \in Nonces, r \in RandomSizes, s \in SignatureSizes : MakeDemand(n, r, s)
    \/ Expire \/ ReadDemand
    \/ \E s \in SignatureSizes : MakeNotification(s) \/ ReadAuthenticate(s)
    \/ ReadNotification \/ VerifyAddress

Spec == Init /\ [][Next]_vars

-----------------------------------------------------------------------------
\* Properties.

\* No assertion about sizes and offsets fails, whatever sizes the random block and
\* the signatures have (CRssiDemander.cpp:36, 70, 309, CWhereAmI.cpp:97,
\* CHash.hpp:67, CWhoAmI.cpp:21-51).
NoAssertionFails == stage # "stopped"

\* What one side makes the other understands: nothing is refused, and the client
\* shows the RSSI that the token measured (CRssiDemander.cpp:76-169,
\* CWhereAmI.cpp:242-263, CServer.cpp:389-415).
PacketsUnderstood ==
    /\ outcome # "refused"
    /\ outcome = "shown" => rssi = m_Rssi

\* The bytes the notification's hash was made of are the random block and the RSSI
\* the client reads in it (CWhereAmI.cpp:125-135, 397-412).
HashCovers ==
    stage = "answer" =>
        LET r == Num(packet, Notification.randomDataSize)
        IN /\ hashed = View(packet, Num(packet, Notification.randomDataOffset), r + 1)
           /\ hashed[r] = packet[Num(packet, Notification.rssiOffset)]
=============================================================================
