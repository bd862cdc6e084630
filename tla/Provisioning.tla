----------------------------- MODULE Provisioning -----------------------------
(***************************************************************************)
(* How the token gets its keys: Generate Keys in the client sends three of *)
(* them over USB, the token parses, stores and counts them, and every boot *)
(* of the token decides by the count whether it waits for keys or serves.  *)
(* The reset button writes the count 0 and restarts the token.             *)
(*                                                                         *)
(* Non volatile storage survives a restart, everything else does not.  An  *)
(* assertion that fails stops the token, which then reboots (the sdkconfig *)
(* leaves assertions on and has a panic reboot).  Storage itself fails too: *)
(* an opening, a read, a write that may have been made all the same, a     *)
(* flash that has to be erased.  A key is the sequence of USB packets it   *)
(* was sent in; only sizes matter to the parser.                           *)
(***************************************************************************)
EXTENDS Integers, Sequences, SequencesExt

CONSTANTS
    KeySize,            \* KeySize[t]: bytes of a key of type t
    PacketSize,         \* bytes of a USB packet
    MaxHandles,         \* handles that non volatile storage has memory for
    MaxGenerations,     \* uses of Generate Keys (bound)
    MaxFaults,          \* calls of the port and of the storage that fail (bound)
    MaxPowerCuts,       \* times the token is unplugged (bound)
    MaxPresses,         \* times the reset button is pressed (bound)
    MaxEvents           \* all of these together (bound)

KeyTypes == {"clientPublic", "serverPublic", "serverPrivate"}

ASSUME ProvisioningAssumption ==
    /\ KeySize \in [KeyTypes -> 4..255]
    /\ PacketSize \in Nat \ {0, 1}
    /\ \A t \in KeyTypes : KeySize[t] <= 2 * PacketSize /\ KeySize[t] # PacketSize + 1
    /\ MaxHandles \in Nat /\ MaxHandles > 2
    /\ MaxGenerations \in Nat /\ MaxFaults \in Nat
    /\ MaxPowerCuts \in Nat /\ MaxPresses \in Nat /\ MaxEvents \in Nat

VARIABLES
    nvs,        \* the namespace ENC_STORAGE: is there one, its count, its keys
    mode,       \* where app_main is
    handles,    \* handles open
    parser,     \* the static variables of the receive callback
    rx,         \* the packet that has arrived
    unread,     \* packets a failed read has left behind
    usb,        \* where the callback is once a key is complete
    reset,      \* where the task of the reset button is
    gen,        \* uses of Generate Keys so far
    keys,       \* types of keys yet to be sent
    sending,    \* packets of the present key yet to be sent
    linked,     \* the port the client has open is of the present boot
    faults, powerCuts, presses,     \* events so far, for the bounds
    stores,     \* history: keys stored with success since a boot that found none
    asserted    \* history: the assertion that failed last

ram == <<mode, handles, parser, rx, unread, usb, reset, linked>>
client == <<gen, keys, sending>>
bounds == <<faults, powerCuts, presses>>
history == <<stores, asserted>>
vars == <<nvs, ram, client, bounds, history>>

NoCount == -1       \* the namespace has no entry for the count

KeyValue == [clientPublic |-> 0, serverPublic |-> 1, serverPrivate |-> 2]
TypeOfValue(v) == CHOOSE t \in KeyTypes : KeyValue[t] = v

Events == gen + faults + powerCuts + presses

\* Packets.  value is what a packet of one byte says.
Packet(part, t, g, size, value) ==
    [part |-> part, key |-> t, gen |-> g, size |-> size, value |-> value]

Data(t, g) ==
    IF KeySize[t] <= PacketSize
    THEN <<Packet("data", t, g, KeySize[t], 0)>>
    ELSE <<Packet("data", t, g, PacketSize, 0), Packet("rest", t, g, KeySize[t] - PacketSize, 0)>>

\* What send_key writes: type, size and data.
KeyPackets(t, g) ==
    <<Packet("type", t, g, 1, KeyValue[t]), Packet("size", t, g, 1, KeySize[t])>> \o Data(t, g)

Bytes(s) == FoldLeft(LAMBDA n, p : n + p.size, 0, s)

Parser(type, size, data) == [type |-> type, size |-> size, data |-> data]
EmptyParser == Parser("undefined", 0, <<>>)

\* What write_binary and write_int8 make of the storage, which a writer's
\* opening gives its namespace.
WriteBinary(s, t, data) == [space |-> TRUE, count |-> s.count, key |-> [s.key EXCEPT ![t] = data]]
WriteInt8(s, n) == [space |-> TRUE, count |-> n, key |-> s.key]

Erased == [space |-> FALSE, count |-> NoCount, key |-> [t \in KeyTypes |-> <<>>]]

TypeOK ==
    /\ nvs.space \in BOOLEAN
    /\ nvs.count \in NoCount..3 * MaxGenerations
    /\ DOMAIN nvs.key = KeyTypes
    /\ mode \in {"boot", "listen", "ble"}
    /\ handles \in 0..MaxHandles
    /\ parser.type \in KeyTypes \cup {"undefined", "invalid"}
    /\ Len(rx) <= 1
    /\ usb.pc \in {"idle", "store", "read", "write"}
    /\ usb.count \in 0..3 * MaxGenerations
    /\ reset \in {"idle", "pressed", "opened", "zeroed"}
    /\ gen \in 0..MaxGenerations
    /\ linked \in BOOLEAN
    /\ faults \in 0..MaxFaults
    /\ powerCuts \in 0..MaxPowerCuts
    /\ presses \in 0..MaxPresses
    /\ asserted \subseteq {"header", "overflow", "count", "memory", "storage"}

\* A token as it leaves the factory, or one whose keys have been reset.
Init ==
    /\ nvs \in {Erased, WriteInt8(Erased, 0)}
    /\ mode = "boot"
    /\ handles = 0
    /\ parser = EmptyParser
    /\ rx = <<>>
    /\ unread = <<>>
    /\ usb = [pc |-> "idle", count |-> 0]
    /\ reset = "idle"
    /\ gen = 0
    /\ keys = <<>>
    /\ sending = <<>>
    /\ linked = FALSE
    /\ faults = 0 /\ powerCuts = 0 /\ presses = 0
    /\ stores = 0
    /\ asserted = {}

-----------------------------------------------------------------------------
\* Restarts and handles.

Reboot ==
    /\ mode' = "boot"
    /\ handles' = 0
    /\ parser' = EmptyParser
    /\ rx' = <<>>
    /\ unread' = <<>>
    /\ usb' = [pc |-> "idle", count |-> 0]
    /\ reset' = "idle"
    /\ linked' = FALSE

\* ASSERT(..., assertion) fails.
Stop(assertion) ==
    /\ Reboot
    /\ asserted' = {assertion}
    /\ UNCHANGED client

Trap(assertion) == Stop(assertion) /\ UNCHANGED <<nvs, bounds, stores>>

MayFail == faults < MaxFaults /\ Events < MaxEvents

Fault == MayFail /\ faults' = faults + 1 /\ UNCHANGED <<powerCuts, presses>>

\* Mutant of OpenHandle: there is no assertion on memory.
OpenHandleUnchecked == handles' = handles + 1

\* The constructor of CHandle.  Its destructor returns before nvs_close.
OpenHandle ==
    /\ handles < MaxHandles
    /\ handles' = handles + 1

NoMemory == handles = MaxHandles

\* A reader does not create the namespace.
MakeReader == nvs.space /\ OpenHandle

MakeWriter == OpenHandle

\* What log_write_error or a failed commit leaves of a write, by error code.
WriteErrors == {"noSpaceForNewEntry", "failedWriteOperation"}
Written(error, s) == IF error = "failedWriteOperation" THEN s ELSE nvs

-----------------------------------------------------------------------------
\* The client.

\* Mutant of SendOrder: one key of the server twice, the client's not at all.
SendOrderRepeats == <<"serverPublic", "serverPrivate", "serverPublic">>

SendOrder == <<"serverPublic", "serverPrivate", "clientPublic">>

GenerateKeys ==
    /\ keys = <<>> /\ sending = <<>>
    /\ gen < MaxGenerations /\ Events < MaxEvents
    /\ gen' = gen + 1
    /\ keys' = SendOrder
    /\ UNCHANGED <<nvs, ram, sending, bounds, history>>

\* com_port finds the token by its hardware ID, which it has while it listens.
AccessTokenIsConnected == mode = "listen"

\* send_key opens the port: CSerialCommunication::make.
OpenPort ==
    /\ sending = <<>> /\ keys # <<>>
    /\ AccessTokenIsConnected
    /\ sending' = KeyPackets(Head(keys), gen)
    /\ keys' = Tail(keys)
    /\ linked' = TRUE
    /\ UNCHANGED <<nvs, mode, handles, parser, rx, unread, usb, reset, gen, bounds, history>>

\* There is no port, or it refuses to be opened, its settings or its timeouts:
\* an ErrorSerialCom.  The key is not sent, which is logged, and the next is tried.
OpenPortFails ==
    /\ sending = <<>> /\ keys # <<>>
    /\ \/ ~AccessTokenIsConnected /\ UNCHANGED faults
       \/ MayFail /\ faults' = faults + 1
    /\ keys' = Tail(keys)
    /\ UNCHANGED <<nvs, ram, gen, sending, powerCuts, presses, history>>

\* One packet of a WriteFile gets through; the next waits until it was read.
WritePacket ==
    /\ sending # <<>>
    /\ linked
    /\ rx = <<>>
    /\ rx' = <<Head(sending)>>
    /\ sending' = Tail(sending)
    /\ UNCHANGED <<nvs, mode, handles, parser, unread, usb, reset, linked, gen, keys,
                   bounds, history>>

\* The WriteFile times out, or its port is gone: the rest of it is not sent.
\* The next WriteFile is made all the same.
WriteFails ==
    /\ sending # <<>>
    /\ \/ ~linked /\ UNCHANGED faults
       \/ MayFail /\ faults' = faults + 1
    /\ sending' = IF Head(sending).part \in {"type", "size"} THEN Tail(sending) ELSE <<>>
    /\ UNCHANGED <<nvs, ram, gen, keys, powerCuts, presses, history>>

-----------------------------------------------------------------------------
\* The receive callback.

\* Mutant of Complete: at least as much as expected.
CompleteOrMore(size, data) == Bytes(data) >= size

Complete(size, data) == Bytes(data) = size

\* The key type and then its size.
ReadHeader ==
    LET p == rx[1] IN
    /\ parser' = IF parser.type = "undefined"
                 THEN [parser EXCEPT !.type = IF p.value \in {KeyValue[t] : t \in KeyTypes}
                                              THEN TypeOfValue(p.value) ELSE "invalid"]
                 ELSE [parser EXCEPT !.size = p.value]
    /\ UNCHANGED usb

ReadData ==
    LET data == parser.data \o unread \o rx IN
    /\ parser' = [parser EXCEPT !.data = data]
    /\ usb' = IF Complete(parser.size, data) THEN [usb EXCEPT !.pc = "store"] ELSE usb

\* tinyusb_cdc_rx_callback up to the complete key.
Receive ==
    /\ mode = "listen" /\ usb.pc = "idle" /\ rx # <<>>
    /\ LET header == parser.type = "undefined" \/ parser.size = 0
           n == Bytes(unread \o rx)
       IN
       \/ header /\ n # 1 /\ Trap("header")
       \/ ~header /\ n > parser.size /\ Trap("overflow")
       \/ /\ IF header THEN n = 1 /\ ReadHeader ELSE n <= parser.size /\ ReadData
          /\ rx' = <<>>
          /\ unread' = <<>>
          /\ UNCHANGED <<nvs, mode, handles, reset, linked, client, bounds, history>>

\* tinyusb_cdcacm_read fails; the packet is read with the next one.
ReceiveFails ==
    /\ mode = "listen" /\ usb.pc = "idle" /\ rx # <<>>
    /\ MayFail
    /\ faults' = faults + 1
    /\ unread' = unread \o rx
    /\ rx' = <<>>
    /\ UNCHANGED <<nvs, mode, handles, parser, usb, reset, linked, client, powerCuts, presses,
                   history>>

\* Mutant of StoreKey: the result of the write is not looked at.
StoreKeyUnchecked ==
    /\ usb.pc = "store"
    /\ MakeWriter
    /\ usb' = [usb EXCEPT !.pc = "read"]
    /\ \/ /\ nvs' = WriteBinary(nvs, parser.type, parser.data)
          /\ stores' = stores + 1
       \/ UNCHANGED <<nvs, stores>>
    /\ UNCHANGED <<mode, parser, rx, unread, reset, linked, client, bounds, asserted>>

\* store_key_in_nvs; nvs_key has no name for an invalid type.
StoreKey ==
    /\ usb.pc = "store"
    /\ parser.type # "invalid"
    /\ MakeWriter
    /\ usb' = [usb EXCEPT !.pc = "read"]
    /\ nvs' = WriteBinary(nvs, parser.type, parser.data)
    /\ stores' = stores + 1
    /\ UNCHANGED <<mode, parser, rx, unread, reset, linked, client, bounds, asserted>>

\* ASSERT(writer->write_binary(...) == success): the key may be there.
StoreKeyFails ==
    /\ usb.pc = "store"
    /\ parser.type # "invalid"
    /\ Fault
    /\ Stop("storage")
    /\ \E error \in WriteErrors :
          nvs' = Written(error, WriteBinary(nvs, parser.type, parser.data))
    /\ UNCHANGED stores

\* LOG_FATAL in a callback of the USB task: nothing catches the exception.
StoreKeyThrows ==
    /\ usb.pc = "store"
    /\ parser.type = "invalid"
    /\ ~NoMemory
    /\ Reboot
    /\ UNCHANGED <<nvs, client, bounds, history>>

\* get_stored_key_count, in update_stored_key_count.
ReadCount ==
    /\ usb.pc = "read"
    /\ MakeReader
    /\ usb' = [pc |-> "write", count |-> nvs.count]
    /\ UNCHANGED <<nvs, mode, parser, rx, unread, reset, linked, client, bounds, history>>

\* Mutant of WriteCount: the parser is not reset.
WriteCountKeepsParser ==
    /\ usb.pc = "write"
    /\ MakeWriter
    /\ nvs' = WriteInt8(nvs, usb.count + 1)
    /\ usb' = [pc |-> "idle", count |-> 0]
    /\ UNCHANGED <<mode, parser, rx, unread, reset, linked, client, bounds, history>>

\* The rest of update_stored_key_count, and of the callback.
WriteCount ==
    /\ usb.pc = "write"
    /\ MakeWriter
    /\ nvs' = WriteInt8(nvs, usb.count + 1)
    /\ usb' = [pc |-> "idle", count |-> 0]
    /\ parser' = EmptyParser
    /\ UNCHANGED <<mode, rx, unread, reset, linked, client, bounds, history>>

\* ASSERT(writer->write_int8(...) == success), as above.
WriteCountFails ==
    /\ usb.pc = "write"
    /\ Fault
    /\ Stop("storage")
    /\ \E error \in WriteErrors : nvs' = Written(error, WriteInt8(nvs, usb.count + 1))
    /\ UNCHANGED stores

UsbStep == StoreKey \/ StoreKeyThrows \/ ReadCount \/ WriteCount

-----------------------------------------------------------------------------
\* app_main.

\* The constructor of CNonVolatileStorage, the first step of a boot, finds no
\* free page: all that was stored is erased and nvs_flash_init called again.
EraseFlash ==
    /\ mode = "boot" /\ reset = "idle"
    /\ Fault
    /\ nvs' = Erased
    /\ UNCHANGED <<ram, client, history>>

\* Erasing fails, or nvs_flash_init for another reason: LOG_FATAL.
FlashFails ==
    /\ mode = "boot" /\ reset = "idle"
    /\ Fault
    /\ Reboot
    /\ nvs' \in {nvs, Erased}
    /\ UNCHANGED <<client, history>>

\* namespaceNotFound: no reader, LOG_FATAL and the restart in app_main.
BootWithoutNamespace ==
    /\ mode = "boot"
    /\ ~nvs.space
    /\ Reboot
    /\ UNCHANGED <<nvs, client, bounds, history>>

\* create_nvs_encryption_namespace: the namespace is there, the count is not.
BootCreates ==
    /\ mode = "boot"
    /\ nvs.space /\ nvs.count = NoCount
    /\ handles' = handles + 2
    /\ nvs' = WriteInt8(nvs, 0)
    /\ mode' = "listen"
    /\ stores' = 0
    /\ UNCHANGED <<parser, rx, unread, usb, reset, linked, client, bounds, asserted>>

BootCreatesFails ==
    /\ mode = "boot"
    /\ nvs.space /\ nvs.count = NoCount
    /\ Fault
    /\ Stop("storage")
    /\ \E error \in WriteErrors : nvs' = Written(error, WriteInt8(nvs, 0))
    /\ UNCHANGED stores

\* No keys: listen_for_serial_communication.
BootListens ==
    /\ mode = "boot"
    /\ nvs.count = 0
    /\ MakeReader
    /\ mode' = "listen"
    /\ stores' = 0
    /\ UNCHANGED <<nvs, parser, rx, unread, usb, reset, linked, client, bounds, asserted>>

\* Whole keys of the right type, as the constructors of the profiles load them.
Loadable(t) == \E g \in 1..gen : nvs.key[t] = Data(t, g)

BootServes ==
    /\ mode = "boot"
    /\ nvs.count = 3
    /\ Loadable("serverPrivate") /\ Loadable("clientPublic")
    /\ MakeReader
    /\ mode' = "ble"
    /\ UNCHANGED <<nvs, parser, rx, unread, usb, reset, linked, client, bounds, history>>

\* load_key fails, or decoding what it loaded.
BootWithoutKeys ==
    /\ mode = "boot"
    /\ nvs.space /\ nvs.count = 3
    /\ ~(Loadable("serverPrivate") /\ Loadable("clientPublic"))
    /\ Reboot
    /\ UNCHANGED <<nvs, client, bounds, history>>

\* "Expected stored key count to be 0 if its not 3."
BootAsserts ==
    /\ mode = "boot"
    /\ nvs.space /\ nvs.count \notin {NoCount, 0, 3}
    /\ Trap("count")

\* Every second in listen_for_serial_communication.
Poll ==
    /\ mode = "listen"
    /\ nvs.count < 3
    /\ MakeReader
    /\ UNCHANGED <<nvs, mode, parser, rx, unread, usb, reset, linked, client, bounds, history>>

PollRestarts ==
    /\ mode = "listen"
    /\ nvs.count >= 3
    /\ ~NoMemory
    /\ Reboot
    /\ UNCHANGED <<nvs, client, bounds, history>>

\* Whichever task opens a handle when there is no memory for one.
NoHandle ==
    /\ NoMemory
    /\ \/ mode = "listen"
       \/ usb.pc # "idle"
       \/ reset = "pressed"
    /\ Trap("memory")

\* An opening fails for another reason, or a read: LOG_FATAL, which app_main
\* catches, or an assertion of the callback or of the button's task.
StorageFails ==
    /\ Fault
    /\ \/ mode \in {"boot", "listen"} /\ Reboot /\ UNCHANGED <<client, asserted>>
       \/ (usb.pc # "idle" \/ reset = "pressed") /\ Stop("storage")
    /\ UNCHANGED <<nvs, stores>>

MainStep ==
    \/ BootWithoutNamespace \/ BootCreates \/ BootListens
    \/ BootServes \/ BootWithoutKeys \/ BootAsserts
    \/ PollRestarts

-----------------------------------------------------------------------------
\* The reset button, its task and the plug.

PressButton ==
    /\ reset = "idle"
    /\ presses < MaxPresses /\ Events < MaxEvents
    /\ presses' = presses + 1
    /\ reset' = "pressed"
    /\ UNCHANGED <<nvs, mode, handles, parser, rx, unread, usb, linked, client, faults,
                   powerCuts, history>>

\* make_writer creates a namespace that is not there.
ResetOpens ==
    /\ reset = "pressed"
    /\ MakeWriter
    /\ reset' = "opened"
    /\ nvs' = [space |-> TRUE, count |-> nvs.count, key |-> nvs.key]
    /\ UNCHANGED <<mode, parser, rx, unread, usb, linked, client, bounds, history>>

\* Mutant of ResetWrites: the entry is erased, with its namespace.
ResetErases ==
    /\ reset = "opened"
    /\ reset' = "zeroed"
    /\ nvs' = [nvs EXCEPT !.count = NoCount, !.space = FALSE]
    /\ UNCHANGED <<mode, handles, parser, rx, unread, usb, linked, client, bounds, history>>

ResetWrites ==
    /\ reset = "opened"
    /\ reset' = "zeroed"
    /\ nvs' = WriteInt8(nvs, 0)
    /\ UNCHANGED <<mode, handles, parser, rx, unread, usb, linked, client, bounds, history>>

ResetWriteFails ==
    /\ reset = "opened"
    /\ Fault
    /\ Stop("storage")
    /\ \E error \in WriteErrors : nvs' = Written(error, WriteInt8(nvs, 0))
    /\ UNCHANGED stores

ResetRestarts ==
    /\ reset = "zeroed"
    /\ Reboot
    /\ UNCHANGED <<nvs, client, bounds, history>>

PowerCut ==
    /\ powerCuts < MaxPowerCuts /\ Events < MaxEvents
    /\ powerCuts' = powerCuts + 1
    /\ Reboot
    /\ UNCHANGED <<nvs, client, faults, presses, history>>

Next ==
    \/ GenerateKeys \/ OpenPort \/ OpenPortFails \/ WritePacket \/ WriteFails
    \/ Receive \/ ReceiveFails \/ UsbStep \/ StoreKeyFails \/ WriteCountFails
    \/ MainStep \/ Poll \/ NoHandle
    \/ EraseFlash \/ FlashFails \/ BootCreatesFails \/ StorageFails
    \/ PressButton \/ ResetOpens \/ ResetWrites \/ ResetWriteFails \/ ResetRestarts
    \/ PowerCut

Spec == Init /\ [][Next]_vars

\* The tasks of the token are scheduled, and send_key does not block: writes
\* have timeouts.  Nothing is assumed of users, faults and power, nor of a Poll
\* that finds too few keys.
Fairness ==
    /\ WF_vars(MainStep) /\ WF_vars(NoHandle)
    /\ WF_vars(Receive \/ ReceiveFails) /\ WF_vars(UsbStep)
    /\ WF_vars(ResetOpens) /\ WF_vars(ResetWrites) /\ WF_vars(ResetRestarts)
    /\ WF_vars(OpenPort \/ OpenPortFails) /\ WF_vars(WritePacket \/ WriteFails)

FairSpec == Spec /\ Fairness

-----------------------------------------------------------------------------
\* Properties.

\* A key is counted only after it was stored, whatever restart or press of the
\* button comes in between: the count is never ahead (usb_cdc.cpp:93-94).
CountBacked == nvs.count <= stores

\* What is stored under a key's name is a whole key of that type, in spite of
\* one failure of the port or the storage and any restart (usb_cdc.cpp:64-103).
KeysIntact ==
    faults <= 1 =>
        \A t \in KeyTypes : nvs.key[t] = <<>> \/ \E g \in 1..gen : nvs.key[t] = Data(t, g)

\* The count 3, which a boot takes for three keys, does mean all three: no key is
\* counted twice, whatever a restart, the button or one failure does to one use
\* of Generate Keys (usb_cdc.cpp:72-75, 93-94; main.cpp:141-148).
CountMeansKeys ==
    gen <= 1 /\ faults <= 1 /\ nvs.count = 3 =>
        \A t \in KeyTypes : nvs.key[t] = Data(t, gen)

\* One undisturbed use of Generate Keys on a token that waits for keys ends
\* with a token that serves with all three of them (main.cpp:109-125, 141-148).
Provisioned ==
    \A e \in 0..MaxEvents :
        (/\ Events = e /\ keys = SendOrder
         /\ mode = "listen" /\ nvs.count = 0 /\ reset = "idle"
         /\ parser = EmptyParser /\ usb.pc = "idle" /\ rx = <<>> /\ unread = <<>>)
        ~> (\/ mode = "ble" /\ \A t \in KeyTypes : nvs.key[t] = Data(t, gen)
            \/ Events # e
            \/ "memory" \in asserted)

\* Once the button's task has written the count, the token comes to wait for
\* keys, however its last boots ended, unless keys are coming in at that moment
\* or its storage fails once more (main.cpp:26-43).
ResetListens ==
    \A e \in 0..MaxEvents :
        (/\ gen + faults = e /\ reset = "zeroed" /\ nvs.count <= 0
         /\ usb.pc = "idle" /\ rx = <<>> /\ keys = <<>> /\ sending = <<>>)
        ~> (\/ mode = "listen" /\ reset = "idle"
            \/ gen + faults # e)

\* The assertion of app_main (main.cpp:152): "Expected stored key count to be 0
\* if its not 3."
CountZeroOrThree == "count" \notin asserted
=============================================================================
