# Ubiquitous Chainsaw in TLA+

A verification project for the repository: a Windows client (`client/src`) that
keeps a computer awake only while a Bluetooth Low Energy token is near, and the
firmware of the token (`server/main`, ESP32-S3 with NimBLE). `shared/` holds the
packet formats and the cryptography both sides use. The modules are translated
from the source; line numbers in this text and in `PROJECT.json` are those of the
commit beside which this directory is kept.

## 1. The system

```
            USB serial: type byte, size byte, key bytes (provisioning)
  client  ------------------------------------------------------------->  token
          <--- authenticate characteristic: signed random block (WhoAmI) ---
          ---- demand characteristic: nonce, signed ----------------------->
          <--- notification: nonce, RSSI, signed (WhereAmI) ----------------
```

The client scans for advertisements, connects to every device found, reads the
*authenticate* characteristic and checks its signature with the token's public
key. The first device that passes becomes *the server*. From then on the client
demands the RSSI the token measures, once a second, plots the answers and
hibernates the computer when the median falls too low.

### 1.1 Components of the client

| component | state | operations | who else touches it |
|---|---|---|---|
| `CServer` | `m_Server` (the authenticated `CDevice`), `m_pServerKey`, a mutex | `enqueue_devices`, `process_queue`, `verify_server_address`, `grant_/revoke_authentication`, `connected`, `is_authenticated`, `reload_public_key`, `subscribe`, `has_subscribed` | probe coroutines, the WinRT thread that delivers connection events, the demand coroutine, the GUI thread |
| `CDevice` | services, a connection handler, a `BluetoothLEDevice` | `make`, `query_services`, `connection_changed_handler`, destructor | held by `shared_ptr` from `CServer`, its coroutine and the demand |
| `CDeviceList` | `m_ScanTimer`, the list, `CScanner` | `time_limited_scan`, `recreate_list`, `clear_list`, `end_time_limited_scan` | an executor task per scan, GUI thread |
| `CScanner` | the found devices, a counter, a set of addresses | `begin_scan`, `end_scan`, `retrieve_n_devices`, the received handler | watcher thread and scan task |
| `CRssiDemander` | a timer, `CReplayProtector`, a queue of answers | `send_demand`, `demand_rssi`, `try_demand_rssi`, the receiver | a coroutine per frame, notification thread, GUI thread |
| `CReplayProtector` | outstanding random blocks and their ages | `generate_random_block`, `expected_random_data`, purge | the two threads of the demander |
| `CCharacteristic` | subscription state, three semaphores | `subscribe`, `unsubscribe`, `has_subscribed`, reads and writes | coroutines and the notification thread |
| `CRSSIPlot` | the last 14 values | `add_rssi_value`, `plot`, `rssi_median`, `ratio` | GUI thread |
| `CCoroutineManager` | a count, a condition variable | `fire_and_forget`, `coroutine_finished`, `wait_for_all` | every coroutine, GUI thread |
| `CWindow`, `CTrayIcon` | the icon in the shell, SDL's one message hook | construction, moves, pop-ups, destructor | GUI thread, coroutines that show warnings |
| main loop | the window, the menu actions | frame, *Generate Keys*, *Delete Keys*, hibernation, exit | drives all of the above |

### 1.2 Components of the token

| component | state | operations |
|---|---|---|
| `usb_cdc` | the parser of one incoming key (type, size, bytes) | `tinyusb_cdc_rx_callback`, which stores a complete key and counts it |
| non-volatile storage | three keys, the count of keys | initialisation (which may erase everything), readers, writers, handles |
| `app_main` and tasks | where the boot is | count keys, wait for keys or start BLE; the reset button's task writes the count 0 and restarts |
| `CNimble` | the synchronised flag | wait for the NimBLE host, then make `CGap` and the profiles |
| `CGap`, `CConnection` | the one connection, advertising | connect, disconnect, begin and end advertising |
| `CWhoAmI`, `CWhereAmI` | the last nonce, the last RSSI | reads, the demand write, the notification read |

### 1.3 What is hard

* **Threads and coroutines.** Every probe, every demand, every connection event
  and every scan is on a thread of its own. Most methods of `CServer` lock for a
  single read or write, so what one of them returned may be stale one line later.
* **Object lifetime.** A `CDevice` lives as long as somebody holds it; its
  destructor revokes its handler.
* **Menu actions in the middle of a scan.** Generate, Delete and exit wait for
  the coroutines that exist, and the scan goes on starting new ones.
* **Two machines with persistent state.** Key transfer is three independent
  messages, with a count stored per key and a restart possible anywhere.
* **Time.** Nonces expire after 3 s, demands are 1 s apart, scans last 25 s.
* **Limits.** One byte fields for offsets and sizes, a ring of 14 values, one
  connection, a semaphore that is not released.

### 1.4 What makes each component correct

| component | properties worth stating |
|---|---|
| `CServer`, `CDevice` | the server is a live object; it was verified with the key in memory; only losing it revokes it; its loss is noticed; verification always has a key; no coroutine outlives what it points to |
| `CDeviceList`, `CScanner` | one scan at a time; no device is handed out twice in a scan; the counter never exceeds the list; the timer is stopped once |
| `CRssiDemander`, `CReplayProtector`, `CCharacteristic` | a nonce is accepted at most once, only after it was issued, only within the window; at most one demand per interval; a subscription that failed can be tried again; each accepted answer reaches the plot at most once and in order |
| `CRSSIPlot`, main loop | the plot holds the last 14 answers; the computer hibernates exactly when the median of answers is low |
| `CCoroutineManager` | the count is the number of running coroutines; the wait returns |
| `usb_cdc`, storage, `app_main` | count 3 implies three keys of one generation; every state a restart can leave is accepted by the next boot; a token that gets three keys starts BLE |
| `CGap` | at most one connection; without one the token advertises |
| `CNimble` | BLE is used only after the host synchronised; what NimBLE points into stays alive |
| `CWindow`, `CTrayIcon` | messages reach the icon that is there; nothing is shown through a window that is gone |
| packet headers | offsets and sizes fit their fields, no overlap; what one side builds the other understands |

## 2. Modules

| module | models | refines | proofs |
|---|---|---|---|
| `ServerAuth` | `CServer`, `CDevice`, the menu actions, the scan and the demand as far as they touch the server | | `ServerAuthProofs` |
| `RssiExchange` | `CRssiDemander`, `CReplayProtector`, `CCharacteristic`, the frame of `CRSSIPlot`, the token's demand callback, the radio | `FreshAnswers` | `RssiExchangeProofs` |
| `FreshAnswers` | what the demander promises the plot (abstract, no code) | | |
| `Provisioning` | Generate Keys and `send_key`, the client's port, the token's USB callback, its non-volatile storage, boot decision, reset button | | `ProvisioningProofs` |
| `DeviceScan` | `CDeviceList` and `CScanner` | | `DeviceScanProofs` |
| `TokenBle` | `CNimble`, the profiles' registration, `CGap` and `CConnection` | | `TokenBleProofs` |
| `Packets` | the bytes of demand, notification and authentication packet on both sides | | `PacketsProofs` |
| `GattClient` | `CDevice`'s queries, `CService`, `CCharacteristic`, `CDescriptor`, subscribing and unsubscribing | | `GattClientProofs` |
| `MainLoop` | `main()` of the client: window, tray icon, frame, plot, hibernation, exit | | `MainLoopProofs` |

`MC_<module>` gives the constants their values for TLC, `<module>_<run>.cfg` is
one run. `PROJECT.json` maps every definition to the lines it translates. The
definitions whose comment begins with "Mutant of" are plausible bugs; no module
uses them, they serve to show that each property can fail.

### 2.1 ServerAuth

Threads: the GUI thread (`gui` is its program counter through the main loop, the
two menu actions and the exit), executor threads (`task`), one coroutine per
scanned device (`obj[o].pc`), the WinRT thread that delivers connection events
(`obj[o].queued`, `handler[o]`), the coroutines of the RSSI demander (`loan`).

* A step ends where the code suspends, releases a lock or reads something another
  thread may change: `CheckAuthenticated` and `GrantAuthentication` are two
  critical sections of `process_queue`, so two devices can pass the first one.
* An object of `Objects` is a `CDevice`; `"kept"` means that its coroutine has
  returned and a `shared_ptr` holds it. `Destroy` is the destructor, which revokes
  the handler: events still queued for the object are gone.
* A `CDevice` has four kinds of owner: its own coroutine, `m_Server`, the coroutines of
  the demander (`loan[l]` has the object that coroutine holds across its await: the query
  for the subscription, the write of a demand, or subscribing) and its own running
  handler. Each of them drops its `shared_ptr` in a step of its own, and the last one
  destroys the object.
* An event carries no status. The handler reads the status the link has *when it
  runs* (`ReadConnectionStatus`), locks its object (`LockSelf`, from where on
  it is an owner, and where an object that is gone ends the matter), and revokes the server
  of the moment (`HandleDisconnected`). Three steps, since the coroutine and `m_Server` may
  let go of the object between any two of them: then only the handler keeps it alive
  (`HandlerReturns` frees it), and it ends the authentication of a server that it never
  had to do with.
* A key is a generation number; a signature verifies when the key in memory is of
  the generation the token was provisioned with. `tokenKey` is nondeterministic
  after Generate Keys because sending it may fail; how is in `Provisioning`.
* `trapped` is the failed assertion on `m_pServerKey`; it ends the run.

### 2.2 RssiExchange and FreshAnswers

A *session* is one authentication: its server and that server's characteristics.
A *demander* is one plot. The main loop replaces the plot in two steps (check,
replace), during which a server may be authenticated; Delete Keys replaces it at
once, by one whose demander has no key.

* A coroutine holds its demander, and the device of the session it reads or writes
  at an `await`; between two awaits it asks for *the server of the moment* again.
* `net` is the set of everything ever sent. Messages are not removed from it, so a
  notification can be lost, late, repeated and out of order; `Damage` adds a copy
  that does not verify. The signature is over the hash *in the message*, which the
  receiver does not compute again (`CRssiDemander.cpp:146-154`): a copy whose RSSI byte
  was damaged verifies, and is one of the messages `Receive` shows.
* A nonce (`packet[n]`) is new, cached, answered or removed. The receiver marks it
  answered before it checks the signature.
* `Undefined` is the step in which two threads are in one replay protector, which
  has no lock, or in which the purge uses an iterator that `extract` has
  invalidated. What happens then is not defined by the language; the run ends
  (`halted`), so every property speaks of executions without it.
* `FreshAnswers` has the nonces used so far, the open demands, their age, the
  queued answers and the answers shown. The refinement mapping is
  `Answers == INSTANCE FreshAnswers WITH ...`; replacing the plot is its `NewPlot`,
  a coroutine of an old plot that still sends is its `IssueElsewhere`.

### 2.3 Provisioning

The client writes a type byte, a size byte and the key, for each of three keys; a
key longer than a USB packet arrives in two. The token's callback parses what it
reads with static variables; a key that is complete is stored and then counted, in
three steps (store, read the count, write the count), between which the reset
button's task, the poll and a restart can come.

* `nvs` survives a restart, everything else is `ram` and is reset by `Reboot`. A
  failed assertion (`Stop`, `Trap`) is a reboot that leaves a mark in `asserted`.
* Storage fails too. `EraseFlash` is the boot that finds no free page and erases keys,
  count and namespace; `StorageFails` an opening or a read that fails: an assertion
  in a task, a `LOG_FATAL` in `app_main`. A write that fails has changed the storage
  or not (`Written`: `failedWriteOperation` and a failed commit have, the other codes
  have not), and the code asserts in both cases.
* `OpenHandle` counts the handles of the storage. The destructor of `CHandle`
  returns before `nvs_close`, so nothing gives one back; a second of waiting
  (`Poll`) costs one.
* A fault is one of these, a write of the client that is cut short, an opening of the
  port that fails, or a read of the token that fails and leaves the bytes for the
  next one.

### 2.4 DeviceScan

The task's loop is split at every read of the timer, of the counter and of the
list; the GUI thread holds the list's mutex only in `gui.pc = "stop"`.
`m_FoundDevices`, `m_DeviceCache` and `m_Count` change together except while
`begin_scan` clears them without the mutex. Such unguarded accesses, and two scans
spawned before the first has set the timer, set the history variable `raced`. The
model goes on after them with whole steps: the properties that do not mention
`raced` hold in spite of overlapping scans, the others are about scans that
nothing has disturbed. With overlap `HandedOutInOrder` is false: the list holds
devices of both scans, `prevFound` is set to its size, and devices of the second
scan are skipped.

### 2.5 TokenBle

The main task runs the constructor of `CNimble` (its places are `main`), the host task
runs the synchronisation callback and takes the controller's `events` one by one.
A handle can be used again as soon as its link is down, while the event that tells
so is still waiting.

* `Cells` is what NimBLE points into: callbacks, values and identifiers of the
  characteristics, the arrays of definitions, the event callback of `CGap`. `address`
  says where each is, `held` which addresses NimBLE was given. A move gives a new address
  to the cells that lie in the moved object (`Relocate`). For the one object that is moved
  after its registration, the cache, these are `CellsInCache`: none, because its members
  are a vector and a map of `shared_ptr`s. With an array as a member the moves of
  `CProfileCache.cpp:20` and `CProfileCacheBuilder.cpp:32` would leave NimBLE behind.
* A fatal error in the constructor first unwinds it, which destroys the cache although
  the host task may be running and has the addresses (`Unwind`); the restart is a
  step of its own (`Reboot`), and synchronisation may come between. `CallbacksLive`
  is about what a peer can reach; what the host itself reads of its tables
  in that window is not in the model.
* Every call that can fail does, up to `MaxFaults`: fatal in the constructors, only
  logged in callbacks. What was only logged is recorded in `unstarted`, `undropped`
  and `unhidden`; `wasReset` records a host reset. Properties name these causes.
* After a reset the callback logs that the device is restarted (`CNimble.cpp:45`);
  nothing restarts it. The model goes on with a token that neither advertises nor
  has a connection.

### 2.6 Packets

A packet is a function from positions to bytes, a byte is a number or byte *i* of a
block that belongs to a nonce. The three packets are built field by field as the code
does, with 8-bit offsets, and read by the other side, which refuses or stops
(`stage = "stopped"`: an assertion, or an access out of bounds). `Verifies` holds if
the bytes in place are those that were signed.

### 2.7 GattClient

Objects are `CDevice`s made for one token. `ask` is the list of questions a device
still has to ask (services, then characteristics, then descriptors, depth first);
an answer that fails is only logged and everything below it stays unknown. A device
whose last `shared_ptr` is gone closes its services one by one (`"closing"`), during
which Windows denies them to another object.

* Coroutines hold the device strongly (`Holding`) or weakly (`Weak`) across an await,
  as the code does; the semaphores are the three flags of a characteristic.
* `writer` is the object whose write enabled notifications on the present link. A
  later object for the same link finds itself subscribed, has no handler, and does
  not subscribe: a server that hears nothing. `WriterHears` therefore speaks of the
  object that wrote.
* The assertions of `CServer.cpp:286` and `CCharacteristic.cpp:196` can fail. The
  property says when: after a call that failed, or after a service was refused. The
  second needs no failing call at all, only a new object made while the old one closes.

### 2.8 MainLoop

`main` is the place of the main thread: the constructor of the window with its attempts
at a tray icon, the frame, the decision, the menu, the exit. Answers are values, a
server is there or not.

* `tray` has the three `CTrayIcon` objects that exist at one time or another, SDL's
  message hook and the icon in the shell.
* `m_Values` and `rssi_median` are translated as they stand: a buffer that is shifted
  by hand, and a front element of 0 that means an empty buffer. A measured 0 there is
  overwritten (`CRSSIPlot.cpp:72`); from then on `PlotHoldsLatest` is silent
  (`answers = None`).
* `Suspend` is `SetSuspendState`, which returns another value than 0 after the machine
  has been put to sleep *and resumed*. `WIN_CHECK(... == 0)` (`System.cpp:22`) takes that
  for a failure and executes `__debugbreak`: `Resume` ends with `main = "crashed"`, although
  `src/README.md:9` says that processes are restored to the state they were in. A
  call that fails passes the check, and the wake-up timer of `main.cpp:234` is armed only
  then (`SuspendFails`).
* `DrawAddress` reads the server's address after a test that another thread may have
  overtaken (`CDeviceList.cpp:228-230`); without a server the optional is empty and the
  run may end.

## 3. Runs

Nine runs pass.

| run | instance | checks | shows |
|---|---|---|---|
| `serverauth_safety` | 2 objects, a token and another peripheral, 1 task, 1 attempt, 1 coroutine of the demander, 2 key generations, 1 Delete Keys | `TypeOK`, `Ownership`, `ServerMatchesKey`, `LoneServerRevocation` | no use of a dead object, and none left behind; until Delete Keys the server was verified with the key in memory; a server that is alone is revoked only for its own loss |
| `serverauth_live` | 1 object, 2 attempts, 1 coroutine of the demander, 1 generation, 1 Delete Keys | `LostServerNoticed`, `WaitReturns`, `UnauthenticatedRescans` | an event that is queued leads to revocation or the link is back; `wait_for_all` returns; a client without a server scans again |
| `rssi` | 2 nonces, 2 coroutines, 1 session, 2 plots, interval and window 1 | `TypeOK`, `AnswersAreFresh`, `QueuedAnswerShown`, `DueDemandSent` | the exchange implements `FreshAnswers`; answers reach the plot; demands go out when due |
| `prov` | 2 generations, 2 faults, 1 power cut and 1 press, of these at most 3 together, 11 handles, keys of 91, 91 and 51 bytes | `TypeOK`, `CountBacked`, `KeysIntact`, `CountMeansKeys`, `Provisioned`, `ResetListens` | the count is never ahead of what is stored; what is stored is a whole key of its type; after one use of Generate Keys a count of 3 means all three; an undisturbed Generate Keys ends with a serving token; after the button the token waits for keys |
| `scan` | 2 tasks, 2 devices, nothing else is bounded | `TypeOK`, `ScanOwned`, `HandedOutInOrder`, `AssertionsExplained`, `SpinReturns` | see 2.4; the GUI thread's spin ends |
| `token_ble` | 3 handles, 4 events, 2 faults | `CallbacksLive`, `KeptIsKnown`, `OthersLeave`, `SilenceExplained`, `ConnectedIsHidden`, `TokenServes` | a peer reaches only callbacks that are where NimBLE was told; the kept connection is one the host knows and all others leave; a silent token has one of two causes; the start comes to advertising |
| `packets` | 2 nonces, random blocks of 64, 79, 95 and 96 bytes, signatures of 8, 71 and 72, RSSI of -128, -77, -1 and 127 | `NoAssertionFails`, `PacketsUnderstood`, `HashCovers` | no size or offset is wrong; nothing honest is refused; the value shown is the value measured and hashed |
| `gatt` | 2 objects, 2 coroutines, 2 receivers, 1 failing call, 1 loss, 1 unsubscribe | `TypeOK`, `HandlerStable`, `AssertionsExplained`, `WriterHears` | see 2.7; the handler is not assigned while it runs |
| `main_loop` | 1 coroutine, a buffer of 3, values -90, -60 and 0, 2 attempts | `TypeOK`, `NothingDangles`, `PlotHoldsLatest`, `MajorityLow`, `HibernatesWhenFar` | callbacks find their objects; the plot holds the last answers; the machine sleeps on a majority of low values only, and it does when the token stays away |

Three runs show that the code does not do what a log or an assertion says. Each
checks one property and has a short counterexample.

| run | property | what happens |
|---|---|---|
| `serverauth_key` | `KeyAlwaysValid` (`CServer.cpp:413`) | Delete Keys waits for the coroutines before it ends the scan; the scan starts another, which verifies without a key |
| `rssi_skip` | `AttemptInFlight` (`CServer.cpp:167`) | the subscribe semaphore is never released, so after one attempt every other is skipped "because an attempt is alread in flight" |
| `prov_count` | `CountZeroOrThree` (`main.cpp:152` of the token) | power is lost between two keys; each boot fails the assertion on the count |

### 3.1 Bounds and why they are enough

* **Two of everything that competes.** The races of `CServer` are between two
  devices under verification, or one and the server; a third object would repeat
  one of the roles. The same holds for sessions, plots and coroutines of
  `RssiExchange`: old and new. Three coroutines add nothing to the read semaphore,
  whose theorem is for any number.
* `MAX_ATTEMPTS` is 3 in the code. With 2, in `serverauth_live`, the loop has a first,
  a last and a repeated attempt. The run with two objects has 1: a repeated attempt
  takes the steps of the first again. `TypeCorrect` is for any
  number.
* One coroutine of the demander can already hold an object that is not the server any
  more, revoke the server of the moment and be the last owner; it and a running handler
  are two borrowers at once. Any number of them is in `OwnershipHolds` and `LoneServer`.
* `rssi` has a window of one tick, so an answer is in time or late. Two nonces are two
  demands in flight; properties that say something goes on for ever are excused when
  the nonces are used up (`Fresh = {}`). There is one session, which may end with
  nothing after it. That a second server follows is left to the theorem
  `AnswersAreFreshAlways`, which is for any number of sessions and plots: the liveness
  properties say nothing of a change of server.
* `Provisioning` has the real sizes, three keys, and every place for a fault. Eleven
  handles are the ten that a boot and three keys take, and one second of waiting.
  Three events are what the rarest steps need: a boot with a count of 3 but not all
  keys takes two uses of Generate Keys and a failure, a type that nobody knows two
  failures. With a second fault what `KeysIntact` says is false: the first write's
  size byte and data are lost after its type byte arrived, and the next key's bytes
  come to be read under the wrong type. The header has no marker to resynchronise on. This is a limit of
  the property and is named in its comment ("one failure of the port or the storage").
  `CountMeansKeys` has the same limit and another, one use of Generate Keys: when the
  third key of one use is not sent, the first of the next is counted as the third.
* Three handles of `TokenBle` are one connection kept, one on its way out and one that
  comes meanwhile; two faults are what dropping a connection and restarting the
  advertising need to fail together. Four events are enough for the end and the
  reuse of two handles to wait at once.
* `Packets` takes the extreme sizes: the code draws a random block of 64 to 96 bytes,
  a DER signature of a 256 bit key has 8 to 72. `PacketsProofs` has the layouts and
  the three invariants for all of them, as long as there is a size to draw.
* `MainLoop` has three values because a median needs an odd and an even buffer and
  one value more than half; `0` stands for an empty buffer, so it is one of them.
* `DeviceScan` has no counter to bound. Two devices are enough to be found before,
  between and after poll and fetch.
* Objects and tasks are interchangeable; `serverauth_safety` uses this
  as `SYMMETRY`, no run that checks liveness does. `CHECK_DEADLOCK FALSE` where the program exits, has trapped or is
  at a bound.

### 3.2 Fairness

* `ServerAuth`: awaited GATT operations complete (weak), queued events are
  delivered, tasks and the GUI thread run. `StopScan` is strongly fair: the loop
  tests its 25 s again and again, and they pass. Nothing is assumed of users, of
  links or of what a peer answers.
* `RssiExchange`: frames are drawn, awaits complete and time passes (weak). Reads of
  the subscription that is there do not fail for ever (strong, `SubscriptionSeen`).
  Nothing is assumed of delivery, so that an answer *arrives* is not claimed.
* `Provisioning`: the token's tasks and the client's `send_key`, whose writes have
  timeouts, go on (weak). No fairness for users, faults, power cuts and the poll.
* `DeviceScan`: tasks and the GUI thread run (weak), 25 s pass (`StopScan`, strong).
* `TokenBle`: both tasks run, a controller synchronises, a link that was terminated
  ends (weak). Nothing is assumed of peers, faults and spurious wake-ups.
* `MainLoop`: the main thread and the coroutines go on (weak); a token that is there
  and subscribed with answers again and again, and Windows does not refuse to
  hibernate for ever (strong). Nobody has to click.
* `Packets` and `GattClient` state safety only.

## 4. Proofs

The theorems hold for every value of the constants under the `ASSUME` of the module
(`ServerAuthAssumption`, `RssiExchangeAssumption`, `ProvisioningAssumption`,
`HandlesAssumption` and `BoundsAssumption` of `TokenBle`, `PacketsAssumption`,
`GattClientAssumption`, `MainLoopAssumption`; `DeviceScan` needs none), which TLC evaluates in the runs.
Every safety property of a passing run, invariant or action property, is the statement
of a theorem.

| module | theorems | argument |
|---|---|---|
| `ServerAuthProofs` | `TypeCorrect`, `OwnershipHolds`, `ServerKeyCorrect`, `KeyPresent`, `LoneServer` | `Ownership` is inductive together with the types and with what each program counter of a coroutine implies of its object. One lemma, `Release`, is about every step that lets go: an object that keeps an owner survives, one that has none is gone with the handler's events. An object whose coroutine returns while its handler runs passes into the handler's hands (`EndProbe`), so the owners are complete. `LoneServer` follows: a handler that has locked its object owns it, so if no other object is there it is the server's. The key theorems need more (`Passed`: whose signature was checked with which key): until Delete Keys, keys in memory differ from those on disk only while the GUI thread is between saving and reloading, and then no coroutine, no scan and no server exists, because Generate Keys is offered only without keys and nothing scans without keys. |
| `RssiExchangeProofs` | `TypeCorrect`, `ReadSemaphoreHolds`, `ReceiverNeverReplaced`, `AnswersAreFreshAlways`, `AnswersShownOnce` | A receiver is registered only by the coroutine that takes the subscribe semaphore, which nobody releases. For the refinement, each action of `Next` is shown to be a step of `FreshAnswers` or a stutter; the invariant says that a nonce is cached for one demander only, that plots to come have no nonces and no answers, and that an old plot's coroutines work for a demander below `plot`. From the steps of `FreshAnswers` alone it follows that an answer is shown once: what waits or was shown is to a demand that was drawn and is not open (`Once`). |
| `ProvisioningProofs` | `CountAlwaysBacked`, `KeysStayIntact`, `KeysIntactUndisturbed`, `CountMeansAllKeys`, `TypeCorrect` | `stores` is ahead of the count by the callback's progress: at `"read"` a stored key is not counted yet, at `"write"` the count read is still below `stores`. A press of the button only lowers the count, a reboot only forgets the callback. A write that fails is followed by a reboot, so even one that has taken effect counts no key that is not stored. Whole keys, types and what the count means are explained in 4.1. |
| `DeviceScanProofs` | `TypeCorrect`, `ScansAreOwned`, `HandedOutInOrderAlways`, `AssertionsExplainedAlways` | A step of a task is local to it, and a task leaves its loop only with the timer stopped: that is enough for `ScanOwned`. Order needs `AloneAndUndisturbed`: without a race one task is alive, its list is a prefix of what was found, a fetch has something new and within bounds, and a task that is about to stop a stopped timer does so under the GUI thread's spin. |
| `TokenBleProofs` | `TypeCorrect`, `CallbacksStayLive`, `KeptStaysKnown`, `SilenceHasACause`, `ConnectedStaysHidden`, `OthersAreLeaving` | Until the start is over there is no link and no event (`Quiet`), also while a start that has thrown is unwound; up to there each place of the constructor has its cells at the addresses NimBLE was given (`Built`), and that the move of the cache keeps them uses that none of them lies in it. Afterwards the queue is what matters: a link that is down has a disconnect event after its last connect event (`Announced`), so a connection that is kept or not on its way out is one whose end will be handled. |
| `PacketsProofs` | `DemandLaidOut`, `NotificationLaidOut`, `AuthenticateLaidOut`, `AssertionsHold`, `AllUnderstood`, `HashAlwaysCovers` | Each write and copy changes only its own range (`Written`, `Copied`); the bounds on the sizes keep every offset below 256, so the 8-bit conversions lose nothing, and the ranges of random block, hash and signature do not meet. The three layouts are lemmas of the invariant: at each stage the packet under way is one of the three, laid out for the sizes drawn (`StageInv`); what was signed is what lies in its place (`MacInv`); and so nothing is refused (`OutcomeInv`). |
| `GattClientProofs` | `TypeCorrect`, `HandlerStays`, `WriterAlwaysHears`, `AssertionsExplainedAlways` | What is left to be asked of a device has one of six shapes (`Shaped`), each of which says what was found before it (`Learned`). A device in use is kept (`Owned`), and one that is kept does not change until nobody uses it. A handler exists only where the subscribe semaphore is taken, which nobody releases (`Handled`); a coroutine that writes has a handler and a characteristic (`Noted`, `Registered`), and whose write arrived was such a coroutine. |
| `MainLoopProofs` | `CallbacksStay`, `BufferHoldsLatest`, `AsleepByMajority`, `TypeCorrect` | `MakeTrayIcon` is computed: its three constructions and two destructions leave one icon, with the hook on it. The destructor of the window is reached only through the wait, after which no coroutine is left and none is started. For the plot, one call of `add_rssi_value` turns the last answers into the last answers (`OneMore`), any number of them too (`LatestShown`). The median of a sorted buffer is at or below a value exactly if enough places are (`Median`, `LowMedian`), and between the decision and the call nothing touches the buffer (`DecidedInv`). |

`KeyPresent`, `ReadSemaphoreHolds`, `ReceiverNeverReplaced`, `AnswersShownOnce` and the
`TypeCorrect` of `TokenBle` are about definitions that no run checks
(`KeyPresentUntilDelete`, `ReadSemaphore`, `ReceiverStable`, `ShownOnce`, `TypeOK`): the
theorem says more than a run would, or what follows from a refinement that a run checks,
or only what the other theorems rest on.

### 4.1 Keys that are whole

The header of a key is a byte for its type and a byte for its size; nothing marks where
a key begins. The receive callback is safe against a lost packet only because the sums
come out wrong. `ProvisioningProofs` says so in this order:

1. `Flows(c)`: in the packets `c` each is what the parser expects after the one before,
   up to the end of a key. `KeyPackets` flow (`KeyFlows`), a flow without its first packet
   and a flow followed by keys are flows again.
2. `InStep(pr, c)`: the parser `pr` is where `c` begins. As long as nothing has failed
   this holds of the parser and of `Coming`, what has arrived and what is being sent.
3. `Doomed(pr, c)`: the parser has an invalid type, or more bytes than it expects, or is
   one packet ahead of `c`. Expecting 91 or 51 bytes and reading single bytes and packets
   of 64, 27 and 51 at the wrong place, the sums go past the size without meeting it:
   `Misfits` lists those that occur, and `DoomedReads` shows that none leads out of
   the list but beyond the size. A parser is released from this only by the assertion
   and the restart after it.
4. One failure: a packet that is not sent leaves the parser doomed (`Gap`), or doomed
   after the packet that has arrived; one that could not be read stays in the buffer and is
   read with the next (`Held`). Then either two data packets are read together, which
   completes the key, or a header is longer than a byte and the token stops.

So `KeysStayIntact` is stated for the program's sizes (`ProgramSizes`: 91, 91 and 51
bytes in packets of 64): with other sizes that `ProvisioningAssumption` allows, the parts
of two keys may add up to one. Everything else in it is unbounded. `faults <= 1` is
part of the property, see 3.1. The sizes only matter after a failure:
`KeysIntactUndisturbed` says, for every size, that without one the keys stay whole
through any restarts and presses. Both follow from one inductive invariant, `KeysInv`,
whose part about the parser holds while `Followed` does: no failure yet, or one and the
program's sizes.

`TypeCorrect` needs an account of the packets, because a count that is too high would
come from a key counted twice. Every key stored has taken two packets of a single byte,
a type and a size, out of those that were sent, and three keys are sent for one use
of Generate Keys; `StoresInv` says that stores, single bytes read, arrived and still
to be sent are together no more than that. Here the sizes are any: `ProvisioningAssumption`
rules out a second part of one byte.

`CountMeansAllKeys` needs to know which keys they are, and rests on the other three: it
says that in one use of Generate Keys none is counted twice. A type of key waits to be
sent (`Waits`), is what starts the packets being sent or arrived (`Starts`), is being
read (`Reading`) or is stored (`Stored`): `AtOnePlace`. Every step but Generate Keys
leaves it there, moves it to the next of these places or loses it (`Advances`), and a
size is never read as a type because every key is longer than the greatest type. Hence
a key that is stored is one that was not (`KeptMore`), the count stays at or below the
number of types stored (`KeptInv`), and at 3 all are; that they are whole is
`KeysKept`.

### 4.2 Induction over data

The provers cannot instantiate an induction theorem that takes an operator. Where a
proof is about a sequence of any length it uses sets instead: a nonempty set of
naturals has a least element (`Least`), hence a set that has 0 and with each number the
next has them all (`Induction`). A fold of the community modules is defined by a
function on the subsets of the index set that exists (`FoldingExists`), and is then
computed place by place (`Summed`, `Folded`). `Bytes`, the shift of the plot's buffer and
the answers fetched in one frame are reasoned about in this way.

### 4.3 Only model-checked

All liveness properties (TLAPS 1.4.5 has no proof of fairness beyond propositional
temporal logic): `LostServerNoticed`, `WaitReturns`, `UnauthenticatedRescans`,
`QueuedAnswerShown`, `DueDemandSent`, `Provisioned`, `ResetListens`, `SpinReturns`,
`TokenServes`, `HibernatesWhenFar`.

## 5. Reachable, without a run of its own

The modules contain these states; they are listed under `hazards` in
`PROJECT.json`, and are consequences of code already covered by a run above.

* A coroutine can be in flight when `CServer` is destroyed (`gui = "gone"`): the
  exit waits before it ends the scan, as Delete Keys does.
* A token that waits for keys long enough has no handle left and restarts
  (`NoHandle`).
* The reset button resets the count; the keys stay in storage.
* After Delete Keys and Generate Keys with the server still authenticated, the plot
  keeps a demander without a key, and no demand goes out until the server is lost.
* A scan spawned just before Delete Keys is not scanning yet and is not ended.
* A device that is only being verified, or one that an old demand finds unreachable,
  revokes whichever server there is (`CServer.cpp:332`, `CRssiDemander.cpp:268`), also
  when only its own running handler still holds it (`CDevice.cpp:121`), with the log "Lost connection to authenticated server...".
* A token whose storage has no namespace, as it leaves the factory or after its flash
  was erased at a boot, restarts for ever (`BootWithoutNamespace`): a reader does not
  create the namespace, and the branch of `main.cpp:94-97` that would comes after. A
  press of the reset button creates it. `server/README.md:15` says that a token without
  keys initialises its USB port.
* A token whose host was reset is silent until it is restarted by hand
  (`CNimble.cpp:44-46`).
* A client that put the machine to sleep stops when it resumes (2.8).
* A server that is not the one whose write enabled notifications hears none (2.7).
* A plot keeps its values over a loss of the server while a scan runs, and over a
  resume: what the decision is made of may be old.

## 6. Not modelled

* Cryptography (`shared/security`): no state of its own; signatures verify or not.
* The renderer, fonts and context menu, error texts, the enumeration of devices:
  calls of SDL and of the operating system.
* Drawing by the GUI widgets, except the read of `server_address`.
* The lock and the condition variable inside `CCoroutineManager`: its wait is a step.
* `CThreadSafeHashMap`, `CMutex`, `CScheduler`: never used by the programs.
* Copies and moves of `CDeviceList` and `CScanner`, which happen before the first
  scan; destructors and moves of `CGap` and `CNimble`, which never run.
* GAP events that are only logged; connections that fail to be established.
* USB descriptors and the echo of received bytes.

## 7. Plan

Done, in this order because authentication is what the program is for, then the
exchange that decides about hibernation, then the keys both rest on, then what lies
below and above: `ServerAuth`, `RssiExchange` with `FreshAnswers`, `Provisioning`,
`DeviceScan`, `TokenBle`, `Packets`, `GattClient`, `MainLoop`.

To come:

1. `CoroutineManager`: the count, the lock and the condition variable of
   `wait_for_all`, refined to the atomic wait of `ServerAuth` and `MainLoop`.
2. A composition of `DeviceScan` and `ServerAuth`: the abstract scan of `ServerAuth`
   as the specification that `DeviceScan` implements.
