# libdatachannel-java: a verification project

TLA+ modules of the Java binding `libdatachannel-java` and of its JNI layer, the
TLC configurations that check them on small instances, and theorems about them
that TLAPS proves for every instance.  Paths below are relative to the repository.

## 1. The system

The binding gives Java programs WebRTC peer connections and data channels.  Three
layers run in one process and share state:

| layer | code | state |
|---|---|---|
| Java objects | `src/main/java/tel/schich/libdatachannel` | `PeerConnection.channels`, `.tracks`, `DataChannel.closed`, the listener lists, the `Cleaner` registrations |
| JNI | `jni/src` | one `struct jvm_callback` per peer (a global reference to the peer's listener object), user pointers on native handles, the thread attachment table, the cached `JavaVM`, the private allocator |
| native library `libdatachannel` | a git submodule, external | handles, callback slots, the threads that run callbacks |

### Components

| component | state | operations | what makes it correct |
|---|---|---|---|
| Event container (`EventListenerContainer.java`) | listener list, `closed`, the lock, the native callback slot | register, deregister, deregisterAll, close, invoke | the native callback is installed exactly while a listener is registered; a closed container starts no work |
| Peer and channel life cycle (`PeerConnection.java`, `DataChannel.java`, `PeerConnectionListener.java`) | channel map, `closed` flags, Cleaner action | createDataChannel, onDataChannel, event dispatch, close, closeChannels | a close deletes once, returns, and is followed by silence |
| Callback records (`callback.c`, `native_peer.c`, `native_channel.c`) | record, user pointers | setup, dispatch, delete and free | no handler uses a freed record, no record leaks |
| Creating a peer (`rtcCreatePeerConnection`, `createPeer`) | acquired JNI strings and arrays | acquire, create, release on every path | everything acquired is released once, on success and on each failure |
| Receiving messages (`rtcReceiveMessage`, `rtcReceiveMessageInto`) | the channel's receive queue, which is the library's | receive, receive into a buffer | a whole message in a buffer of its size, none lost, a true size when the buffer is too small |
| JNI runtime (`init.c`, `thread_attachment.cpp`) | cached VM, per-thread attachment | load, attach on first callback, detach at thread exit, unload | a thread that was attached is detached once, and never after the VM is forgotten |
| Channel settings (`DataChannelInitSettings.java`, `DataChannelReliability.java`, `native_channel.c`) | none | build, convert, read back | no value changes its meaning on the way to the library and back |
| String and candidate pair queries (`util.c`, `PeerConnection.java`) | the buffers of a call | query the size, fetch, convert | whole strings, freed buffers, no buffer too small unless the string changed |
| Sending (`DataChannel.java`, `native_channel.c`) | position and limit of the client's buffer, the buffered amount and its threshold | sendMessage, setBufferedAmountLowThreshold | only the client's bytes are sent; a sender that waits for the low event gets it |
| Message dispatch (`native_channel.c`, `PeerConnectionListener.java`) | the direct buffer of a message | offer to each listener | each listener gets what was sent, in the order it was sent |
| Library loading (`LibDataChannel.java`, `Platform.java`, `LibDataChannelNative.java`) | class initialisation state | initialize, load | the native library is loaded once, before its first use |
| Private allocator (`private_malloc.c`, `private_allocator.cpp`) | which allocator a block comes from, the functions OpenSSL uses | allocate, format, free, install | every block is freed by the allocator it came from |
| Tracks (`Track.java`, `native_track.c`) | track map, `closed` | addTrack, newTrack, accessors, close | one deletion; a deleted track leaves the map |

### How they interact

The application calls Java objects from its own threads.  The native library calls
`handle_*` functions of the JNI layer on its threads; these dereference the callback
record of the peer, attach the thread to the VM and call `PeerConnectionListener`,
which finds the channel and calls the listeners of the event's container.  Listeners
may call the binding back: the example program closes channels inside message
callbacks and the peer inside a state callback.  The hard behaviours are therefore
interleavings of application and native threads, calls made from inside callbacks,
native deletions that wait for callbacks, and failures half way through a JNI call.
`PROJECT.json` lists the hazards one by one, each at its line.

## 2. Modules

* `CallbackSlot`: what an event container promises, abstractly.
* `EventListenerContainer`: one container with its listeners, lock, lifecycle call
  and dispatches; it implements `CallbackSlot` for a client that serialises its
  changes.
* `HandleOwnership`: what the life cycle promises the native library about handles and
  callback records, abstractly.
* `PeerLifecycle`: peers, channels and callback records from the opening of a channel
  to the release of the record; each close or create call is a sequence of steps.  It
  implements `HandleOwnership`.
* `ChannelMessages`: the two ways of receiving, against the library's queue.
* `ChannelSettings`: the settings of a channel as operators, and `PeerCreation`, which
  extends it: the JNI calls that borrow strings, with a failure at every acquisition,
  the creation of a peer, its callback record, Cleaner and end.
* `HandleQueries`: the accessors of a peer, a channel or a track against strings that
  negotiation replaces and a handle that is closed and deleted.
* `MessageExchange`: a sender that paces itself, and the listeners at the other end.
* `PrivateAllocator`: where blocks come from; it has no behaviours of its own.
  `JniRuntime`, which extends it: loading and unloading, attachment and detachment of
  threads, with memory allocated on all the way.
* `LibraryInit`: `initialize()` and the static initialiser of `LibDataChannelNative`.
* `*Proofs`: the theorems about the module of that name.  `MC*`: its instances for TLC.

Modules define, before the operations, faulty variants of some of them.  No action uses
them; substituting one for the operation it varies shows that a property notices
(`mutants` in `PROJECT.json`).  `map` there gives, for every definition, its lines.

### EventListenerContainer

| model | code |
|---|---|
| `listeners`, `closed` | the fields of the same names |
| `installed` | whether the last `rtcSet...Callback` installed or removed the handler |
| `lifecycle[t]` | thread `t` has left the lock and has not made its lifecycle call yet |
| `phase[d]`, `todo[d]` | where the `invoke` of native thread `d` stands, and the rest of its iterator |

Every body guarded by `changeLock` is one action.  A native thread changes listeners
only from inside a listener.  `serialised`, chosen once in `Init`, says whether the
client makes its next change only when no lifecycle call is owed.

### PeerLifecycle

| model | code |
|---|---|
| `native[o]` | what the library knows of the handle of `o` |
| `record[p]`, `userPtr` | `struct jvm_callback` of `p`, and the handles whose user pointer is it |
| `hooked`, `shut` | objects with native callbacks installed, objects whose containers are closed |
| `channels`, `closedFlag`, `cleaned` | the channel maps, `DataChannel.closed`, the Cleaner actions that have run |
| `callback[n]` | the callback native thread `n` is in: `entered` before it reaches Java, `client` while a listener runs |
| `opening[t]`, `closing[t]`, `tearing[t]` | the call of `createDataChannel`, `DataChannel.close`, `PeerConnection.close` of thread `t` |
| `returned`, `aborted` | history: close calls that returned, and that ended with an `Error` |

The early returns of `DISPATCH_JNI` are `MissCallback`: an entered callback ends without
a call of Java.  That of `invokeWithChannel` is in `DispatchEvent`.  The callback for a channel that
the remote side has opened may be lost like that only if `LostOpens` is TRUE; the channel
then has its user pointer and is in no map.  `LateOpens` says whether channels of a peer
may be opened while it is closed.

Of the external library the model uses what the Javadoc of the close methods says: a
deletion waits for the callbacks of the object that other threads run, and none begins
after it.  Any native thread may raise any event at any time otherwise.  Once a
deletion waits, no new callback of the object is scheduled; one that is scheduled and
has not begun counts as begun.  The native deletion of a peer is not assumed to delete
its channels.

`HandleOwnership` has no closers, maps, flags or listeners: a handle is `none`, `live` or
`gone`, a record `live` or `freed`, and a handler uses one object at a time.  A channel
opens only of a live peer; a handle is deleted once, when no handler uses the object, a
peer's after its channels'; a record is freed once, after its peer and when no handler
uses the peer or a channel of it.  The mapping: `Handles` forgets how far a close or a
deletion is, and `Entered` is the object of a handler that has the pointer and has not
reached Java (a listener that runs does not need the record any more).

### ChannelMessages

| model | code |
|---|---|
| `queue`, `arrived` | the library's receive queue of the channel, and the messages it was ever given |
| `channel` | open, flagged by `DataChannel.close`, deleted by `rtcDeleteDataChannel` |
| `call[r]` | `query`, between the two `rtcReceiveMessage` calls of `receiveMessage()` (`fetch`, with the buffer's size), or in `receiveMessage(ByteBuffer)` (`into`) |
| `result[r]` | what the last call of `r` returned, and the size of the message it took |
| `received`, `overtaken` | history: messages that went into a client's buffer; receivers since whose call began another took a message |

External: a call with a buffer takes the first message if the buffer holds it, a call
without one leaves it, and the size of a text is reported as a negative number, the
convention `handle_channel_message` relies on (`native_channel.c`, lines 25-38).

### PeerCreation and ChannelSettings

| model | code |
|---|---|
| `call` | the JNI entry point that runs, its stage, and the string it is at |
| `args` | its strings in the order it borrows them; an ICE server is an array element and has a local reference too |
| `chars`, `refs`, `tables` | strings between `GetStringUTFChars` and `ReleaseStringUTFChars`, local references, the two tables of `rtcCreatePeerConnection` |
| `handle`, `pointer`, `record` | the native peer, its user pointer, the callback record with its global reference |
| `cleaner`, `held` | the Cleaner registration, and whether the application refers to the peer |
| `settings`, `channel`, `read` | what `createDataChannel` was asked for, the `rtcDataChannelInit` of the channel, and what `reliability()` returned |

`Reachable` is the collector's view: the global reference of the record leads to the
`PeerConnectionListener`, which refers to the peer.  `ChannelSettings` gives the integer
widths as constants: `HalfRange` is 2^31 and `StreamRange` 2^16 in the code.

### HandleQueries

| model | code |
|---|---|
| `kind` | what the object is: a peer, a channel, a track of this side or of the remote side; one behaviour follows one object |
| `handle`, `flag` | the state of the native handle, and the `closed` field (or the Cleaner action that has run) |
| `known` | whether the peer's map has the track |
| `strings`, `changes` | the strings the library has for the object, each with a version, and how often one was replaced |
| `call[t]`, `heap[t]` | the accessor or close of thread `t` and where it stands, and the buffers it has allocated |
| `result[t]` | what the last call of `t` returned or threw |
| `during[t]`, `shut` | history: the strings there were since the call of `t` began; whether `isClosed()` has returned true |

`get_dynamic_string` is three steps (size, allocation, fetch) and the conversion to a Java
string a fourth; negotiation and other threads act between them.  A deletion may fail: of a
track it throws (`DeleteTrackFails`), of a peer or channel the close goes on
(`DeleteFails`).

### MessageExchange

| model | code |
|---|---|
| `sender`, `data`, `mark`, `signal` | the sending thread: where it is in `sendMessage`, its buffer, the threshold it has set, and what its `onBufferedAmountLow` listener sets |
| `threshold`, `hooked`, `raised`, `amount`, `buffered` | of the library: threshold, installed callback, a low event on its way, the buffered amount, the send buffer |
| `missed` | history: the last low event came to nothing in its callback |
| `flag`, `deleted` | `DataChannel.closed`, and the native channel |
| `inbox`, `handler` | messages that have reached the other end, and where `handle_channel_message` and its listeners are |
| `accepted`, `seen` | history: messages the library accepted, and per listener what each of them has come to |

A binary message is what lies between the position and the limit of a direct buffer, read
in two steps; a buffer that is not direct is refused (`RejectBuffer`).  A text is copied,
in UTF-8 and with a terminator, into a buffer that Java allocates, and passed with the
length -1.  A text can hold a terminator of its own (`content` is what precedes it) and
characters beyond the 16-bit ones (`wide`): they go out as UTF-8, and `NewStringUTF` at the
other end expects JNI's modified UTF-8.

A message can come to nothing on its way into Java (`MissMessage`: callback record or
environment NULL, no channel in the map), and so can a low event (`MissLow`).
`NewStringUTF` and `NewDirectByteBuffer` can fail, and null is then passed on with an
exception pending (`HandleNull`; JNI leaves undefined what follows, and `MissMessage` is
the other outcome).  `Nothing` stands in `seen` for a message that was lost.

### JniRuntime and PrivateAllocator

| model | code |
|---|---|
| `jvm`, `loaded`, `unloading` | `global_JVM`, `jvm_loaded`, `jvm_unloading` |
| `load` | where `initialize_jni` stands: the classes are bound after the VM is set, and `rtcPreload` starts threads before `jvm_loaded` is |
| `slot` | `attachment_key`; `unused` where attachments are thread-local objects (not Windows), chosen once in `Init` |
| `bound`, `loads` | classes bound by `module_OnLoad`, how often the library was loaded |
| `attached[t]`, `registered` | who attached `t` to the VM, threads with a `ThreadAttachment` |
| `step[t]`, `unload`, `refused` | where a callback and `JNI_OnUnload` stand, and why `initialize_jni` last failed |
| `platform`, `hooks`, `used` | what is compiled in; whether OpenSSL has the library's functions; whether it has allocated |
| `blocks[b]`, `format` | the allocator block `b` came from, and where a call of `asprintf_l` stands |

### LibraryInit

| model | code |
|---|---|
| `ios`, `innerAllocator` | `Platform.isIOS()`, and the name of the allocator |
| `initialized`, `monitor` | the field, and the lock of the synchronized `initialize` |
| `library`, `loads`, `failures` | whether the library is loaded, how often `JNI_OnLoad` ran, how often a step failed |
| `class`, `classOwner` | the VM's state of the static initialiser, which other threads wait for and which makes the class erroneous for good if it throws |
| `call[t]` | the call of thread `t` and the step it is at |

## 3. Runs

| run | instance | question |
|---|---|---|
| `container` | one application thread and the listeners of two native threads change the listeners, three registrations | what close() guarantees; dispatches end; for a client that serialises its changes the container implements `CallbackSlot` |
| `container_race` | two threads change the listeners at once | a violation: no lifecycle call is owed, a listener is registered, and the callback is off |
| `lifecycle_any` | a peer, a local and a remote channel, one application and two native threads; listeners close everything, the application thread the peer, with its channels; deletions may fail | the life cycle implements `HandleOwnership`; nothing is closed twice, leaked or left; only listeners that close across block each other |
| `lifecycle_single` | the same objects; all closing from one application thread, or from the listeners of one native thread; two listeners per event; any callback may be lost | every close returns, is final and quiet, and releases everything |
| `finding_late_channel` | the remote side opens a channel during close | a violation: the channel survives |
| `messages` | two receivers in both ways, sizes 0 to 2, texts and binaries, close at any time, two messages | nothing lost, true sizes, whole messages, every message received |
| `queries` | two threads ask and close, two replacements, lengths 0 and 2 against room for 2, terminator included | strings are whole, buffers freed; one deletion; a channel known closed is not open |
| `exchange` | two messages, texts of length 0 and 1 or parts of a buffer of 2, thresholds 0 and 1, two listeners, close at any time | nothing beyond the buffer is sent; listeners see what was sent, and lose a message together; a waiting sender goes on unless its event was lost |
| `creation` | up to three ICE servers, every acquisition may fail; 5-bit ints with lifetimes and counts at their boundaries, 3-bit streams | what is acquired is given back; a failed creation is undone; settings arrive and come back |
| `finding_forgotten` | a peer is forgotten | a violation: it is never deleted |
| `runtime` | two workers, a Java thread, every platform, two loads, one block | attachments are undone; no call into Java without VM or classes; unloading ends; blocks are freed by their owner |
| `library_init` | three threads, iOS and other hosts, two failures | loaded again only after a failure, no native method without the library, every call returns |

Why the bounds are enough.  Two or three registrations and two listeners per event give a
duplicate, a removal that is not the last, and a second listener after a first that
closes.  One peer with two channels and three threads give every pair of concurrent
closers with a callback beside them; the application thread closes channels by way of the
peer in `lifecycle_any`, and one by one in `lifecycle_single`.  `StackDepth` stands for the stack: a recursion of
`closeChannels` that passes a small bound without the map changing passes any.  Two
receivers and two messages give every overtaking, and an order to confuse.  Two
replacements let a string change between the size query and the fetch and again before
the call ends; length 0 leaves only the terminator, and length 2 is one too long for the
pair's buffers.  In `exchange` a buffer of two bytes has empty, partial and full messages
and a position that another thread moves, thresholds 0 and 1 lie on both sides of an
amount of one, and of two listeners the second finds what the first has read.  Three
servers give a first, a middle and a last.  With two loads a runtime is used after it was
unloaded, and OpenSSL is given its functions a second time, in the same image or a new
one; with two failures loading fails inside the static initialiser and outside it.  The
fail counts and message counts bound the state space and nothing else.

`TypeOK` of each module is a theorem and therefore in no run.

### Fairness

* Containers and life cycle: a call of the binding that has begun goes on, a dispatch
  goes on (the scheduler), and a listener returns after finitely many calls of the
  binding (strong fairness of leaving it).  No client and no remote side has to act.
* `ChannelMessages`: the client polls as long as the channel is open, and its allocator
  does not fail for ever; only `EveryMessageReceived` needs this.
* `MessageExchange`: a call that has begun goes on; an open channel sends what is buffered
  and raises the low event it owes, and the callbacks go on, each of which may come to
  nothing: no fairness makes one reach Java.  The client need not send, and nobody has to
  close.  Only `SenderProceeds` needs this.
* `PeerCreation`: calls go on, and the collector and the Cleaner thread find what is
  unreachable.
* `JniRuntime`: callbacks return, and `rtcCleanup` ends the workers, as the comment in
  `thread_attachment.cpp` (line 85) says.
* `LibraryInit`: threads go on, and a monitor that is free again and again is got.

### Where code and documentation part

Three runs of `PROJECT.json` show a violation.

1. `container_race`: `register` and `deregister` make the lifecycle call after they
   release `changeLock`.  Two threads can make them in the wrong order, and a listener
   stays registered with no native callback.
2. `finding_late_channel`: `close` empties the map and then deletes the peer; a remote
   channel that comes between is never closed.
3. `finding_forgotten`: the Cleaner action does not capture the peer, but the global
   reference of the callback record does: the action cannot run for a forgotten peer.

The models contain these behaviours too.  Where a property depends on one of them, the
client it is checked for is restricted, or its statement leaves the case out:

* the close call that loses the `compareAndSet` returns before the channel is deleted,
  and the second listener of an event is called after the first closed the channel:
  `QuietAfterClose` is checked for a client that closes from one application thread;
* closing a peer inside a callback of a channel that another thread is closing recurses
  in `closeChannels` until the stack overflows, which `catch (Exception e)` does not
  catch: `CloseAlwaysReleases` is checked for the same client;
* two listeners on two native threads that close each other's object wait for each other
  for ever, as the documented blocking of the deletions implies: `CloseReturns` is checked
  without such a client, and `BlockedAcross` says that no other listener blocks like that;
* `receiveMessage()` asks for the size and takes the message in two calls, and ignores
  the size the second one reports: after an overtaking it returns a buffer longer than the
  message (`BufferIsMessage` and `NegativeIsPendingSize` leave overtaken calls out);
* an empty message is taken for none and a text is refused, each for as long as it is
  first in the queue (`EveryMessageReceived`), and a client that finds nothing pending
  gets an exception (`QueryThrowsException`);
* `receiveMessage(ByteBuffer)` returns for a text the negated count of a message it has
  taken, or a positive size of one that did not fit;
* loading that fails in the static initialiser makes the class unusable although a later
  `initialize()` succeeds (`RefuseNative`);
* a lifetime of 2^32 ms wraps to 0, no limit (the settings of `creation` are in range);
* a callback that finds no environment of the VM is dropped and nobody is told: a message
  then reaches no listener (`SeenAsSent` says none, and the rest in order), the last low
  event is lost and its sender waits for ever (`SenderProceeds` and `NoLostWakeup` name
  `missed`), and a channel that the remote side opened is in no map and survives the close
  of its peer (`lifecycle_any` leaves this out, `LostOpens` is FALSE);
* `handle_channel_message` does not check for the failure of `NewStringUTF` or
  `NewDirectByteBuffer`, and calls Java with an exception pending (`HandleNull`);
* the listeners of a binary message share one buffer, and a listener that reads it leaves
  nothing for the next; a text ends at the first terminator inside it; a text with
  characters beyond the 16-bit ones goes out as UTF-8 (`DataChannel.java`, line 99) and is
  given to `NewStringUTF`, which expects JNI's modified UTF-8 (`SeenAsSent` names all
  three);
* `Track.close` throws before `dropTrackState` when the deletion fails, and later calls do
  nothing: the track keeps its handle and its place in the map (`DeletedOnceAndDropped`
  speaks of tracks that were deleted);
* `get_dynamic_string` is refused a string that grew between its two calls, and the
  client gets an exception although there is a string (`TooSmallIsStale`).

## 4. Proofs

Every theorem holds for all values of the constants that satisfy the assumption of its
module, unless it states a further one; the listed property is the one the run checks.

* `EventListenerContainerProofs`: types, `ClosedIsEmpty`, `ClosedGainsNoListener`.  For
  a client that serialises its changes the invariant `OwedAgrees` (a call that is owed
  agrees with the list and disagrees with the slot) gives `SerialisedSlot` and the
  refinement of the safety part of `CallbackSlot`; `container_race` shows that another
  client has neither.  `SnapshotKept` follows from the types.
* `PeerLifecycleProofs`.  Of every client: types, `PeerRecordLive`, `NoCallOnDeleted`,
  `RecordNotLeaked`, `NoDeadEntry`, and `ReturnedIsReleased`.  `PeerRecordLive` is not
  inductive: `PeerInv` adds that calls on a native thread are made from inside a listener
  (so a thread that deletes is not on its way to the record), that no thread is on its way
  with a deleted object, that freed records belong to deleted peers, and that the Cleaner
  action of a peer is run by one thread (`UniqueCleaner`), as the close of a channel is
  (`UniqueCloser`).  `RecordNotLeaked` needs `DeletedIsFreed` (a deleted peer has lost its
  record, or the call that deleted it is about to free it) and `CleanerGoesOn` (a Cleaner
  action that was started is at work or has deleted, unless the deletion failed).  For
  `NoDeadEntry`, `WayInv` says that a channel on its way into the map is carried by one
  thread and nobody has closed it.

  Of a client that opens no channel of a peer it closes (`LateOpens` is FALSE), where Java
  hears of every channel that the remote side opens (`LostOpens` is FALSE):
  `AllChannelsClosed` and `ChannelRecordLive`, because every channel with a handle is in
  the map or on its way (`MapIsComplete`), and the map of a peer that got past
  `closeChannels` stays empty (`TearInv`).  `BlockedAcross`, because the deletions of an
  object, and of a peer and its channels, never overlap (`DeletionsApart`).  And
  `OwnershipSpec`, the refinement of `HandleOwnership`: `LiveHasRecord` shows that
  what has a handle has its record, `DeletedIsNotUsed` that a deletion completes when no
  handler is entered, `NothingVanishes` that no handle becomes absent again;
  `OwnershipStep` has a case per action, and each maps to an action of `HandleOwnership` or to a stutter.  The run
  `finding_late_channel` shows that the first hypothesis is needed: with late channels a peer
  is deleted before one of its channels.  So is one whose channel is in no map.

  Of a client that opens no channel of a peer it closes and closes from one thread
  (`OneCloses`), whatever callbacks are lost: `OnePassSuffices` and
  `CloseAlwaysReleases`, because what was in the map when a pass of `closeChannels` began
  has left it at the end (`PassInv`), so that no recursion exhausts even the smallest
  stack, and the closer itself runs the Cleaner action to its end (`CleanerIsBusy`).  If
  that thread may close the channels of every peer it closes (`ClosesChannels`) and
  deletions do not fail: `QuietAfterClose`, because a closed container belongs to a deleted
  object, of which only the closing thread can still be in a callback (`QuietInv`).
* `JniRuntimeProofs`: types, `EndedIsDetached`, `OwnersKept`, `CallsWhileBound`,
  `UnloadLeavesNobody`, all from `RuntimeInv`: where loading and unloading stand
  determines the flags (`Phases`), no worker runs before the classes are bound
  or once `rtcCleanup` has returned, and a
  thread the library attached is registered, except between those two steps.
  `UnloadDrains` adds that the slot lives as long as the library (`SlotInv`).
  `FreedByOwner` and `AllocatorAccepted` come from `MemoryInv`: OpenSSL allocates only
  with the library's functions, because no code of the library runs before it has them.
* `LibraryInitProofs`: types, `LoadedOnceBeforeUse`, and `OneLoader`, which is in no run,
  from `LoadInv`: a thread holds the monitor exactly between entering and leaving
  `initialize`, and the library is loaded without being initialized only while some thread
  is between the two, or after a failure.  `WaitingIsOrdered` needs `OwnerInv` as well: the
  static initialiser is run by a thread that is inside `initialize` or about to enter it.
* `PeerCreationProofs`: types, `NothingKept`, `LibrarySeesStrings` from `Holdings`, which
  says what is borrowed at each stage: the given strings before the current one, and
  references to given servers up to it; `RecordGoesWithHandle` from `DeletionInv`;
  `FailedCreationIsCollectable` from `UnfinishedInv`: until a peer has its record only
  `createPeer` refers to it, and the Cleaner knows it from its constructor on;
  `StreamIsHonoured` and `ReliabilityReadsBack` assume `InRange`, settings in the
  ranges of the C integers, whatever their widths.
* `ChannelMessagesProofs`: types, `NothingLost`, and `BufferIsMessage` from `BufferInv`:
  the size a receiver was told stays the size of the first message until another
  receiver takes it.  `NegativeIsPendingSize` from `TellInv`, for the same reason.
  `TakenInOrder` from `OrderInv`: the queue is the newest part of what arrived.
* `HandleQueriesProofs`: types, `StringIsWhole`, `BuffersOwned`, `TooSmallIsStale`,
  `ClosedIsFinal`, `DeletedOnceAndDropped`, all from `QueriesInv`.  `ThreadInv` says of
  every step of a call what the thread knows there: that the buffer it has fits a string
  the object had during the call, that versions identify strings, that a call that began
  after `isClosed()` returned true finds the flag set.  `ObjectInv` says that a set flag
  has one closer, which is all that may delete.
* `MessageExchangeProofs`: types, `SentWithinBuffer`, `SeenAsSent`, from `ExchangeInv`.
  `MessagesInv` keeps every message on its way equal to one the library accepted,
  `OrderInv` and `CountInv` say that what is buffered, in the inbox, in the handler and
  seen by a listener are consecutive parts of `accepted`, and `HandlerInv` what the
  handler has made of its message and whether a listener has read it.  `NoLostWakeup` is
  inductive, with `missed` for the event that came to nothing, by two more facts (`PacingInv`): the threshold of the library is the one the
  client has set, and a deleted channel is flagged.

Liveness is beyond the prover, and so are the `ENABLED` conditions it rests on: nine
properties stay with TLC.  Of each the part that can be proved is proved: that nothing is
in the way of what must happen, for every number of threads, messages and objects.

| checked by TLC | the safety core that is proved |
|---|---|
| `DispatchEnds` | `SnapshotKept`: what a dispatch still has to call only gets shorter |
| `SlotSpec`, its fairness | `ImplementsSlot`: its steps, and a call that is owed agrees with the list |
| `CloseReturns` | `BlockedAcross`: no deletion is waited for in a circle but across objects; `OnePassSuffices`: no recursion |
| `ClosedIsReleased` | `ReturnedIsReleased`: what a close leaves undone another thread is doing |
| `EveryMessageReceived` | `NothingLost` and `TakenInOrder`: the next message taken is the oldest |
| `SenderProceeds` | `NoLostWakeup`: a sender that waits has something to wait for, or its event was lost |
| `FailedCreationIsUndone` | `FailedCreationIsCollectable`: nothing keeps the peer from the collector |
| `UnloadEnds` | `UnloadDrains`: no callback begins while `rtcCleanup` waits |
| `CallsReturn` | `WaitingIsOrdered`: chains of waiting callers end at the holder of the monitor, who waits for nobody |

What remains is fairness alone: that threads go on, and that the sizes of the messages in
the send buffer add up to the buffered amount, which is induction over a sequence.

`PeerRecordLive`, `ChannelRecordLive`, `SnapshotKept`, `TakenInOrder`, `NoLostWakeup`,
`FailedCreationIsCollectable`, `UnloadDrains`, `WaitingIsOrdered` and the statements of
`ReturnedIsReleased` and `OnePassSuffices` are theorems that no run repeats; TLC agrees
with them on the instances of section 3.

## 5. Plan

What would come next:

1. An abstract queue that `ChannelMessages` implements (arrive, deliver in order, drop at
   the deletion), from `OrderInv`, and one for the exchange of messages.
2. Retransmission and unordered channels in `MessageExchange`, should the repository come
   to say what a listener may expect of them.

## 6. Not modelled

* The native library itself: a git submodule that is not among the sources.  It is the
  environment of the modules, with the assumptions named above.
* Accessors that only pass a value on, enums and their maps, `PeerConnectionConfiguration`,
  exceptions, the candidate parser: no behaviour in time.
* Texts with characters beyond the 16-bit ones, once they have left: what JNI makes of
  UTF-8 that is not its own encoding is not defined.
* The branch of `DataChannel.close` for `ERR_INVALID`: the flag lets one closer through, and
  nothing else deletes the handle, so no call meets a deleted one.
* Failing deletions of channels in `PeerLifecycle`, where only those of peers fail; they are
  in `HandleQueries`.
* The lock of the Windows loader (`thread_attachment.cpp`, line 56).
* `jni/jdk`: headers of the JDK, which declare and do nothing.
* Where the library file is found and extracted (`Platform.java`): I/O.
* mimalloc, the build and packaging, the example and the tests.
