# dsv: a TLA+ model

dsv keeps *distributed system variables*: named values of a fixed type that live in one server
process and that client processes create, read, write, subscribe to, save and restore. This
directory holds TLA+ modules of the server and of the way clients use it, TLC configurations
that check them on small instances, and proofs for TLAPS. `PROJECT.json` lists the runs, the
source lines each definition stands for, the mutants that show each property can fail, the
hazards and the theorems.

To check: `tlc -config <X>.cfg <M>` for a run (the table below), `tlapm <M>Proofs.tla` for the proofs
(`DsvTextProofs.tla` for those of `DsvSaveFile`, `DsvFileStore` and `DsvArrayText`).

## The system

| part | source | state | operations |
|---|---|---|---|
| variable table | `dsv_server/src/dsv_var.cpp` | `g_map`: name -> `dsv_info_t` (value, `len`, flags, dirty) | create, handle, set, array items, track, save, restore, notify, enumerate |
| save file | `/var/run/dsv.save` | records `name=value;` | appended by save, emptied and rewritten by restore |
| server loop | `dsv_server/src/dsv_server.cpp` | three ZeroMQ sockets, a signal pipe, `fwd_buf` | poll, dispatch, forward, answer |
| start, end, discovery | `dsv_server.cpp`, `libdsv/src/dsv_discovery.cpp` | `g_state`, the speaker actor, bound ports | search a beacon, broadcast, bind, destroy |
| client library | `libdsv/src/libdsv.cpp` | a context with three sockets | `DSV_*` |
| conversions | `libdsv/src/util.cpp` | none | value <-> text, copying of values |
| tools | `dsv/src/dsv.cpp` (`sv`), `asv/src/asv.cpp` | options | one library call, or a loop of them |
| device manager | `devman/src/devman.cpp` | handles of two variables, its log level | creates, joins the device list, follows notifications |
| JSON input | `libdsv/src/libdsv.cpp` | one record, reused for all elements | a create for each element |
| log | `libdsv/src/dsv_log.cpp` | a mask | printing; the log level variable of a device |

**How they interact.** A client writes (create, set, item edits, save, restore) on a PUB socket:
nothing answers, and what is sent before the connection stands is dropped. It reads (handle,
get, enumeration) on a REQ socket, on which it blocks without a timeout. It hears of changes on
a SUB socket. The three connections have no order among each other. A *handle* is the address of
the `dsv_info_t` in the server; clients cache it and no handler checks it. The server is one
thread: every handler runs to its end before the next message is read.

**What is hard.** Writes, reads and subscriptions of several clients overtake each other; a
forward must leave with the value that is in the table; the value cached is sent at a *first*
subscription only; handles must stay good as long as the server lives and are useless after it;
the file is append-only until a restore empties it; a kill can come in the middle of either, and
in the middle of a record; an enumeration is a series of independent searches in a table that
changes between them; several servers may start at once, and the parts of a start that fails are
only partly undone; several devices may find no device list and each create it; the record a
client fills is shared by all elements of a file and all options of a command line; texts are
converted in buffers of a fixed size with arithmetic that wraps.

**What makes each part correct.** Table: an entry is never replaced; `len` follows an array; a
clean entry is in the file. File: last record wins, a restore ends, and together with the table it
behaves as one store with values pending. Loop: subscribers converge on the table; every request
is answered; whatever happens around it, the table does what `DsvVar` says. Start and end: one
server on a host; one that was refused does not serve; one that serves is found; one that stops
ends. Enumeration: complete, without repetition, finite. Devices: no join is lost or done twice; a
device has the log level its variable has. Input: what is written in full is sent as written.
Text: what fits its buffer comes back as it was. Where the code does not live up to what its
documentation says, a run shows it (expected violation, a finding in `PROJECT.json`).

## The modules

| module | what it models |
|---|---|
| `DsvStore` | abstract: values in memory, values stored, and which of them are pending |
| `DsvVar` | the variable table and its file as records, one action per handler, crashes, restarts |
| `DsvSaveFile` | the same file as characters: how it is written, cut, and parsed |
| `DsvFileStore` | extends `DsvSaveFile` by a history of the table, to show that it implements `DsvStore` |
| `DsvServer` | extends `DsvVar` by clients, connections, the main loop and notifications |
| `DsvDevman` | extends `DsvServer`: device managers that run their script against it |
| `DsvLifecycle` | server processes that search, speak, bind, fail, stop |
| `DsvScan` | `get` and `track` by partial name against concurrent creates |
| `DsvInput` | JSON files, the options of `sv` and sets from a text, and the record they fill |
| `DsvArrayText` | arrays to text and back in buffers of a fixed size |
| `Dsv...Proofs` | theorems of `DsvVar`, `DsvStore`, `DsvServer`, `DsvDevman`, `DsvLifecycle`, `DsvScan`, `DsvInput`; in `DsvTextProofs` those of `DsvSaveFile`, `DsvFileStore` and `DsvArrayText` |
| `MCDsv...` | the instances for TLC |

```
DsvStore <== DsvVar <== DsvServer <== DsvDevman      (<== : implemented by)
DsvStore <== DsvFileStore, which extends DsvSaveFile
DsvFileStore   DsvInput   DsvArrayText               (side by side in MCDsvText)
DsvLifecycle   DsvScan                               (alone)
```

### DsvVar

`gmap` is `g_map`, with `Absent` for names it has not. A value is a sequence of items: the
characters of a string, the elements of an array, one item for any numeric type (the ten
numeric types and booleans differ in width only, which no property here sees). Handles are
addresses: `Vacant` gives a new entry one that no live entry has, so an address of an earlier
process may return. An entry has `hndl`, `flags`, `dirty`, `len` and `val`. `raw` says that
`pArray` points to a plain block: `DSV_Str2Value` makes one, every other user reads a
`std::vector`. `disk` is the file as whole records. `status` is `up`, `down`, `ub` (the process has
done something undefined, and the model lets it end there rather than guess), or `cut`: it ended in
a restore after the file was truncated.

`VarCreate`, `VarSet`, `VarAddItem`, `VarSetItem`, `VarInsItem`, `VarDelItem`, `VarTrack`,
`VarSave` and `VarRestore` are the handlers. `VarMisuse` is any of them on a handle or an array
that makes it undefined, `VarMisindex` an item handler with an index outside the array.
`VarRestoreUndefined` is the restore of an array to be saved, and `VarRestoreAborts` that of an array
whose text is empty: `memdup` asserts. `Shutdown` is the signal (with the save at the end of
`mainloop`), `Crash` and `CrashInRestore` are kills, the former also in the middle of a save, when
the file has what it had and some first records of the pass (`Reached`), and `Start` is the next process.

What is worth knowing of the code and is in the actions: `var_set` of a string leaves `len`
(against `dsv.h:164`); `var_set` of an array takes the length from the entry, not from the message
(against `dsv.h:212`), so `SetValues` lets the missing items be anything; no handler reads the
`len` of a number, so a number has none here; an empty array has no text, so its record holds
anything (`util.cpp:271` promises a text); a save appends only dirty entries with the SAVE flag, in
the order of a hash map; a restore lets the last record of a name win, marks what it touches,
empties the file and saves. After a restart the table is empty until clients have created their
variables again: the sequence save, restart, restore of `README.md:39-41` restores nothing and
empties the file (the comment at `dsv_var.cpp:679` asks for the creates first).

`StoreSpec` says `DsvVar` implements `DsvStore`: `stored` is the last record of each name,
`pending` the entries to be saved, `life` whether the process runs and how it ended. The store tells
two ends apart. An end while the process waits or saves (`End`) loses nothing that was stored: a name
keeps its value or gets its pending one. Only an end in a restore (`EndInRestore`, `life` is `cut`) may lose
stored values, because the code has truncated the file by then. History variables: `issued` (addresses ever given out) and
`written` (names written since they were created, because a create takes the client's dirty byte
as it comes: an entry never written may be clean and unsaved).

### DsvSaveFile

`text` is the file character by character, where a name is one character. `FileSave` and `Record` write
`name=value;` with the value cut to the buffer (`Cut`); `FileRestore`, `ScanRecord` (one round of the loop) and
`RestoreDone` are `var_restore`, with the `int` positions that `find` and `substr` make of `npos`.
`FileKill` ends the process while it waits, after any character of a record, or between the
truncation and the end of the rewriting. `pipes` counts what `get_proc_name` leaves open when the
process that wrote a tracked variable has ended; `MaxPipes` of them exhaust the descriptors, and
saves and restores can no longer open the file. A creator's dirty byte is free (`FileCreate`).
History: `last` (the value the file was made to say
of each name), `sound` (no record in the file is cut and no value in it has a `;`), and `wrote` in an
entry (its mark is the server's own). What the model contains and no property forbids: after a torn
record the next one becomes part of its value; a value with a `;` ends early.

`DsvFileStore` adds the history `held`, the table as requests find it: a restore reads the file record
by record, but no request is served meanwhile, so for the store it is one step, at its end.
`FileIsStore` says that the characters implement `DsvStore`: `stored` is `last`, `pending` the marked
entries to be saved, and a value counts as far as it fits (`Brief`). Excepted are the steps of a restore
that reads a file which is not sound: there the code breaks the promise (`torn_restore`). What was misread
counts as written by the restore, and the steps after it are again those of the store.

### DsvServer

Per client: `front` (writes under way), `subq` (subscriptions under way), `call` (the request it
blocks on), `out` (notifications under way), `cache` (handles), `view` (values last notified).
The server: `subs` and `news` (the XPUB socket: who subscribes, and the first subscriptions it
shows), and `fwdbuf` (what `fwd_buf` holds). Nothing fills `fwd_buf` in a save or a restore, yet it is
sent: that is the forward an earlier message left on the stack or bytes that are no subscriber's topic
(`SendLeftover`), or a length that is none, and then the process may end (`SendGarbage`). `HandleFrontend` (create, set, the four item operations, save, restore),
`HandleBackend` and `HandleReply` (handle, type, length, value, item) are the three branches of
`mainloop`; they use the actions of `DsvVar`. `Process...Item` are the commands of `asv`, and
`HandleNotification` is the subscriber loop of `sv`, which asks for the type of what it was notified
of. The end of a process loses, per connection, any prefix of what was under way to it and any
suffix of what was under way from it (`LoseConnections`); clients stay and reconnect. History:
`told`, and `behind` (names that a restore changed and nobody has written since: a restore forwards
nothing of its own, or the leftover of `fwd_buf`).

All creators of an instance agree on the flags, and none sets the dirty byte. So an array that a
restore left raw was to be saved, and the save at the end of that restore is undefined: no array
is raw when a request reaches it, although `Readable` and `VarMisuse` allow for one.

### DsvDevman

`at` is the next call of each device's script, from `DSV_Open` to the loop over its notifications;
each call is the one of `DsvServer`. `level` is `g_state.log_level`. The creates of a device send a
record that is partly not initialised: `CreateUndefined` is the case where its addresses end the
device. The wait of `DSV_Open` is taken to be long enough. A device whose second lookup overtakes
its create (`find_again`) does not join the list; the model has this behaviour, and `JoinsCounted`
counts the devices that found the list. The JSON files a device may load are `DsvInput` and create nothing here.

### DsvInput

`dsv` is the `dsv_info_t` that all elements of a JSON file, or all options of a command line,
fill. Its pointers are cells: null, a block with its content, or freed. `CreateElement` is one
round of `dsv_ParseJsonStr` with the create and the frees after it, `SkipElement` the `continue` of
a number that does not fit (with the log that prints the name, which may have been freed), `AbortElement` the assertion on the text of an empty array.
`OptionType`, `OptionDesc`, `OptionValue` are rounds of `ProcessOptions` in any order and number,
`ProcessCreate` the command, `DSV_SetThruStr` the value of a set. Reading through a freed pointer,
freeing twice, or taking a number for a pointer ends the client (`fate = "ub"`). Tags are treated
by the code as descriptions are, and are left out.

What the model has and no property forbids: the elements of a file after the first with a `save`
flag are saved too (`dsvs.json` has such elements); a boolean, true or false, is read as the number 0, since
the code takes the `valuedouble` that `cJSON` sets for numbers only (`libdsv.cpp:331`); `sv set` of a string sends the address of the
text instead of the text (`libdsv.cpp:891` passes a `const char *`, which takes the template for
numbers), although `dsv.cpp:155` gives such a command as an example.

### DsvArrayText

`buf` is the output buffer of `DSV_Array2Str` with `Size` bytes, `rc` the bytes counted so far, which go
on growing when the buffer is full. `PrintElement` is one `snprintf`, `EndPrint` replaces the last
comma, `ReadBack` saves and reads it again (`DSV_Str2Array`: `strncpy`, `strtok`, `memdup`).
`doing = "wild"` is memory beyond a buffer, `"abort"` the assertion. An element is its digits.

### DsvLifecycle

`pc` is the place of each server process in `main`, `rc` the sum that `dsv_server_init` makes of its
results, `speaking` whether its actor broadcasts, `speaker` whether `g_state` still points to the actor,
`bound` its ports; `found`, the history of whether its search met a beacon, is read by no action. The second half of a start
runs although the first failed, and each half that fails adds `Failure` to `rc`; the process serves if the sum is 0
(`AfterInit`). The three binds are three steps; a failed one after the first leaves a
process that waits in `zmq_ctx_destroy` for sockets nobody closes (`hung`), where a signal
releases it (`SignalHung`). `unsent` has the servers with messages for a subscriber that does not read:
no socket has `ZMQ_LINGER` set, so such a process does not get past `zmq_ctx_destroy` (`Exit`) before the
subscriber reads or is gone (`Drain`). A search may miss a beacon (datagrams). A server that closes its sockets broadcasts
until its process is gone, since the pointer to its speaker is lost (`dsv_server.cpp:575`).

### DsvScan

`pos` is the place of each created name in the enumeration of `g_map`; a create puts the new
name at any place, and at the sizes in `GrowAt` shuffles all of them (a new bucket array). A
request of a scanner, the handler and the answer are one step, since the scanner blocks and the
handler is atomic. History: `base` (what existed when the scan began), `moved`, `disturbed`,
`twice`.

## The runs

| run | config | instance | shows |
|---|---|---|---|
| `table` | `MCDsvVar` | one array, up to 3 items, 2 handles, 2 records | `LenCoherent`, `IInv` (the formula that is proved), `HandleKept` |
| `store` | `MCDsvVarStore` | a number and a string, 2 handles, 2 records | `CleanIsSaved`, `SavedKept`, the refinement `StoreSpec` |
| `server` | `MCDsvServer` | 1 variable, 2 clients, 5 calls; fair; 91,180 states | `NotifiedIsCurrent`, `TopicTold`, `ChangeIsForwarded`, `RequestAnswered`, `ViewsConverge` |
| `server_life` | `MCDsvServerLife` | 1 variable, 1 client, 2 handles, 5 calls, save, restore, stop, kill, restart, close; 434,000 states | `ServerTypeOK`, `HandlesIssued`, `NotifiedIsCurrent`, `ForwardIsCurrent` |
| `server_file` | `MCDsvServerFile` | 1 array of up to 2 items, 1 client, 5 calls with item operations, reads, save and restore; 247,000 states | the refinement `TableSpec` |
| `devman` | `MCDsvDevman` | 2 devices of one instance that want different levels, device list and log level; 2,232,000 states | `WritesGood`, `JoinsCounted`, `LevelIsCurrent`, `ListOnlyGrows` |
| `lifecycle` | `MCDsvLifecycle` | 3 servers on 2 hosts; fair; deadlock checked; 57,187 states | `LifecycleInv`, `OnePerHost`, `FailuresAddUp`, `RunningIsAnnounced`, `DestroyEnds` |
| `scan` | `MCDsvScan` | 3 names, a reader, a tracker, 3 enumerations, growth at 2; fair | `ScanInv`, `ScanOnce`, `TrackComplete`, `ScanEnds` |
| `text` | `MCDsvText` | `DsvInput`, `DsvFileStore` (2 names, 8 characters) and `DsvArrayText` (5 bytes, 3 items) side by side; 319,000 states | `InputInv`, `ElementAsWritten`, `FlagsFromFile`, `UndefinedOnlyByGap`, `OptionsAsGiven`, `CleanInFile`, the refinement `FileIsStore`, `ScanAdvances`, `RestoreEndsWhole`, `WildIffTooLong`, `TextRoundTrip` |
| `array_restore` | `MCDsvVarArrRestore` | one array | violation of `RestoreDefined`: the restore of an array is undefined (`dsv.h:241`) |
| `late_subscriber` | `MCDsvServerSub` | 2 clients | violation of `SubscriberTold`: a second subscriber is not sent the last value (`dsv_server.cpp:378`) |
| `torn_restore` | `MCDsvTextTorn` | 2 names, a save that is killed | violation of `RestoreEnds`: a file with a cut record makes `var_restore` loop for ever (`dsv.h:241`) |

Runs whose cfg says `CHECK_DEADLOCK FALSE` have bounds (calls, records, characters,
enumerations) that stop the model where the program would go on, or scripts that end.

**Bounds.** `MaxLen` (items of a value): 3 lets an insert and a delete work before, in and after
the middle; in `server_file` 2 is enough for indices inside, at and beyond the end. `MaxDisk`
(records of the file): 2 gives two records of one name, or one of each of two; a save that would
exceed it does not happen. `Handles`: 2 in the table and in `server_life`, so that an address comes back in
another life, or does not; they are symmetric, and so are the two numbers of `server_life` and `server_file`,
which are only compared. The runs that use a symmetry have no liveness property.
`MaxCalls` (library calls of all clients): 5 is a create, two sets, a lookup and one more (a
subscription or a read), in every interleaving; a device makes at most ten calls, so 20 for two devices is no bound.
`MaxScans` (enumerations begun): 3 lets one scanner begin twice beside the other. `GrowAt`: growth
at the second name makes scans with and without a shuffle. Two clients suffice for what is said
of each pair; a third would add queues of the same shape. Three servers on two hosts are
two that compete and one that interferes by its beacon alone. `MaxText` (characters of the
file): 8 holds two whole records with a value of one character, or a cut one between whole ones; a
file that would be longer is not written. To bound the texts, only one of the two names is written, or
marked by its creator, where values may have a `;` and pipes may be left open; where both are written, torn
records alone make the file unsound, and the second name has the empty text only. `MaxPipes`: 1, so the first leak shows what exhaustion does;
the real number is the process's limit. `Size`: 5 bytes hold two elements, are filled exactly by `1,12`
and its terminator, and are overrun by three; `MaxItems` 3 with texts of up to 5 characters
reach both sides of each limit. `Texts` has the empty text, one and two numbers: none,
one and more elements are all the parsers distinguish.

**Fairness.** `mainloop` polls all its sockets and takes one message of each ready one in every
round, and ZeroMQ queues fairly among peers: weak fairness of `HandleBackend`, and per client of
`HandleFrontend`, `HandleReply` and `Accept`. A library call that has its answer returns, and a
subscriber sits in a loop of `DSV_GetNotification` as `devman` and `sv` do: `Return`,
`HandleNotification`. Nothing makes a client call, close or join, and nothing makes a server
stop. A starting or stopping server goes on (`Step`), but nobody has to launch, signal or kill
it; one that is `hung` stays so, and nobody has to read what a server has sent (`Drain`), so `DestroyEnds`
says that a server that is to destroy itself ends, or keeps no port and waits for a peer for ever. A scanner goes on with its loop. `var_restore` is one call of a
running process: `ScanRecord` and `RestoreDone`, and it may still be killed. No other fairness is used.

## What is proved

All theorems hold for every value of the constants and every bound.

`DsvVarProofs`: `Spec => []IInv` (`Invariance`), with `LenStaysCoherent` and `CleanStaysSaved` as
consequences. `CleanIsSaved` is not inductive alone: that a save leaves the right last record needs
the types of the records (`TypeOK`), and the restore of a number relies on its record having one
item (`NumHasOneItem`), which in turn is what keeps `LenCoherent` when an entry is refilled without a
change of `len`; that an array a restore left raw is not to be saved (`RawNotSaved`) is why a later
save has nothing undefined to read. The lemmas are about the last record of a name when records are
appended (`LastOfTail`, `LastOfHead`), what a pass over the table writes (`PassFacts`,
`PassSaves`), and one lemma per action. `HandlesKept` proves the action property `HandleKept` (one
lemma, `KeptStep`, about every action), and `DistinctHandles` that two names never share a handle.
`SavedStays` proves `SavedKept`: a restore marks every entry it touches, so the pass that rewrites the file
writes each of them, and a save only appends (`FileStep`).

`DsvStoreProofs`: `Spec => StoreSpec` (`StoreImplemented`) when no name is an array (`NoArrays`). Each
action of `DsvVar` is a write, a save, a restore, an end or a start of `DsvStore`, or a stutter. The argument
is about files: records that are copies of entries, each name once, change exactly the stored
values of their names (`StoredAfter`), what a pass writes are such copies (`PassCopies`), and so is
any part of it that a kill leaves: appended to a file it loses nothing of it. A restore marks all it touches, so
what a kill after the truncation leaves are values that the store had, stored or pending. Arrays are excluded because the code breaks the
promise for them: an empty one has no text and a restored one is undefined.

`DsvServerProofs`, for any number of clients, calls and variables. Everything rests on `ServerBase`,
the table's invariant, distinct handles and `HandlesIssued` together; `BaseStep` keeps it and makes
every step of the server, its clients and the connections a step of the table or one that leaves it
alone. From it: `ServerKeepsTable` (the refinement `TableSpec`), `ServerKeepsHandles` (`HandleKept`
drawn from it), `OnlyIssuedHandles`, `ServerTyped`. `NotifiedIsCurrent` is inductive only together with
`NotifyInv`: who was told subscribes (`ToldSubscribed`), and what `fwd_buf` holds is an entry as it
stands unless it was restored (`FwdCurrent`), which is what makes a leftover harmless. The argument for a
step: what a client hears last after a forward is appended (`HeardAppend`), after it reads its first
notification, and that a request by handle changes the one entry that is forwarded, because handles
are distinct. `SubscribersAreCurrent` is the invariant; `ForwardsAreCurrent` and `ChangesAreForwarded` are
the action properties about what is put into the queues. `TopicsAreTold` (`TopicTold`) has the hypothesis that no
client closes (`"CLOSE" \notin Ops`), as in the run that checks it: only the first subscription to a topic
makes the server send its value, so when the client that was told closes, those that subscribed after it
are left untold.

`DsvDevmanProofs`: device managers are clients of the server (`DevicesAreClients`), so the theorems
above hold of them. `DeviceInv` says that every handle a device has cached, is answered with or
writes through is that of the entry it means, and that only the device list gets items; with it
`DeviceWritesGood` (`WritesGood`) and `DeviceListGrows` (`ListOnlyGrows`): a `SET` never goes to the
list, a second create changes nothing, and an added item goes to the end. `EveryJoinCounted`
(`JoinsCounted`) needs what each place of the script says about the requests that are on their way
(`ScriptInv`): with it an `ADD_ITEM` of a device that is served takes it out of `OnTheWay` and makes the list
one longer. `LevelsAreCurrent` (`LevelIsCurrent`) follows from what a device has heard last of its level
(`LevelInv`, with the `NotifyInv` of the server): what a device is sent of its log level it has yet to hear until it
listens, and once it listens it has the level it heard last.

`DsvInputProofs`: `RecordSound` (`InputInv`: between two elements a pointer that is not null was given
by one of them, and flags are those of elements that were sent; between two options nothing is
stale), and from it `CompleteElements`, `FlagsOfFile`, `OnlyGaps`, `OptionsOfSv`.

`DsvTextProofs`, the save file: `RestoreMovesOn` (`ScanAdvances`): when the text ends with `;`, every
position before its end has a `;` after it. `CleanIsInFile` (`CleanInFile`) and `RestoreBringsLast`
(`RestoredIsLast`) rest on `FileIInv`: a sound text is made of records, one at the beginning and one after each `;`,
and `last` is what the last record of each name says (`SoundText`, kept by every record that is appended);
while a restore reads it, its position is at the start of a record and every created entry is what the records
before the position make it (`ScanSays`). `FileImplementsStore`: `HeldSpec => FileIsStore`. Its invariant
`HeldInv` adds that between requests `held` is the table, that what was written fits the buffer, and that a
restore of a sound file has left alone the entries of which there is no record; each action is then a create,
a write, a save, a restore or an end of the store, or a stutter. `RestoredIsLast` says the same of a
restore without the cut to the buffer; it has no run of its own.

`DsvTextProofs`, arrays: `WildOnlyTooLong` (`WildIffTooLong`) and `TextComesBack` (`TextRoundTrip`) rest on
`ArrIInv`: while an array is printed, `rc` is what its elements so far need and their bytes are in their
places as far as the buffer goes (`Printing`), which the `Nul` over the last comma turns into the text of the array
(`HasText`); what `strtok` finds in that text is the array, by induction over the elements and over the
characters of each (`ElementFound`, `TokensBack`). The inductions are on sets of numbers (a set that
has 0 and with each number the next is `Nat`, `AllNumbers`), which stays within first-order reasoning.

`DsvLifecycleProofs`: `Spec => []LifecycleInv` for any number of servers and hosts, and from it
`OnePerHost`, `FailuresAddUp` (`FailuresKeepOut`) and `RunningIsAnnounced`. The invariant says that ports of a host
are exclusive, what each place implies, and what `rc` says of the steps so far (`ResultOK`: it is at most 0, and 0 only if no
beacon was heard and every port tried is bound; with failures of both signs the sum could cancel). Exclusiveness is what makes
`OnePerHost` inductive.

`DsvScanProofs`: `Spec => []ScanInv` for any finite set of names and any scanners; from it
`ScanComplete`, `TrackComplete` and, with what was seen being behind the index as long as nothing was created
(`SeenBehind`), `ScanOnce`. The argument: the rank of a match among the matches only
grows while the order is kept (`RankGrows`), ranks leave no gap (the lemma `RankOnto`), so whatever was not
given yet is ahead of the index, and a search that finds nothing has nothing ahead.

The assumptions are those named in the modules (`ConstantsAssumption`, `AbsentAssumption`,
`ServerAssumption`, `DevmanAssumption`, `HostAssumption`, `ScanAssumption`, `InputAssumption`,
`FileAssumption`, `ArrayTextAssumption`); TLC evaluates them in the runs.

**Only model-checked.** The liveness properties (`RequestAnswered`, `ViewsConverge`, `DestroyEnds`, `ScanEnds`,
`RestoreEndsWhole`), which are out of the prover's reach: it has no rule for fairness. Every other property of
the passing runs is a theorem.

## What is left out, and what is simplified

- The type of a name is fixed by its creators (`TypeOf`), and so are its flags in `DsvServer`;
  clients that create one name with two types are not modelled.
- Records of the file are whole in `DsvVar`; `DsvSaveFile` has the cut ones, for values that are texts.
- Undefined behaviour ends the process (`status = "ub"`, `fate = "ub"`, `doing = "wild"`).
- Number formats and the bases of integers (a JSON text is read with base 0, a set with base 10),
  time stamps, process ids, and the name `instID` puts before a variable's own.
- A JSON file is a list of objects that `cJSON` has parsed; that the buffer it parses is not
  terminated (`libdsv.cpp:230`) is not modelled.
- Reads that only print: `DSV_GetThruStr` (which writes eight bytes into the variables of the
  smaller types, `libdsv.cpp:1290`), `DSV_PrintArray`, `DSV_Print`. `DSV_Len` and `DSV_Type` return
  `EFAULT` for a failed request, also a valid length or type, where the comments before them
  promise -1; no request of theirs fails here.
- `DSV_Create` copies names and descriptions with `strncpy` into 128 bytes (`libdsv.cpp:641-651`), which leaves
  longer ones without an end; the texts of the model are shorter.
- The byte that `DSV_Array2Str` writes before its buffer for an empty array (`util.cpp:302`) ends `DsvArrayText`
  (`WildIffTooLong`). In `DsvVar` it hits nothing: a save, and a write that prints the value of a tracked
  array, go on.
- A request by a handle of a server that is gone ends the server in the model (`VarMisuse`, `HandleReplyUndefined`);
  that clients make such requests is what the code allows, and no property forbids it.
- The log: whether a line is printed (`dsv_log.cpp:86` tests a priority as if it were a mask) has no
  effect on the state, except that a line that prints a freed name is undefined (`SkipElement`).
- `JoinsCounted` counts devices that found the list: one whose lookup came before its create
  was served stays unlisted until it is started again.
- A second destruction of the ZeroMQ context after a failed start changes nothing and is skipped.
- Two servers on two hosts that miss each other's beacons both serve, contrary to the comment at
  `dsv_server.cpp:546`; the model contains these behaviours and no property forbids them.

## Plan

Done: `DsvVar` with `DsvStore`, `DsvServer`, `DsvLifecycle`, `DsvScan`, `DsvDevman`, `DsvInput`, `DsvSaveFile` with `DsvFileStore`,
`DsvArrayText`, and the proofs listed above.

Worth doing next:

1. Two clients that create one name with two types, which makes `TypeOf` a part of the entry.
2. Devices that restart, and devices of several instances together with the JSON files they load.
