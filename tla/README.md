# TLA+ models of the fastocloud load balancer

The models here check the subscriber-facing control plane of the load balancer under `src/`:

- the registry of connected subscribers;
- the logins of the two service loops;
- catchup creation;
- stream resolution;
- the document decoder;
- the daemon control loop.

Every module is translated from the C++ source. `PROJECT.json` maps each definition to the lines it stands for.

## 1. The system

`ProcessSlaveWrapper::Exec` (`src/process_slave_wrapper.cpp:97-153`) runs three libev loops, each on its own thread:

| loop | source | clients |
|---|---|---|
| subscriber protocol | `src/subscribers/handler.cpp` | JSON-RPC clients: `CLIENT_LOGIN`, `CLIENT_GET_RUNTIME_CHANNEL_INFO`, catalogue, preferences, catchups |
| HTTP | `src/http/handler.cpp` | players fetching `/uid/password/device/sid/cid/file`, logged in from the path |
| daemon control | `src/process_slave_wrapper.cpp`, `src/daemon/*` | the panel: stop, ping, activate, catchup-created broadcasts |

Each loop runs one callback at a time. The first two loops share one `mongo::SubscribersManager` (`src/mongo/subscribers_manager.cpp`), which owns:

- **the Session Registry**: `connections_`, a map from user id to a vector of client pointers, guarded by `connections_mutex_`. A client (`base::SubscriberInfo`) carries its login (`login_`) and the stream it watches (`current_stream_id_`). Neither field is guarded.
- **the store adapter**: libmongoc handles for the `subscribers`, `servers` and `streams` collections. Every store call is synchronous, on the calling loop's thread.

### Components, their state and operations

| component | state | operations (source) |
|---|---|---|
| Session Registry | `connections_`, `login_`, `current_stream_id_` | `RegisterInnerConnectionByHost` 418-430, `UnRegisterInnerConnectionByHost` 432-460, `CheckIsLoginClient` 462-474, `GetAndUpdateOnlineUserByStreamID` 476-488 |
| Authentication | `devices[].status` of the subscriber document | `ClientActivate` 490-571, `ClientLogin` 573-663, `ClientLoginImpl` 665-760 |
| Catalogue | the user's `streams`/`vods`/`catchups` arrays | `ClientGetChannels` 762-928 |
| Stream Resolution | the association arrays, stream documents, the filesystem | `ClientFindHttpDirectoryOrUrlForChannel` 930-1152 |
| Preferences | positional elements of the association arrays | `SetFavorite`/`SetRecent`/`SetInterruptTime` 1154-1342 |
| Associations | the association arrays | `Add/RemoveUser{Stream,Vod,Catchup}` 1533-1693 |
| Catchup Synthesis | stream documents, their `parts`, server `streams` arrays | `CreateCatchup` 1502-1531, `CreateOrFindCatchup` 1695-1893, `CreateCatchupOutputUrl` 176-214 |
| Stream Record Decoder | none (pure) | `MakeVodInfo`, `MakeCatchupInfo`, `MakeChannelInfo`, `GetOutputUrlData` (`src/mongo/mongo2info.cpp`) |
| Object ids | none (pure) | `ConvertToString`/`ConvertFromString` (`mongo2info.cpp:537-553`) |

### How they interact

Both service loops log clients in through `ClientLoginImpl`. Its device-limit check reads the registry under the mutex. Both loops then register the client in a second critical section.

- The subscriber loop reads the registry to count watchers.
- The HTTP loop writes `current_stream_id_` of its clients; the subscriber loop reads it in that count.
- Catchup creation goes through `FindStream` and the decoder. It writes three collections in sequence, then adds the catchup to the user's catchups array.

### What is hard here

- **Two threads on one registry.** The login check and the registration are not atomic. Login fields are written outside the lock.
- **Protocol sequences nobody tests.** Nothing stops a second `CLIENT_LOGIN` on a logged-in connection, and unregistration uses only the *current* login.
- **Multi-step store writes without a transaction.** In catchup creation, a write can fail after the insert. `AddUserCatchup` pushes again for a catchup that was found, not created.
- **A field walk that stops early.** The decoders stop at a checksum of the fields they found, so the placement of a field in a document decides whether it is read. This matters for the `parts` list that catchup deduplication depends on.
- **URL rewriting.** For non-proxy sources, the catchup paths are derived from the source's paths, not from the new catchup id.

## 2. Modules

| module | models | status |
|---|---|---|
| `SessionRegistry` | the registry and the login, watch and close steps of both loops, with `ClientLoginImpl`'s user and device checks | done |
| `MCSessionRegistry` | model values and symmetry for TLC | done |
| `CatchupSynthesis` | `HandleRequestGenerateCatchup`/`UndoCatchup` with `CreateOrFindCatchup` and store write failures; `SetFavorite`/`SetRecent`/`SetInterruptTime` on a catchup and the catchups listed by `ClientGetChannels` | done |
| `MCCatchupSynthesis` | model values for TLC | done |
| `StreamDecoder` | the checksum field walk of the three decoders, one loop iteration per step, over every field order, against the checklist of spec §3/§4.3 | done |
| `MCStreamDecoder` | four counted keys for TLC | done |
| `StreamResolution` | `ClientFindHttpDirectoryOrUrlForChannel` and the rest of `HttpHandler::ProcessReceived`, each read a step, interleaved with catchup add/undo, directory churn and stream deletion | done |
| `MCStreamResolution` | six streams, two outputs, the directories that may exist | done |
| `DaemonControl` | `ProcessSlaveWrapper`'s daemon loop: request dispatch, stop, ping, the ping timer, the `CatchupCreated` broadcast | done |
| `MCDaemonControl` | two daemon connections and one catchup for TLC | done |

`CatchupSynthesis` abstracts the decoder of `StreamDecoder` to one flag per source, `PartsVisible`: whether the walk reaches `parts` before the checksum is complete (the `decoder` run shows the walk stops there). `StreamResolution` takes the decoders' outcome as given and models only which output entries `GetOutputUrlData` keeps. The user-level checks of `ClientLoginImpl` are part of `SessionRegistry`, and the preference setters are part of `CatchupSynthesis`, because both act on state those modules already hold.

### SessionRegistry: state and actions

| variable | code |
|---|---|
| `conn[s]` | the client object: `"new"` before `Accepted`, `"open"`, `"closed"` after `Close()`+`delete` |
| `login[s]`, `curStream[s]` | `SubscriberInfo::login_`, `current_stream_id_` (the login reduced to user and device id) |
| `connections[u]` | `connections_[u]` (an absent key is `<<>>`) |
| `devStatus[u][d]` | `devices.$.status` in the subscribers collection |
| `subBusy`, `httpBusy` | a login a loop has checked and not yet registered (the callback is still running) |
| `finishing` | the HTTP client whose request reached `finish:` without keep-alive, registered and served but not yet closed |
| `answered[s]` | the watcher count last sent to subscriber client `s` |

Each action is one whole callback of a loop, except where the other thread can act between two critical sections. A login is split between the device check and the registration. An HTTP request that is not keep-alive is split between its registration and serving and the close at `finish:`, where the subscriber loop may count or scan the entry before `HttpHandler::Closed` erases it:

- `SubLoginCheck`/`SubLoginFinish`, and `HttpLoginCheck`/`HttpLoginFinish`;
- `Accept`;
- `Close`: a subscriber client closed after a read error, a failed ping or an unauthenticated request, with `SubscribersHandler::Closed` (`UnRegisterInnerConnectionByHost`);
- `HttpClose`: an HTTP client closed on a read error or EOF (`HttpHandler::DataReceived`), or after a request that failed before any login; it and `HttpFinish`, the close at `finish:` of a request that is not keep-alive (`HttpFinishing` chooses), go through `HttpClosed`, the model of `HttpHandler::Closed`;
- `SubWatch`: runtime channel info, which is the count plus `SetCurrentStreamID`;
- `HttpServe`: a request on a logged-in HTTP connection, up to `finish:`.

`SubLoginCheck` and `HttpLoginCheck` call `ClientLogin(u, d, pwOK)`, the two `ClientLogin` overloads, which find the user and follow `ClientLoginImpl` in order:

- `UserLoginOK(u)`: the document's `status` (constant `UserStatus`) is neither `USER_NOT_ACTIVE` nor `USER_DELETED`, as `ClientLoginImpl` tests it (any other int32 passes), and `exp_date` has not passed (`u` not in the constant `Expired`);
- the password: a nondeterministic `pwOK`, since the hash comparison tells nothing else apart;
- `DeviceLoginOK(u, d)`: the device loop (present, not banned, under the limit), then `ActivateDevice`, whose `$set` may fail.

`CheckIsLoginClient(s)` is the test every other request starts with. A rejected `CLIENT_LOGIN` is answered and leaves the connection open, so on the subscriber loop it changes no modelled state. A rejected HTTP login answers 404 and goes to the request's finish. `CLIENT_ACTIVATE_DEVICE` (`ClientActivate`) only reads the store and answers, so it is not a step.

### CatchupSynthesis: state and actions

| variable | code |
|---|---|
| `docs[c]` | the catchup document `_id c` in `streams`: source, name, window (start/stop), output `http_root` as path segments |
| `parts[s]` | the `parts` array of source `s` |
| `serverStreams` | catchup ids `$push`ed to the hosting server's `streams` |
| `userCatchups[u]` | the `catchups` array of subscriber `u`, each element its `sid` and its preferences `pref` (the fields in the constant `PrefFields`) |
| `announced` | catchups sent to the daemon by the `CatchupCreated` observer |
| `reply[u]`, `firstReply[q]` | the last `CatchupGenerateSuccess` to `u`; the first successful reply to request `q` (a history variable) |

Both handlers run only on the subscriber loop. Each request is therefore one step:

- `GenerateFound`: deduplication hit, then `AddUserCatchup`.
- `GenerateNew`: `CreateOrFindCatchup`'s writes followed by the handler's. Up to four writes succeed in order (insert, parts, server, user); the first failure ends the step.
- `Undo`: `HandleRequestUndoCatchup`, whose `RemoveUserCatchup` is a `$pull`.
- `SetPreference(u, c, f, v)`: the three preference handlers on a catchup. The manager's `PositionalSet`, a positional `$set` on `catchups.$.<f>` changes the first element with that sid.

`Catalogue(u)` is the catchups part of `ClientGetChannels`: every element whose document still exists, with its preferences.

`PartsVisible[s]` says whether `MakeChannelInfo` reaches the source's `parts` field before its nine counted fields are complete. `FindStream` hands `CreateOrFindCatchup` only what the decoder read.

### StreamDecoder: state and actions

`MakeVodInfo`, `MakeCatchupInfo` and `MakeChannelInfo` differ only in:

- the fields they count;
- the stream type, if any, that they accept with `check_sum == CHECK_SUM - 2`.

All nine to fifteen counted branches have one shape: test the BSON type and return false on a mismatch, then `check_sum++`. The model therefore takes four counted keys, with `CHECK_SUM == 4`:

- `id` and `name`, which every type needs;
- `logo` and `output`, the pair spec §3 exempts for proxies.

A document is any order of distinct keys, with `parts` among them. Each key holds the right or the wrong BSON type. There are 6,331 documents. The `decoder` run walks them with `MakeCatchupInfo`, which has no relaxed type. `decoder_proxy` walks them with `MakeChannelInfo` and `MakeVodInfo`, over relay and proxy types. The relaxed types cannot join the pass run, because their relaxed check is the disagreement that run finds.

| variable | code |
|---|---|
| `dec`, `st`, `doc` | the function called, its `st` argument, `sdoc` |
| `pos`, `checkSum`, `read`, `partsRead` | the iterator, `check_sum`, the fields decoded, `parts` filled |
| `result` | the return value |

The steps are:

- `Walk`: one iteration of the `while` loop.
- `Finish`: the test after the loop.

### StreamResolution: state and actions

An HTTP request `/uid/password/device/sid/cid/file` reads three things at three different times, with no lock or snapshot:

- the subscriber document;
- the stream document;
- the filesystem.

| variable | code |
|---|---|
| `assoc` | the user's `streams`, `vods` and `catchups` arrays in `subscribers` |
| `streamDocs` | the stream ids with a document in `streams` |
| `dirs` | the `<<sid, cid>>` whose `http_root` directory exists |
| `req` | where the request is, and what it has read so far |
| `answer` | the last answer sent, with what its request read |
| `watching` | the client's `current_stream_id_` |

The steps are:

- `Request`: reads and scans the user document. The scan order is streams, vods, catchups; the first match wins. No match answers "Stream not found".
- `ReadStream`: finds the stream document and its `_cls`, then takes the per-array proxy test. It then checks the output entry that `GetOutputUrlData` keeps.
- `CheckDir`: `is_directory_exist`. It continues to the file, or falls back to the url of the same output.
- `ServeFile`: stats the file. It sends the file or answers "File not found". A sent file or redirect sets `current_stream_id_`.

The other loops act concurrently:

- `AddCatchup` and `UndoCatchup`: the subscriber loop's `$push` and `$pull`.
- `ToggleDir`: a stream process creates or removes its directory.
- `DeleteStream`: the panel deletes a stream document.

`SpecResolve` is spec §4.4's `resolve`, written from the spec's text. `ResolvesAsSpecified` compares each answer with it.

### DaemonControl: state and actions

The daemon loop reads one JSON-RPC command per `DataReceived` callback, on its own thread. A request is abstracted to its method and one flag, `licensed`. For stop, the flag says the params carry the configured license key. For activate, it says `GetExpireTimeFromKey` accepts the key. A command that cannot be read or parsed is `"garbage"`; it, and a peer's EOF, close the client. Each daemon's requests are kept as an append-only sequence with a read index, so a property can ask about every request ever sent.

| variable | code |
|---|---|
| `dconn[c]`, `verified[c]` | the `ProtocoledDaemonClient` and its `IsVerified()` |
| `sent[c]`, `nread[c]`, `answered[c]` | what the daemon wrote, what the loop read, which requests got a response |
| `pings[c]` | server `DAEMON_SERVER_PING` requests awaiting `PopRequestByID` |
| `running` | `loop_` not stopped (a stop also stops the other two loops) |
| `tasks`, `created`, `delivered[c]` | `ExecInLoopThread` closures, catchups reported by `CatchupCreated`, notifications written to `c` |

The steps:

- `Accept`;
- `Send`: the daemon side;
- `StopMe`: `SendStopDaemonRequest`, a second instance writing a licensed stop and closing;
- `DataReceived`: the handlers `HandleRequestServiceCommand`, `HandleRequestClientStopService`, `HandleRequestClientPingService` and `HandleResponceServiceCommand`;
- `TimerEmited`: ping every verified client;
- `CatchupCreated`;
- `BroadcastClients`.

An error a handler returns is only logged by `DaemonDataReceived`, so a refused request stays unanswered.

**Fairness:** weak fairness of `DataReceived` for each client and of `BroadcastClients`. Each is one callback of the loop in `Exec` that waits on nothing. Even so, `daemon_activate` finds an activate request that is read and never answered. Its counterexample has 5 states out of about 31,000. The bounds are two daemons, up to two requests each and one catchup. No symmetry is used, because the property is a liveness property.

## 3. Runs

| run | cfg | expect | shows |
|---|---|---|---|
| `registry` | `SessionRegistry.cfg` | pass | With one login per connection: (1) `RegistryMatchesLogins`: each vector of `connections_` holds exactly the open connections logged in as that user, each once. This includes the HTTP loop's window between registering a client and closing it at `finish:`, and a failed `LoginSuccess` write. (2) `WatcherCountExact`: the count a client is told is the number of live registered watchers, whatever the HTTP loop did. |
| `registry_relogin` | `SessionRegistryRelogin.cfg` | violation | `NoDanglingRegistration`: a second `CLIENT_LOGIN` as another user, then a close, leaves the deleted client in the first user's vector (a use-after-free in the next count or login) |
| `registry_device_race` | `SessionRegistryDeviceRace.cfg` | violation | `OneSessionPerDevice`: the two loops both pass the device-limit check for (u1, d1) and both register |
| `catchup` | `CatchupSynthesis.cfg` | pass | `IdempotentCreateOrFind`: with any write failing, every successful reply to a request names the catchup its first successful reply named. An orphaned insert is never handed out. |
| `catchup_parts_hidden` | `CatchupPartsHidden.cfg` | violation | `IdempotentCreateOrFind`: when the source's `parts` field comes after the counted fields, every repeated request creates a new catchup |
| `catchup_incomplete` | `CatchupIncomplete.cfg` | violation | `UserCatchupsComplete`: a catchup whose server link failed is later handed out as found. No server lists it and no broadcast was sent. |
| `catchup_user_dup` | `CatchupUserDup.cfg` | violation | `PreferencesShownConsistently`: a repeated request pushes the catchup into the user's array again; a preference setter then changes the first copy only, and the catalogue lists the catchup twice with different preferences |
| `resolution` | `StreamResolution.cfg` | pass | `ResolvesAsSpecified`: every answer of the HTTP loop is spec §4.4's resolution of what the request read (subscriber document, stream document, directory), while catchups are added and undone, directories appear and vanish and stream documents are deleted between the reads. Proxies get only redirects, even beside a directory of the same name. |
| `catchup_roots` | `CatchupRoots.cfg` | violation | `DistinctCatchupRoots`: two catchups of one relay source share an `http_root` |
| `decoder` | `StreamDecoder.cfg` | pass | Without a relaxed type, the walk is the checklist. `AcceptedIsComplete`: an accepted document has every counted field, each of the right type. `CompleteIsAccepted`: a valid document is never rejected, whatever its field order. |
| `decoder_proxy` | `DecoderProxy.cfg` | violation | `ProxyExemptionExact`: with the channel decoder (PROXY) and the VOD decoder (VOD_PROXY), the relaxed check accepts a proxy document lacking any two counted fields, for instance `<<id, logo>>` without name and output. The opposite also happens: a proxy document lacking only `output` is rejected. |
| `daemon_activate` | `DaemonActivate.cfg` | violation | `ActivateAnswered`: a daemon's `DAEMON_ACTIVATE`, even with a valid key, is read and never answered. No client can be verified. |

**Bounds:**

- 5 users and 2 devices. u1 has one not-active and one active device; u2 has one active and one banned device; u3 is active but expired, and its device d1 is not active; u4 is `USER_NOT_ACTIVE` and u5 `USER_DELETED`, so every rejection of `ClientLoginImpl` is taken. A rejected user adds transitions and no states.
- 2 subscriber connections, which are symmetric.
- 1 HTTP connection and 2 streams. A second HTTP connection adds only a second copy of the first loop's interleavings with the subscriber loop, and takes the run past five minutes.
- `MaxEntries = 3`, which never binds without relogin.

These bounds are enough to reach both bugs:

- a concurrent login on each loop;
- a relogin as a second user;
- activation of a not-active device and a banned device;
- a watcher count or a device scan taken while the HTTP loop has registered a client it is about to close.

With two streams, the HTTP loop can change its stream between counts. The pass run reaches about 97,000 distinct states in under half a minute and covers every action.

**Catchup bounds:**

- 2 users and 2 sources: a relay source `a` and a proxy source `b`. u1 may use both sources; u2 may use only `a`.
- 1 title, 2 windows and 3 catchup ids, with the ids symmetric.
- At most 2 entries in a user's catchups array.
- `PrefFields = {"favorite"}` in the pass run (all three setters have one shape; three preference flags per element multiply the state space beyond TLC's reach in minutes) and all three in `catchup_user_dup`.

These bounds allow:

- two catchups of one source;
- a repeated request, by the same user and by another user;
- a failure at each of the four writes, followed by a retry.

The pass run reaches about 640,000 distinct states.

**Resolution bounds:** six streams, one per array and class that matters: a relay with two outputs, a channel proxy, a VOD proxy, a VOD relay whose first `c0` entry is incomplete, a catchup the subscriber loop may add, and a stream whose class is unreadable. Directories may exist for five `<<sid, cid>>` pairs, including the proxies' (a proxy with a directory must still get a redirect). The catchup document may be deleted (`Deletable`); the relay's deletion adds only more of the same stale reads and doubles the run. This reaches every answer of the handler, a deletion, undo or directory change between each pair of reads, and about 585,000 distinct states in about half a minute. Deadlock is checked: the HTTP loop can always take a new request.

**Deadlock** is not checked. With finitely many connections, the model ends when all of them are closed. The real loops wait for new ones.

**Fairness:** only `DaemonControl` (above) assumes any. `StreamResolution` states no liveness: `ProcessReceived` runs from the read of the request to the answer in one synchronous callback, so every stage is enabled until taken and a property that a read request is answered would hold by the model's shape. The libev loops give no fairness between clients beyond the OS's, so the registry and catchup runs state no liveness either.

## 4. Findings

See `findings` in `PROJECT.json`.

- **Relogin leaves a dangling registration** (`subscribers/handler.cpp:290`). The client is registered again on every `CLIENT_LOGIN`, and unregistration erases one entry under the current login only.
- **The device limit is not enforced across the two loops** (`subscribers_manager.cpp:723`). The device-limit check and the insertion are separate critical sections.
- **Catchup deduplication depends on field order** (`mongo2info.cpp:330`). The decoder's early exit hides a `parts` field that was appended by the first `$push`.
- **Half-created catchups are handed out** (`subscribers_manager.cpp:1881`). After a failed server link, a later request returns the catchup as found.
- **Repeated catchup requests duplicate the user's array entry** (`subscribers/handler.cpp:548`). A favorite then set reaches only the first copy, and the catalogue shows the catchup twice with different flags.
- **Catchups of one non-proxy source share a directory** (`subscribers_manager.cpp:203`).
- **The proxy exemption is a count, not a set of fields** (`mongo2info.cpp:407`, and line 171 for VOD). Any two missing fields pass; a single missing exempt field fails.
- **The daemon loop never handles activation** (`process_slave_wrapper.cpp:423`). `HandleRequestServiceCommand` dispatches stop and ping only. `HandleRequestClientActivate`, the only caller of `SetVerified`, is never called. No daemon is ever verified, so:
  - its pings are refused without a reply;
  - the ping timer pings nobody;
  - every `CatchupCreated` broadcast reaches nobody.

One disagreement is modelled and listed as a hazard without a run. Created and found replies differ (`subscribers_manager.cpp:1705`): `Reply` carries the source's parts for a created catchup and an empty list for a found one, while spec §8 says the second call returns the same record.

## 5. Not modelled

- **libmongoc connection handling** (`ConnectToDatabase`, `Disconnect`) is I/O. Store write failures are modelled instead as nondeterministic outcomes of the writes.
- **`config.cpp`** is input parsing with no state a property tells apart.
- **`HandleRequestClientActivate`** and the daemon's `ActivateSuccess`/`ActivateFail` are unreachable (see the findings), so they are not steps.
- **JSON-RPC framing and HTTP parsing** are taken as given: a request reaches its handler or the connection is closed.
- **Object id conversion** (`ConvertFromString`, `mongo2info.cpp:543`) wraps libbson's `bson_oid_init_from_string`, which is outside this repository and does not validate its input. The wrapper rejects only the empty string. This is listed as a hazard.
- **`AddUserStream`/`RemoveUserStream`/`AddUserVod`/`RemoveUserVod`** (`subscribers_manager.cpp:1533-1636`) have no caller in this repository. (`AddUserStream` pushes the user's id where the stream id is meant.) The preference setters on the `streams` and `vods` arrays have the catchup setters' shape.
- **`ClientActivate`, `CLIENT_PING` and the streams/vods part of `ClientGetChannels`** only read and answer.
- **The `auto_exit` arithmetic** (`subscribers_manager.cpp:1850`): catchup windows are model values, so a reversed window is not represented. The run budget of twelve is spent on the questions above.
- **Data races on `login_` and `current_stream_id_`** are modelled as atomic writes. A torn `std::string` read has no meaning a model can check.
