--------------------------- MODULE SessionRegistry ---------------------------
(***************************************************************************)
(* The registry of logged-in connections kept by mongo::SubscribersManager *)
(* (connections_, guarded by connections_mutex_) and the two libev loops   *)
(* that drive it from their own threads:                                   *)
(*   - the subscriber-protocol loop (src/subscribers/handler.cpp), whose   *)
(*     clients log in with CLIENT_LOGIN and then ask for runtime info;     *)
(*   - the HTTP loop (src/http/handler.cpp), whose clients log in with the *)
(*     uid/password/device tokens of the first request's path.            *)
(* Each loop runs one callback at a time, so a step of a loop is a whole   *)
(* callback, except that a login is split where the two threads can        *)
(* interleave: between the device check of ClientLoginImpl (under the      *)
(* mutex) and the push_back of RegisterInnerConnectionByHost (under the    *)
(* mutex again).  subBusy / httpBusy hold the login a loop has checked and *)
(* not yet registered.                                                     *)
(*                                                                         *)
(* Store data is abstracted to what the registry depends on: the status,  *)
(* expiry and devices of each user and the status of each device.  A       *)
(* rejected CLIENT_LOGIN is answered and leaves the connection open; a    *)
(* rejected HTTP login ends at the "finish" label.  The close at "finish"  *)
(* of a request that is not keep-alive is a step of its own (finishing):   *)
(* the HTTP loop has registered and served the client by then, and the     *)
(* subscriber loop may read connections_ before the Closed callback erases *)
(* it.  CLIENT_ACTIVATE_DEVICE (ClientActivate) only reads the store       *)
(* and answers, so it is no step here.                                     *)
(***************************************************************************)
EXTENDS Naturals, Sequences, FiniteSets, SequencesExt

CONSTANTS
  Users,             \* user ids (_id of documents of the subscribers collection)
  Devices,           \* device ids
  SubSessions,       \* SubscriberClient objects of the subscriber loop
  HttpSessions,      \* HttpClient objects of the HTTP loop
  Streams,           \* stream ids a client may ask for
  NoLogin,           \* an empty SubscriberInfo::login_
  NoStream,          \* fastotv::invalid_stream_id
  UserStatus,        \* UserStatus[u]: the int32 "status" field of u's document
  Expired,           \* the users whose exp_date is before the current time
  UserDevices,       \* UserDevices[u]: the _id's of the "devices" array of u
  InitDeviceStatus,  \* InitDeviceStatus[u][d]: its "status" field, if any
  ClientsMayRelogin, \* does a client send CLIENT_LOGIN on a logged-in connection
  MaxEntries         \* bound on the length of one connections_ vector

ASSUME MaxEntries \in Nat \ {0}

Sessions == SubSessions \cup HttpSessions

\* enum DeviceStatus of subscribers_manager.cpp, and a device without "status".
DEVICE_NOT_ACTIVE == 0
DEVICE_ACTIVE == 1
DEVICE_BANNED == 2
NO_STATUS == 3
DeviceStatuses == {DEVICE_NOT_ACTIVE, DEVICE_ACTIVE, DEVICE_BANNED, NO_STATUS}

\* enum UserStatus, and a document without "status".
USER_NOT_ACTIVE == 0
USER_ACTIVE == 1
USER_DELETED == 2

\* base::ServerDBAuthInfo, reduced to the user id and the device id.
Claims == [uid : Users, dev : Devices]

VARIABLES
  conn,         \* conn[s]: "new" (not yet accepted), "open", "closed" (deleted)
  login,        \* login[s]: SubscriberInfo::login_
  curStream,    \* curStream[s]: SubscriberInfo::current_stream_id_
  connections,  \* connections_[u] (an absent key is the empty vector)
  devStatus,    \* devices.$.status of each user in the store
  subBusy,      \* {} or the one login the subscriber loop checked, not registered
  httpBusy,     \* {} or the one login the HTTP loop checked, not registered
  finishing,    \* {} or the HTTP client the loop will close at "finish"
  answered      \* answered[s]: the watcher count last sent to subscriber client s

vars == <<conn, login, curStream, connections, devStatus, subBusy, httpBusy, finishing, answered>>

TypeOK ==
  /\ conn \in [Sessions -> {"new", "open", "closed"}]
  /\ login \in [Sessions -> Claims \cup {NoLogin}]
  /\ curStream \in [Sessions -> Streams \cup {NoStream}]
  /\ connections \in [Users -> Seq(Sessions)]
  /\ devStatus \in [Users -> [Devices -> DeviceStatuses]]
  /\ subBusy \subseteq [s : SubSessions, claim : Claims]
  /\ httpBusy \subseteq [s : HttpSessions, claim : Claims]
  /\ finishing \subseteq HttpSessions
  /\ Cardinality(subBusy) <= 1 /\ Cardinality(httpBusy) <= 1 /\ Cardinality(finishing) <= 1
  /\ answered \in [SubSessions -> Nat]

Init ==
  /\ conn = [s \in Sessions |-> "new"]
  /\ login = [s \in Sessions |-> NoLogin]
  /\ curStream = [s \in Sessions |-> NoStream]
  /\ connections = [u \in Users |-> <<>>]
  /\ devStatus = InitDeviceStatus
  /\ subBusy = {}
  /\ httpBusy = {}
  /\ finishing = {}
  /\ answered = [s \in SubSessions |-> 0]

-----------------------------------------------------------------------------
(* SubscribersManager operations on the registry.                          *)

\* The scan of connections_[uid] in ClientLoginImpl: some registered
\* connection carries a login with the same device id ("Limit connection
\* reject").  Only the device id is compared, as in the code.
DeviceInUse(u, d) ==
  \E i \in 1..Len(connections[u]) :
    LET c == connections[u][i] IN login[c] # NoLogin /\ login[c].dev = d

\* The user part of ClientLoginImpl succeeds: the status is neither
\* USER_NOT_ACTIVE nor USER_DELETED (any other int32 passes) and the
\* account has not expired (the password is the client's).
UserLoginOK(u) == UserStatus[u] \notin {USER_NOT_ACTIVE, USER_DELETED} /\ u \notin Expired

\* The device part of ClientLoginImpl succeeds: the device is in the
\* user's array, has a status, is not banned and is not in use.
DeviceLoginOK(u, d) ==
  /\ d \in UserDevices[u]
  /\ devStatus[u][d] \notin {DEVICE_BANNED, NO_STATUS}
  /\ ~DeviceInUse(u, d)

\* The $set of devices.$.status to DEVICE_ACTIVE for a not active device;
\* a failed update is only logged.
ActivateDevice(u, d) ==
  \/ devStatus[u][d] # DEVICE_NOT_ACTIVE /\ UNCHANGED devStatus
  \/ /\ devStatus[u][d] = DEVICE_NOT_ACTIVE
     /\ devStatus' \in {devStatus, [devStatus EXCEPT ![u][d] = DEVICE_ACTIVE]}

\* ClientLogin(AuthInfo) (the subscriber loop; the user is found by email)
\* and ClientLogin(uid, password, device) (the HTTP loop; found by _id): a
\* user that is not found fails, otherwise ClientLoginImpl runs the user
\* checks, the password hash comparison (pwOK) and the device loop.
ClientLogin(u, d, pwOK) == pwOK /\ UserLoginOK(u) /\ DeviceLoginOK(u, d)

\* CheckIsLoginClient: the client has a login_.
CheckIsLoginClient(s) == login[s] # NoLogin

\* Mutation of Register: the user id is pushed instead of the client (the
\* slip made in AddUserStream, subscribers_manager.cpp:1579).
RegisterPushesUserID(s, c) ==
  /\ login' = [login EXCEPT ![s] = c]
  /\ connections' = [connections EXCEPT ![c.uid] = Append(@, c.uid)]

\* RegisterInnerConnectionByHost: SetLoginInfo, then push_back without
\* looking for the client in the vector.
Register(s, c) ==
  /\ login' = [login EXCEPT ![s] = c]
  /\ connections' = [connections EXCEPT ![c.uid] = Append(@, s)]

\* UnRegisterInnerConnectionByHost: nothing without a login; otherwise
\* erase the first occurrence of the client from the vector of the user
\* of its CURRENT login.
Unregister(s) ==
  IF login[s] = NoLogin THEN UNCHANGED connections
  ELSE connections' = [connections EXCEPT ![login[s].uid] = RemoveFirst(@, s)]


\* Mutation of Watchers: the stream id comparison is dropped.
WatchersOfAnyStream(sid) ==
  SumFunction([u \in Users |-> Len(connections[u])])

\* GetAndUpdateOnlineUserByStreamID: under the mutex, the number of entries
\* of all vectors whose client watches sid (an entry present twice counts
\* twice; a deleted client is dereferenced).
Watchers(sid) ==
  SumFunction([u \in Users |-> Len(SelectSeq(connections[u], LAMBDA c : curStream[c] = sid))])

-----------------------------------------------------------------------------
(* Steps of the two loops.                                                 *)

\* The loop that owns s is between two callbacks.
LoopIdle(s) == IF s \in SubSessions THEN subBusy = {} ELSE httpBusy = {} /\ finishing = {}

\* Accepted: the loop accepts a new client; login_ empty, no stream.
Accept(s) ==
  /\ conn[s] = "new"
  /\ LoopIdle(s)
  /\ conn' = [conn EXCEPT ![s] = "open"]
  /\ UNCHANGED <<login, curStream, connections, devStatus, subBusy, httpBusy, finishing, answered>>

\* Close() and delete of a subscriber client, with SubscribersHandler's
\* Closed callback (UnRegisterInnerConnectionByHost): a read error, a
\* failed ping of the timer, or a request that needs a login on a
\* connection without one (CheckIsLoginClient fails).
Close(s) ==
  /\ s \in SubSessions
  /\ conn[s] = "open"
  /\ LoopIdle(s)
  /\ conn' = [conn EXCEPT ![s] = "closed"]
  /\ Unregister(s)
  /\ UNCHANGED <<login, curStream, devStatus, subBusy, httpBusy, finishing, answered>>

\* Close() and delete of an HTTP client, with HttpHandler's Closed callback
\* (UnRegisterInnerConnectionByHost).
HttpClosed(h) ==
  /\ conn' = [conn EXCEPT ![h] = "closed"]
  /\ Unregister(h)

\* HttpHandler::DataReceived: a read error or EOF closes the client.
HttpClose(h) ==
  /\ h \in HttpSessions
  /\ conn[h] = "open"
  /\ LoopIdle(h)
  /\ HttpClosed(h)
  /\ UNCHANGED <<login, curStream, devStatus, subBusy, httpBusy, finishing, answered>>

\* HandleRequestClientLogin up to ClientLogin(AuthInfo): the user checks
\* (status, password, expiry) and the device checks of ClientLoginImpl
\* either all pass, and a not active device is activated, or LoginFail is
\* sent and nothing the model holds changes.  Nothing stops a second CLIENT_LOGIN on a logged-in connection;
\* whether clients send one is ClientsMayRelogin.
SubLoginCheck(s, u, d) ==
  /\ subBusy = {}
  /\ conn[s] = "open"
  /\ ClientsMayRelogin \/ login[s] = NoLogin
  /\ Len(connections[u]) < MaxEntries
  /\ \E pwOK \in BOOLEAN :
       IF ClientLogin(u, d, pwOK)
         THEN /\ ActivateDevice(u, d)
              /\ subBusy' = {[s |-> s, claim |-> [uid |-> u, dev |-> d]]}
         ELSE UNCHANGED <<devStatus, subBusy>>
  /\ UNCHANGED <<conn, login, curStream, connections, httpBusy, finishing, answered>>

\* The rest of HandleRequestClientLogin: LoginSuccess is written; if the
\* write fails the handler returns before registering, otherwise
\* RegisterInnerConnectionByHost.
SubLoginFinish ==
  \E r \in subBusy :
    /\ \/ Register(r.s, r.claim)
       \/ UNCHANGED <<login, connections>>
    /\ subBusy' = {}
    /\ UNCHANGED <<conn, curStream, devStatus, httpBusy, finishing, answered>>

\* HandleRequestClientGetRuntimeChannelInfo on a logged-in connection:
\* GetAndUpdateOnlineUserByStreamID(sid) under the mutex, then
\* SetCurrentStreamID(sid).
SubWatch(s, sid) ==
  /\ subBusy = {}
  /\ conn[s] = "open"
  /\ CheckIsLoginClient(s)
  /\ answered' = [answered EXCEPT ![s] = Watchers(sid)]
  /\ curStream' = [curStream EXCEPT ![s] = sid]
  /\ UNCHANGED <<conn, login, connections, devStatus, subBusy, httpBusy, finishing>>

\* Mutation of HttpLoginCheck: the path's credentials are checked on every
\* request, without asking CheckIsLoginClient first.
HttpLoginCheckEveryRequest(h, u, d) ==
  /\ LoopIdle(h)
  /\ conn[h] = "open"
  /\ Len(connections[u]) < MaxEntries
  /\ ClientLogin(u, d, TRUE)
  /\ ActivateDevice(u, d)
  /\ httpBusy' = {[s |-> h, claim |-> [uid |-> u, dev |-> d]]}
  /\ UNCHANGED <<conn, login, curStream, connections, subBusy, finishing, answered>>

\* ProcessReceived on a connection without a login: CheckIsLoginClient
\* fails and ClientLogin(uid, password, device) of the path tokens passes
\* its user and device checks.  A rejected one answers 404 and goes to
\* "finish" without a login, where a close is an HttpClose.
HttpLoginCheck(h, u, d) ==
  /\ LoopIdle(h)
  /\ conn[h] = "open"
  /\ ~CheckIsLoginClient(h)
  /\ Len(connections[u]) < MaxEntries
  /\ ClientLogin(u, d, TRUE)
  /\ ActivateDevice(u, d)
  /\ httpBusy' = {[s |-> h, claim |-> [uid |-> u, dev |-> d]]}
  /\ UNCHANGED <<conn, login, curStream, connections, subBusy, finishing, answered>>

\* The stream an HTTP request was served: SetCurrentStreamID(sid) after a
\* redirect or a file was sent, nothing after an error.
HttpServed(h) ==
  \/ UNCHANGED curStream
  \/ \E sid \in Streams : curStream' = [curStream EXCEPT ![h] = sid]

\* The "finish" label: a request without "Connection: Keep-Alive" goes on
\* to Close() and delete.
HttpFinishing(h) == finishing' \in {{}, {h}}

\* The rest of ProcessReceived after a passed login:
\* RegisterInnerConnectionByHost, then the request is served and reaches
\* "finish".
HttpLoginFinish ==
  \E r \in httpBusy :
    /\ Register(r.s, r.claim)
    /\ HttpServed(r.s)
    /\ HttpFinishing(r.s)
    /\ httpBusy' = {}
    /\ UNCHANGED <<conn, devStatus, subBusy, answered>>

\* ProcessReceived on a logged-in connection: the request line, the
\* keep-alive header and the path are parsed, CheckIsLoginClient passes,
\* and the request is served under the stored login (the path's
\* credentials are not looked at) and reaches "finish".
HttpServe(h) ==
  /\ LoopIdle(h)
  /\ conn[h] = "open"
  /\ CheckIsLoginClient(h)
  /\ HttpServed(h)
  /\ HttpFinishing(h)
  /\ UNCHANGED <<conn, login, connections, devStatus, subBusy, httpBusy, answered>>

\* Close() and delete at "finish", with the Closed callback.
HttpFinish ==
  \E h \in finishing :
    /\ HttpClosed(h)
    /\ finishing' = {}
    /\ UNCHANGED <<login, curStream, devStatus, subBusy, httpBusy, answered>>

Next ==
  \/ \E s \in Sessions : Accept(s) \/ Close(s) \/ HttpClose(s)
  \/ \E s \in SubSessions, u \in Users, d \in Devices : SubLoginCheck(s, u, d)
  \/ SubLoginFinish
  \/ \E s \in SubSessions, sid \in Streams : SubWatch(s, sid)
  \/ \E h \in HttpSessions, u \in Users, d \in Devices : HttpLoginCheck(h, u, d)
  \/ HttpLoginFinish
  \/ HttpFinish
  \/ \E h \in HttpSessions : HttpServe(h)

Spec == Init /\ [][Next]_vars

-----------------------------------------------------------------------------
(* Properties.                                                             *)

\* The open, logged-in connections of user u.
LoggedIn(u) == {s \in Sessions : conn[s] = "open" /\ login[s] # NoLogin /\ login[s].uid = u}

\* connections_ is exactly the set of live logged-in clients, each once:
\* the vector of u holds every open client whose login is u's, no client
\* twice, and no client that was closed (deleted) or logged in as another
\* user.  Register (push_back without a lookup) and Unregister (erase of
\* one entry under the current login) keep this only as long as every
\* connection logs in at most once.
RegistryMatchesLogins ==
  \A u \in Users :
    /\ IsInjective(connections[u])
    /\ ToSet(connections[u]) = LoggedIn(u)

\* No vector of connections_ holds a client that has been closed and
\* deleted (GetAndUpdateOnlineUserByStreamID and ClientLoginImpl would
\* dereference it).
NoDanglingRegistration ==
  \A u \in Users : \A s \in ToSet(connections[u]) : conn[s] = "open"

\* The "Limit connection reject" check of ClientLoginImpl: no two open
\* connections are logged in with the same user and device.
OneSessionPerDevice ==
  \A s1, s2 \in Sessions :
    (/\ s1 # s2
     /\ conn[s1] = "open" /\ conn[s2] = "open"
     /\ login[s1] # NoLogin)
      => login[s1] # login[s2]

\* The count CLIENT_GET_RUNTIME_CHANNEL_INFO returns (spec: the number of
\* registered sessions whose current stream is sid, as of just before the
\* caller joins): each live connection watching sid counts once, whatever
\* the HTTP loop and the logins of other clients did before.
WatcherCountExact ==
  [][\A s \in SubSessions, sid \in Streams :
       SubWatch(s, sid) =>
         answered'[s] = Cardinality({c \in Sessions : /\ conn[c] = "open"
                                                     /\ curStream[c] = sid
                                                     /\ \E u \in Users : c \in ToSet(connections[u])})]_vars

=============================================================================
