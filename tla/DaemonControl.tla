---------------------------- MODULE DaemonControl ----------------------------
(***************************************************************************)
(* The daemon-control loop of ProcessSlaveWrapper (loop_, a DaemonServer   *)
(* on config.host) and its ProtocoledDaemonClient connections.  A daemon   *)
(* (the panel's controller, or a second instance started with --stop,      *)
(* SendStopDaemonRequest) writes JSON-RPC requests; the loop reads one     *)
(* command per DataReceived callback and dispatches it in                  *)
(* HandleRequestServiceCommand.  The loop also pings its verified clients  *)
(* on a timer and, from the subscriber loop's CatchupCreated observer,     *)
(* broadcasts a notification to them through ExecInLoopThread.            *)
(*                                                                         *)
(* A request is a record of its method and of whether its params carry the *)
(* configured license key (for stop) or a key that GetExpireTimeFromKey    *)
(* accepts (for activate); a command that ReadCommand or ParseJsonRPC      *)
(* rejects is "garbage", and a peer that closes is a read of nothing, both *)
(* of which close the connection.  Requests are kept as an append-only     *)
(* sequence per connection with a read index, so that a property can ask   *)
(* whether each one was ever answered.                                     *)
(***************************************************************************)
EXTENDS Naturals, Sequences

CONSTANTS
  DClients,     \* ProtocoledDaemonClient objects the loop may accept
  Catchups,     \* catchups the subscriber loop may create
  MaxRequests,  \* bound on the requests one daemon connection writes
  MaxPings      \* bound on the server's outstanding pings per connection

ASSUME MaxRequests \in Nat \ {0} /\ MaxPings \in Nat \ {0}

\* The methods a daemon sends: DAEMON_STOP_SERVICE, DAEMON_PING_SERVICE,
\* DAEMON_ACTIVATE, a response to one of the server's requests, and a command
\* the loop cannot read or parse.
Methods == {"stop", "ping", "activate", "response", "garbage"}
Requests == [method : Methods, licensed : BOOLEAN]

VARIABLES
  dconn,        \* dconn[c]: "new", "open", "closed" (Close() and delete)
  verified,     \* verified[c]: DaemonClient::IsVerified()
  sent,         \* sent[c]: every request daemon c has written, in order
  nread,        \* nread[c]: how many of them the loop has read
  answered,     \* answered[c]: the indexes of sent[c] the loop responded to
  pings,        \* pings[c]: DAEMON_SERVER_PING requests awaiting a response
  running,      \* loop_ has not been stopped
  tasks,        \* closures queued by ExecInLoopThread, not yet run
  created,      \* catchups whose CatchupCreated the subscriber loop reported
  delivered     \* delivered[c]: catchups notified to daemon c

vars == <<dconn, verified, sent, nread, answered, pings, running, tasks, created, delivered>>

TypeOK ==
  /\ dconn \in [DClients -> {"new", "open", "closed"}]
  /\ verified \in [DClients -> BOOLEAN]
  /\ sent \in [DClients -> Seq(Requests)]
  /\ nread \in [DClients -> 0..MaxRequests]
  /\ answered \in [DClients -> SUBSET (1..MaxRequests)]
  /\ pings \in [DClients -> 0..MaxPings]
  /\ running \in BOOLEAN
  /\ tasks \in Seq(Catchups)
  /\ created \subseteq Catchups
  /\ delivered \in [DClients -> SUBSET Catchups]

Init ==
  /\ dconn = [c \in DClients |-> "new"]
  /\ verified = [c \in DClients |-> FALSE]
  /\ sent = [c \in DClients |-> <<>>]
  /\ nread = [c \in DClients |-> 0]
  /\ answered = [c \in DClients |-> {}]
  /\ pings = [c \in DClients |-> 0]
  /\ running = TRUE
  /\ tasks = <<>>
  /\ created = {}
  /\ delivered = [c \in DClients |-> {}]

-----------------------------------------------------------------------------
(* The daemon side. *)

\* A daemon connects; ProcessSlaveWrapper::Accepted does nothing more.
Accept(c) ==
  /\ running /\ dconn[c] = "new"
  /\ dconn' = [dconn EXCEPT ![c] = "open"]
  /\ UNCHANGED <<verified, sent, nread, answered, pings, running, tasks, created, delivered>>

\* A daemon writes one request on its connection.
Send(c, r) ==
  /\ dconn[c] = "open" /\ Len(sent[c]) < MaxRequests
  /\ sent' = [sent EXCEPT ![c] = Append(@, r)]
  /\ UNCHANGED <<dconn, verified, nread, answered, pings, running, tasks, created, delivered>>

\* SendStopDaemonRequest: a second instance connects, writes StopMe with the
\* license of its own config and closes at once.
StopMe(c) ==
  /\ running /\ dconn[c] = "new"
  /\ dconn' = [dconn EXCEPT ![c] = "open"]
  /\ sent' = [sent EXCEPT ![c] = <<[method |-> "stop", licensed |-> TRUE],
                                   [method |-> "garbage", licensed |-> FALSE]>>]
  /\ UNCHANGED <<verified, nread, answered, pings, running, tasks, created, delivered>>

-----------------------------------------------------------------------------
(* The loop's handlers.  Each returns the updates of one DataReceived       *)
(* callback for request i of c; an error a handler returns is only logged   *)
(* by DaemonDataReceived and the request stays unanswered.                  *)

\* StopSuccess (or Pong) written in reply to request i of c.
Respond(c, i) == answered' = [answered EXCEPT ![c] = @ \cup {i}]

\* HandleRequestClientStopService: the configured license or a verified
\* client stops the subscriber, HTTP and daemon loops.
HandleRequestClientStopService(c, i, r) ==
  IF r.licensed \/ verified[c]
    THEN /\ Respond(c, i) /\ running' = FALSE
         /\ UNCHANGED pings
    ELSE UNCHANGED <<answered, pings, running>>

\* HandleRequestClientPingService: an unverified client is refused.
HandleRequestClientPingService(c, i) ==
  /\ IF verified[c] THEN Respond(c, i) ELSE UNCHANGED answered
  /\ UNCHANGED <<pings, running>>

\* HandleResponceServiceCommand: a verified client's response pops the
\* server request it answers (PopRequestByID).
HandleResponceServiceCommand(c) ==
  /\ pings' = IF verified[c] /\ pings[c] > 0 THEN [pings EXCEPT ![c] = @ - 1]
              ELSE pings
  /\ UNCHANGED <<answered, running>>

\* HandleRequestServiceCommand: stop and ping are dispatched; every other
\* method is logged as unknown and gets no reply.
HandleRequestServiceCommand(c, i, r) ==
  CASE r.method = "stop" -> HandleRequestClientStopService(c, i, r)
    [] r.method = "ping" -> HandleRequestClientPingService(c, i)
    [] OTHER             -> UNCHANGED <<answered, pings, running>>

\* DataReceived / DaemonDataReceived: read the next command of c; one that
\* cannot be read or parsed closes and deletes the client.
DataReceived(c) ==
  /\ running /\ dconn[c] = "open" /\ nread[c] < Len(sent[c])
  /\ LET i == nread[c] + 1
         r == sent[c][i]
     IN /\ nread' = [nread EXCEPT ![c] = i]
        /\ IF r.method = "garbage"
             THEN /\ dconn' = [dconn EXCEPT ![c] = "closed"]
                  /\ UNCHANGED <<answered, pings, running>>
             ELSE /\ UNCHANGED dconn
                  /\ IF r.method = "response" THEN HandleResponceServiceCommand(c)
                     ELSE HandleRequestServiceCommand(c, i, r)
  /\ UNCHANGED <<verified, sent, tasks, created, delivered>>

\* TimerEmited: ping every verified client; a failed write closes it.
TimerEmited ==
  /\ running
  /\ \E failed \in SUBSET {c \in DClients : dconn[c] = "open" /\ verified[c]} :
       LET pinged == {c \in DClients : dconn[c] = "open" /\ verified[c]} \ failed
       IN /\ \A c \in pinged : pings[c] < MaxPings
          /\ dconn' = [c \in DClients |-> IF c \in failed THEN "closed" ELSE dconn[c]]
          /\ pings' = [c \in DClients |-> IF c \in pinged THEN pings[c] + 1 ELSE pings[c]]
  /\ UNCHANGED <<verified, sent, nread, answered, running, tasks, created, delivered>>

\* CatchupCreated, on the subscriber loop's thread: queue the broadcast on
\* loop_ with ExecInLoopThread (the subscriber loop may still run after the
\* daemon loop stopped; the closure then never runs).
CatchupCreated(k) ==
  /\ k \notin created
  /\ created' = created \cup {k}
  /\ tasks' = Append(tasks, k)
  /\ UNCHANGED <<dconn, verified, sent, nread, answered, pings, running, delivered>>

\* BroadcastClients: the closure writes the notification to every client
\* verified when it runs; a failed write is only logged.
BroadcastClients ==
  /\ running /\ tasks # <<>>
  /\ \E reached \in SUBSET {c \in DClients : dconn[c] = "open" /\ verified[c]} :
       delivered' = [c \in DClients |-> IF c \in reached
                                          THEN delivered[c] \cup {Head(tasks)}
                                          ELSE delivered[c]]
  /\ tasks' = Tail(tasks)
  /\ UNCHANGED <<dconn, verified, sent, nread, answered, pings, running, created>>

Next ==
  \/ \E c \in DClients : Accept(c) \/ StopMe(c) \/ DataReceived(c)
  \/ \E c \in DClients, r \in Requests : Send(c, r)
  \/ TimerEmited
  \/ \E k \in Catchups : CatchupCreated(k)
  \/ BroadcastClients

\* The loop serves every readable client and runs its queued closures: each
\* is one callback that waits on nothing.
Fairness ==
  /\ \A c \in DClients : WF_vars(DataReceived(c))
  /\ WF_vars(BroadcastClients)

Spec == Init /\ [][Next]_vars /\ Fairness

-----------------------------------------------------------------------------
(* Properties. *)

\* Every DAEMON_ACTIVATE request a daemon writes is eventually answered, by
\* ActivateSuccess or ActivateFail as HandleRequestClientActivate does, unless
\* its connection closed or the service stopped first.
ActivateAnswered ==
  \A c \in DClients, i \in 1..MaxRequests :
    (i <= Len(sent[c]) /\ sent[c][i].method = "activate")
      ~> (i \in answered[c] \/ dconn[c] = "closed" \/ ~running)

=============================================================================
