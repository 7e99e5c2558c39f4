-------------------------- MODULE CatchupSynthesis --------------------------
(***************************************************************************)
(* Catchup recordings as the subscriber loop creates them:                 *)
(* HandleRequestGenerateCatchup (src/subscribers/handler.cpp) calls        *)
(* SubscribersManager::CreateCatchup, which finds the source channel with  *)
(* FindStream and runs CreateOrFindCatchup, then AddUserCatchup, then the  *)
(* CatchupCreated broadcast; HandleRequestUndoCatchup calls                *)
(* RemoveUserCatchup.  Only the subscriber loop runs these, so requests    *)
(* are sequential; what makes them hard is the sequence of store writes    *)
(* (insert, $push to the source's parts, $push to the server's streams,    *)
(* $push to the user's catchups) without a transaction, and the            *)
(* deduplication that reads the source's parts through MakeChannelInfo.    *)
(*                                                                         *)
(* A request is a source stream id and a (title, window) pair, where a     *)
(* window stands for a (start, stop) pair of timestamps; the documents     *)
(* keep what the deduplication compares and the http_root of the output    *)
(* (one output per source, as a sequence of path segments).               *)
(***************************************************************************)
EXTENDS Naturals, Sequences, SequencesExt

CONSTANTS
  Users,            \* subscriber ids
  Sources,          \* live stream ids a catchup may be based on
  CatchupIds,       \* the ids bson_oid_init may produce
  Titles,           \* catchup titles
  Windows,          \* (start, stop) pairs
  UserSources,      \* UserSources[u]: the sids of u's "streams" array
  HostedSources,    \* sources held by the "streams" array of some server
  SourceType,       \* SourceType[s]: MongoStreamType2StreamType of s's _cls
  SourceRoot,       \* SourceRoot[s]: the http_root of s's output, as segments
  PROXY, CATCHUP,   \* values of fastotv::StreamType
  CatchupsRoot,     \* catchups_http_root_, as segments
  OutputId,         \* the id of the source's output, as a segment
  PartsVisible,     \* PartsVisible[s]: MakeChannelInfo reads the parts field of s
  StoreMayFail,     \* may a store write fail
  MaxUserCatchups,  \* bound on the length of a user's catchups array
  PrefFields,       \* the preference fields whose handlers are exercised
  NoDoc, NoReply

Requests == [src : Sources, title : Titles, win : Windows]

\* The preferences of an element of a user's catchups array.  Each holds
\* its pushed default (favorite false, recent 0, interruption_time 0) or
\* not: FALSE is the default, TRUE a value the client has sent.
Prefs == {"favorite", "recent", "interruption_time"}
ASSUME PrefFields \subseteq Prefs
Defaults == [f \in PrefFields |-> FALSE]
Elements == [sid : CatchupIds, pref : [PrefFields -> BOOLEAN]]

VARIABLES
  docs,          \* docs[c]: the catchup document with _id c in "streams", or NoDoc
  parts,         \* parts[s]: the "parts" array of source s
  serverStreams, \* catchup ids $pushed to the "streams" array of the server
  userCatchups,  \* userCatchups[u]: u's "catchups" array, each element its sid and preferences
  announced,     \* catchups sent to the daemon by the CatchupCreated observer
  reply,         \* reply[u]: the last CatchupGenerateSuccess sent to u
  firstReply     \* firstReply[q]: the first successful reply to request q

vars == <<docs, parts, serverStreams, userCatchups, announced, reply, firstReply>>

\* The path segments of every http_root.
Segments ==
  UNION {ToSet(SourceRoot[s]) : s \in Sources}
    \cup ToSet(CatchupsRoot) \cup {CATCHUP, OutputId} \cup CatchupIds

\* What a reply carries of the CatchupInfo: its stream id and its parts.
Records == [id : CatchupIds, parts : Seq(CatchupIds)]

TypeOK ==
  /\ docs \in [CatchupIds -> [src : Sources, title : Titles, win : Windows,
                              root : Seq(Segments)] \cup {NoDoc}]
  /\ parts \in [Sources -> Seq(CatchupIds)]
  /\ serverStreams \in Seq(CatchupIds)
  /\ userCatchups \in [Users -> Seq(Elements)]
  /\ announced \subseteq CatchupIds
  /\ reply \in [Users -> [q : Requests, rec : Records] \cup {NoReply}]
  /\ firstReply \in [Requests -> Records \cup {NoReply}]

Init ==
  /\ docs = [c \in CatchupIds |-> NoDoc]
  /\ parts = [s \in Sources |-> <<>>]
  /\ serverStreams = <<>>
  /\ userCatchups = [u \in Users |-> <<>>]
  /\ announced = {}
  /\ reply = [u \in Users |-> NoReply]
  /\ firstReply = [q \in Requests |-> NoReply]

-----------------------------------------------------------------------------
(* Store reads and the URL rewrite.                                        *)

\* based_on.GetParts(): the parts MakeChannelInfo put in the ChannelInfo of
\* the source; the field walk stops once its nine mandatory fields are
\* counted, so a parts field placed after them is never read.
DecodedParts(s) == IF PartsVisible[s] THEN parts[s] ELSE <<>>

\* The deduplication loop of CreateOrFindCatchup: the parts whose document
\* has the requested name, start and stop, in the order of the array.
Matches(q) ==
  SelectSeq(DecodedParts(q.src),
            LAMBDA c : docs[c].title = q.title /\ docs[c].win = q.win)

\* ReplaceFirstSubstringAfterOffset(path, 0, "/<from>/", "/<to>/") on a path
\* given as its segments.
RECURSIVE ReplaceFirstSegment(_, _, _)
ReplaceFirstSegment(path, from, to) ==
  IF path = <<>> THEN <<>>
  ELSE IF Head(path) = from THEN <<to>> \o Tail(path)
  ELSE <<Head(path)>> \o ReplaceFirstSegment(Tail(path), from, to)

\* CreateCatchupOutputUrl: the http_root of the catchup c of source s.  A
\* proxy source gets catchups_http_root/CATCHUP/<new id>/<output id>; any
\* other source gets its own root with the first "/<type>/" segment
\* replaced by "/CATCHUP/".
CatchupRoot(s, c) ==
  IF SourceType[s] = PROXY THEN CatchupsRoot \o <<CATCHUP, c, OutputId>>
  ELSE ReplaceFirstSegment(SourceRoot[s], SourceType[s], CATCHUP)

\* The writes of a new catchup, in the order CreateOrFindCatchup and the
\* handler issue them: insert, parts, server, user.  The number of them
\* that succeed: the first failure returns an error and nothing after it
\* is written (nothing before it is undone).
Succeeded == IF StoreMayFail THEN 0..4 ELSE {4}

\* CatchupGenerateSuccess: reply r to u's request q; the first successful
\* reply to q is remembered.
Reply(u, q, r) ==
  /\ reply' = [reply EXCEPT ![u] = [q |-> q, rec |-> r]]
  /\ firstReply' = IF firstReply[q] = NoReply THEN [firstReply EXCEPT ![q] = r]
                   ELSE firstReply

\* The sids of u's catchups array, in order.
SidsOf(u) == [i \in DOMAIN userCatchups[u] |-> userCatchups[u][i].sid]

\* Mutation of AddUserCatchup: the user id is pushed instead of the stream
\* id (the slip of AddUserStream, subscribers_manager.cpp:1579).
AddUserCatchupPushesUserID(u, c) ==
  userCatchups' = [userCatchups EXCEPT ![u] = Append(@, [sid |-> u, pref |-> Defaults])]

\* AddUserCatchup: $push {sid: c, favorite: false, private: false,
\* recent: 0, interruption_time: 0} to the user's catchups, without a
\* lookup.
AddUserCatchup(u, c) ==
  userCatchups' = [userCatchups EXCEPT ![u] = Append(@, [sid |-> c, pref |-> Defaults])]

\* FindStream: the source is in u's "streams" array, and its document has
\* a class that is not a VOD and decodes with MakeChannelInfo (every
\* source of this module does).
FindStream(u, s) == s \in UserSources[u]

-----------------------------------------------------------------------------
(* The two handlers.                                                       *)

\* HandleRequestGenerateCatchup when the deduplication finds a catchup:
\* CreateOrFindCatchup returns MakeCatchupInfo of its document (whose own
\* parts array is empty) with is_created = false, AddUserCatchup pushes it
\* again, and nothing is broadcast.  FindStream must find the source in
\* u's streams; a failed push leaves everything as it was.
GenerateFound(u, q) ==
  /\ FindStream(u, q.src)
  /\ Len(userCatchups[u]) < MaxUserCatchups
  /\ Matches(q) # <<>>
  /\ AddUserCatchup(u, Head(Matches(q)))
  /\ Reply(u, q, [id |-> Head(Matches(q)), parts |-> <<>>])
  /\ UNCHANGED <<docs, parts, serverStreams, announced>>

\* Mutation of GenerateNew: the deduplication result is not looked at.
GenerateNewSkippingDedup(u, q, c) ==
  /\ FindStream(u, q.src)
  /\ Len(userCatchups[u]) < MaxUserCatchups
  /\ q.src \in HostedSources
  /\ docs[c] = NoDoc
  /\ \E n \in Succeeded :
       /\ docs' = IF n >= 1
                  THEN [docs EXCEPT ![c] = [src |-> q.src, title |-> q.title, win |-> q.win,
                                            root |-> CatchupRoot(q.src, c)]]
                  ELSE docs
       /\ parts' = IF n >= 2 THEN [parts EXCEPT ![q.src] = Append(@, c)] ELSE parts
       /\ serverStreams' = IF n >= 3 THEN Append(serverStreams, c) ELSE serverStreams
       /\ IF n = 4
          THEN /\ AddUserCatchup(u, c)
               /\ announced' = announced \cup {c}
               /\ Reply(u, q, [id |-> c, parts |-> DecodedParts(q.src)])
          ELSE UNCHANGED <<userCatchups, announced, reply, firstReply>>

\* HandleRequestGenerateCatchup when nothing is found: the server hosting
\* the source must exist ("Server not found"), a fresh id c is drawn, and
\* the writes run in order until one fails.  When all succeed the reply
\* is the copy of the source channel with the new id and the source's
\* decoded parts, and is_created makes the observer broadcast it.
GenerateNew(u, q, c) ==
  /\ FindStream(u, q.src)
  /\ Len(userCatchups[u]) < MaxUserCatchups
  /\ Matches(q) = <<>>
  /\ q.src \in HostedSources
  /\ docs[c] = NoDoc
  /\ \E n \in Succeeded :
       /\ docs' = IF n >= 1
                  THEN [docs EXCEPT ![c] = [src |-> q.src, title |-> q.title, win |-> q.win,
                                            root |-> CatchupRoot(q.src, c)]]
                  ELSE docs
       /\ parts' = IF n >= 2 THEN [parts EXCEPT ![q.src] = Append(@, c)] ELSE parts
       /\ serverStreams' = IF n >= 3 THEN Append(serverStreams, c) ELSE serverStreams
       /\ IF n = 4
          THEN /\ AddUserCatchup(u, c)
               /\ announced' = announced \cup {c}
               /\ Reply(u, q, [id |-> c, parts |-> DecodedParts(q.src)])
          ELSE UNCHANGED <<userCatchups, announced, reply, firstReply>>

\* RemoveUserCatchup: update({_id: u}, {$pull: {catchups: {sid: c}}})
\* removes every element with sid c from u's catchups.
RemoveUserCatchup(u, c) ==
  userCatchups' = [userCatchups EXCEPT ![u] = SelectSeq(@, LAMBDA e : e.sid # c)]

\* HandleRequestUndoCatchup of a logged-in client: RemoveUserCatchup of the
\* requested sid (a pull of an absent sid changes nothing and is not a step
\* here; a failed one sends CatchupUndoFail).
Undo(u, c) ==
  /\ c \in ToSet(SidsOf(u))
  /\ RemoveUserCatchup(u, c)
  /\ UNCHANGED <<docs, parts, serverStreams, announced, reply, firstReply>>

\* SetFavorite, SetRecent and SetInterruptTime differ only in the field f:
\* the stream document is found, its class is CATCHUP, and
\* update({_id: u, "catchups.sid": c}, {$set: {"catchups.$.<f>": v}})
\* sets the first element with sid c.  A failed update is only logged.
PositionalSet(u, c, f, v) ==
  /\ docs[c] # NoDoc
  /\ \E i \in DOMAIN userCatchups[u] :
       /\ userCatchups[u][i].sid = c
       /\ \A j \in 1..i-1 : userCatchups[u][j].sid # c
       /\ userCatchups[u][i].pref[f] # v
       /\ userCatchups' = [userCatchups EXCEPT ![u][i].pref[f] = v]

\* HandleRequestClientSetFavorite, HandleRequestClientSetRecent and
\* HandleRequestInterruptStreamTime of a logged-in client on catchup c:
\* the manager's update, whose result is not looked at, then the success
\* reply.  An update that changes nothing is not a step here.
SetPreference(u, c, f, v) ==
  /\ PositionalSet(u, c, f, v)
  /\ UNCHANGED <<docs, parts, serverStreams, announced, reply, firstReply>>

Next ==
  \E u \in Users :
    \/ \E q \in Requests : GenerateFound(u, q)
    \/ \E q \in Requests, c \in CatchupIds : GenerateNew(u, q, c)
    \/ \E c \in CatchupIds : Undo(u, c)
    \/ \E c \in CatchupIds, f \in PrefFields, v \in BOOLEAN : SetPreference(u, c, f, v)

Spec == Init /\ [][Next]_vars

-----------------------------------------------------------------------------
(* Properties.                                                             *)

\* create_or_find is idempotent: every successful reply to a request names
\* the catchup the first successful reply to that request named, whatever
\* writes failed in between (an insert whose parts link failed is an
\* orphan the deduplication never sees, so it must not be answered).
IdempotentCreateOrFind ==
  \A u \in Users :
    reply[u] # NoReply => reply[u].rec.id = firstReply[reply[u].q].id

\* A catchup a user was given is fully created: the server that records
\* it lists it and the daemon was told about it (CatchupCreated).
UserCatchupsComplete ==
  \A u \in Users : \A c \in ToSet(SidsOf(u)) :
    c \in ToSet(serverStreams) /\ c \in announced

\* The catchups ClientGetChannels lists for u: MakeCatchupInfo of every
\* element whose document exists, with the element's preferences.
Catalogue(u) == SelectSeq(userCatchups[u], LAMBDA e : docs[e.sid] # NoDoc)

\* The catalogue shows a catchup with one set of preferences: the favorite
\* flag, recent time and interruption time the user last set with
\* SetFavorite, SetRecent and SetInterruptTime are what every listing of
\* that catchup shows.
PreferencesShownConsistently ==
  \A u \in Users : \A i, j \in DOMAIN Catalogue(u) :
    Catalogue(u)[i].sid = Catalogue(u)[j].sid => Catalogue(u)[i].pref = Catalogue(u)[j].pref

\* Distinct catchups record into distinct directories, none of them the
\* directory of a live source.
DistinctCatchupRoots ==
  \A c1, c2 \in CatchupIds :
    (docs[c1] # NoDoc /\ docs[c2] # NoDoc)
      => /\ c1 # c2 => docs[c1].root # docs[c2].root
         /\ \A s \in Sources : docs[c1].root # SourceRoot[s]
=============================================================================
