------------------------- MODULE StreamResolution --------------------------
(***************************************************************************)
(* An HTTP request /uid/password/device/sid/cid/file of a logged-in        *)
(* client: HttpHandler::ProcessReceived (src/http/handler.cpp) calls       *)
(* SubscribersManager::ClientFindHttpDirectoryOrUrlForChannel, then        *)
(* redirects or serves the file.  The resolution reads the subscriber      *)
(* document, then the stream document, then the filesystem, each at its    *)
(* own time and under no lock, while the subscriber loop adds and undoes   *)
(* the user's catchups, a stream process creates and removes its HLS       *)
(* directory, and the panel may delete a stream document.                  *)
(***************************************************************************)
EXTENDS Naturals, Sequences, FiniteSets, SequencesExt

CONSTANTS
  Streams,          \* stream ids
  Cids,             \* output (channel) ids
  Cls,              \* [Streams -> class]: the "_cls" string of each stream document
  NoCls,            \* "_cls" missing or not UTF-8
  Known,            \* the class strings MongoStreamType2StreamType recognises
  PROXY, VOD_PROXY, \* fastotv::PROXY, fastotv::VOD_PROXY
  Outputs,          \* [Streams -> Seq([id: Cids, complete: BOOLEAN])]: the "output" array
  InitAssoc,        \* the user's streams, vods and catchups arrays at start
  UserCatchups,     \* catchups the subscriber loop may add to the user
  NoStream,         \* current_stream_id_ before any stream was sent
  Dirs,             \* the http_root directories stream processes create and remove
  Deletable         \* the streams whose document the panel may delete

Arrays == <<"streams", "vods", "catchups">>

\* MongoStreamType2StreamType: an unrecognised class string is PROXY.
StreamType(cls) == IF cls \in Known THEN cls ELSE PROXY

\* Mutant: the vods scan copies the streams scan's test.
IsProxyCopied(arr, st) == CASE arr = "streams" -> st = PROXY
                           [] arr = "vods" -> st = PROXY
                           [] arr = "catchups" -> FALSE

\* The is_proxy test of each of the three scans.
IsProxy(arr, st) == CASE arr = "streams" -> st = PROXY
                      [] arr = "vods" -> st = VOD_PROXY
                      [] arr = "catchups" -> FALSE

\* GetOutputUrlData drops an entry lacking id, uri, http_root or hls_type;
\* GetHttpRootFromStream and GetUrlFromStream take the first entry left
\* with the requested id.  Both read the same entry, so a directory and a
\* url are found together or not at all.
HasOutput(s, c) == \E i \in DOMAIN Outputs[s] : Outputs[s][i].complete /\ Outputs[s][i].id = c

\* The scans in their fixed order: the first array holding sid, or "none".
FirstMatch(A, s) ==
  IF \E k \in 1..3 : \E i \in DOMAIN A[Arrays[k]] : A[Arrays[k]][i] = s
    THEN Arrays[CHOOSE k \in 1..3 :
                  /\ \E i \in DOMAIN A[Arrays[k]] : A[Arrays[k]][i] = s
                  /\ \A j \in 1..k-1 : \A i \in DOMAIN A[Arrays[j]] : A[Arrays[j]][i] # s]
    ELSE "none"

Answers == {"stream_not_found", "invalid_stream", "type_not_supported", "cant_parse_urls",
            "redirect", "file", "file_not_found"}

VARIABLES
  assoc,       \* the user's association arrays in the subscribers collection
  streamDocs,  \* the stream ids that have a document in the streams collection
  dirs,        \* the <<sid, cid>> whose http_root directory exists on disk
  req,         \* the request the HTTP loop is in: where it is and what it has read
  answer,      \* the last answer sent, with what the request had read
  watching     \* current_stream_id_ of the HTTP client

vars == <<assoc, streamDocs, dirs, req, answer, watching>>

\* What a request has read so far: the subscriber document (snap), whether
\* the stream document was found (present) and whether the directory
\* existed at the check (dirSeen).
Reads == [sid: Streams, cid: Cids, snap: [{"streams", "vods", "catchups"} -> Seq(Streams)],
          present: BOOLEAN, dirSeen: BOOLEAN]

Idle == [at |-> "idle", sid |-> CHOOSE s \in Streams : TRUE, cid |-> CHOOSE c \in Cids : TRUE,
         arr |-> "none", snap |-> InitAssoc, present |-> FALSE, dirSeen |-> FALSE]

NoAnswer == [sid |-> Idle.sid, cid |-> Idle.cid, snap |-> InitAssoc, present |-> FALSE,
             dirSeen |-> FALSE, what |-> "none"]

TypeOK ==
  /\ assoc \in [{"streams", "vods", "catchups"} -> Seq(Streams)]
  /\ streamDocs \subseteq Streams /\ dirs \subseteq Streams \X Cids
  /\ req.at \in {"idle", "stream", "dir", "serve"} /\ req.arr \in {"none", "streams", "vods", "catchups"}
  /\ [f \in {"sid", "cid", "snap", "present", "dirSeen"} |-> req[f]] \in Reads
  /\ answer.what \in Answers \cup {"none"}
  /\ watching \in Streams \cup {NoStream}

Init ==
  /\ assoc = InitAssoc
  /\ streamDocs = Streams
  /\ dirs \in SUBSET Dirs
  /\ req = Idle
  /\ answer = NoAnswer
  /\ watching = NoStream

\* Mutant: the channel id is stored as the current stream.
AnswerWatchingCid(r, what) ==
  /\ answer' = [sid |-> r.sid, cid |-> r.cid, snap |-> r.snap, present |-> r.present,
                dirSeen |-> r.dirSeen, what |-> what]
  /\ watching' = IF what \in {"redirect", "file"} THEN r.cid ELSE watching
  /\ req' = Idle

\* The handler sends the answer of r; a redirect or a file sent also sets
\* the client's current stream (SetCurrentStreamID).
Answer(r, what) ==
  /\ answer' = [sid |-> r.sid, cid |-> r.cid, snap |-> r.snap, present |-> r.present,
                dirSeen |-> r.dirSeen, what |-> what]
  /\ watching' = IF what \in {"redirect", "file"} THEN r.sid ELSE watching
  /\ req' = Idle

\* ProcessReceived up to the resolution: the subscriber document is read
\* once and scanned; no association with sid answers "Stream not found".
Request(s, c) ==
  /\ req.at = "idle"
  /\ LET r == [Idle EXCEPT !.sid = s, !.cid = c, !.snap = assoc, !.arr = FirstMatch(assoc, s)] IN
       IF r.arr = "none"
         THEN Answer(r, "stream_not_found")
         ELSE /\ req' = [r EXCEPT !.at = "stream"]
              /\ UNCHANGED <<answer, watching>>
  /\ UNCHANGED <<assoc, streamDocs, dirs>>

\* The stream document of the first match: missing, unreadable class,
\* proxy (url only), or on to the directory check.
ReadStream ==
  /\ req.at = "stream"
  /\ LET r == [req EXCEPT !.present = req.sid \in streamDocs]
         st == StreamType(Cls[req.sid]) IN
       IF ~r.present THEN Answer(r, "type_not_supported")
       ELSE IF Cls[r.sid] = NoCls THEN Answer(r, "invalid_stream")
       ELSE IF IsProxy(r.arr, st)
         THEN Answer(r, IF HasOutput(r.sid, r.cid) THEN "redirect" ELSE "cant_parse_urls")
       ELSE IF ~HasOutput(r.sid, r.cid) THEN Answer(r, "cant_parse_urls")
       ELSE /\ req' = [r EXCEPT !.at = "dir"]
            /\ UNCHANGED <<answer, watching>>
  /\ UNCHANGED <<assoc, streamDocs, dirs>>

\* is_directory_exist: the directory if it is there, else the url of the
\* same output.
CheckDir ==
  /\ req.at = "dir"
  /\ LET r == [req EXCEPT !.dirSeen = <<req.sid, req.cid>> \in dirs] IN
       IF r.dirSeen
         THEN /\ req' = [r EXCEPT !.at = "serve"]
              /\ UNCHANGED <<answer, watching>>
         ELSE Answer(r, "redirect")
  /\ UNCHANGED <<assoc, streamDocs, dirs>>

\* The handler stats the file in the directory and sends it, or answers
\* "File not found" when the directory has gone meanwhile.
ServeFile ==
  /\ req.at = "serve"
  /\ Answer(req, IF <<req.sid, req.cid>> \in dirs THEN "file" ELSE "file_not_found")
  /\ UNCHANGED <<assoc, streamDocs, dirs>>

\* The subscriber loop: AddUserCatchup ($push) and RemoveUserCatchup ($pull).
AddCatchup(s) ==
  /\ s \in UserCatchups /\ Len(assoc["catchups"]) < Cardinality(UserCatchups)
  /\ assoc' = [assoc EXCEPT !["catchups"] = Append(@, s)]
  /\ UNCHANGED <<streamDocs, dirs, req, answer, watching>>

UndoCatchup(s) ==
  /\ assoc' = [assoc EXCEPT !["catchups"] = SelectSeq(@, LAMBDA x : x # s)]
  /\ assoc' # assoc
  /\ UNCHANGED <<streamDocs, dirs, req, answer, watching>>

\* A stream process creates or removes its HLS directory; the panel deletes
\* a stream document.
ToggleDir(s, c) ==
  /\ <<s, c>> \in Dirs
  /\ dirs' = IF <<s, c>> \in dirs THEN dirs \ {<<s, c>>} ELSE dirs \cup {<<s, c>>}
  /\ UNCHANGED <<assoc, streamDocs, req, answer, watching>>

DeleteStream(s) ==
  /\ s \in streamDocs \cap Deletable
  /\ streamDocs' = streamDocs \ {s}
  /\ UNCHANGED <<assoc, dirs, req, answer, watching>>

Next ==
  \/ \E s \in Streams, c \in Cids : Request(s, c)
  \/ ReadStream \/ CheckDir \/ ServeFile
  \/ \E s \in Streams : AddCatchup(s) \/ UndoCatchup(s) \/ DeleteStream(s)
  \/ \E s \in Streams, c \in Cids : ToggleDir(s, c)

Spec == Init /\ [][Next]_vars

-----------------------------------------------------------------------------
(* resolve(auth, stream_id, channel_id) of spec section 4.4, over what the *)
(* request read: the arrays are scanned streams, vods, catchups; the first *)
(* match decides; a Channel proxy in streams and a VOD proxy in vods only  *)
(* ever get a redirect; otherwise the directory if it exists, else the url *)
(* of the same output.                                                     *)

SpecArray(A, s) ==
  IF s \in ToSet(A["streams"]) THEN "streams"
  ELSE IF s \in ToSet(A["vods"]) THEN "vods"
  ELSE IF s \in ToSet(A["catchups"]) THEN "catchups"
  ELSE "none"

SpecProxy(arr, cls) == (arr = "streams" /\ cls = PROXY) \/ (arr = "vods" /\ cls = VOD_PROXY)

SpecResolve(x) ==
  LET arr == SpecArray(x.snap, x.sid) IN
  IF arr = "none" THEN "stream_not_found"
  ELSE IF ~x.present THEN "type_not_supported"
  ELSE IF Cls[x.sid] = NoCls THEN "invalid_stream"
  ELSE IF ~HasOutput(x.sid, x.cid) THEN "cant_parse_urls"
  ELSE IF SpecProxy(arr, Cls[x.sid]) \/ ~x.dirSeen THEN "redirect"
  ELSE "directory"

\* A file answer, sent or not found, is the directory outcome.
Outcome(what) == IF what \in {"file", "file_not_found"} THEN "directory" ELSE what

\* Every answer the HTTP loop sends is the spec's resolution of the
\* subscriber document as the request read it, the stream document as it
\* was found and the directory as it was checked, whatever the subscriber
\* loop, the stream processes and the panel did in between.
ResolvesAsSpecified == answer # NoAnswer => Outcome(answer.what) = SpecResolve(answer)

=============================================================================
