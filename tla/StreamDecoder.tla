--------------------------- MODULE StreamDecoder ---------------------------
(***************************************************************************)
(* The checksum field walk of src/mongo/mongo2info.cpp.  MakeVodInfo,      *)
(* MakeCatchupInfo and MakeChannelInfo share one shape: iterate the BSON   *)
(* fields of a stream document while check_sum has not reached the        *)
(* decoder's CHECK_SUM, abort on a field of the wrong BSON type, count     *)
(* every recognised field except `parts`, and after the loop accept when   *)
(* check_sum == CHECK_SUM or, for the decoder's proxy type only, when      *)
(* check_sum == CHECK_SUM - 2.  A step of this module is one iteration of  *)
(* that loop; the three decoders differ only in their counted keys and in *)
(* the type that gets the relaxed check.                                   *)
(***************************************************************************)
EXTENDS Naturals, Sequences, FiniteSets, Functions

CONSTANTS
  Counted,      \* the keys a decoder counts (STREAM_ID_FIELD ... STREAM_OUTPUT_FIELD)
  PARTS,        \* STREAM_PARTS_FIELD: decoded, never counted
  Exempt,       \* the two fields spec section 3 lets a proxy stream omit
  StreamTypes,  \* the stream types a document can be decoded as
  PROXY,        \* fastotv::PROXY
  VOD_PROXY,    \* fastotv::VOD_PROXY
  Decoders      \* which of the three decode functions are exercised

ASSUME Exempt \subseteq Counted /\ Cardinality(Exempt) = 2 /\ PARTS \notin Counted

Keys == Counted \cup {PARTS}

\* A field of the document: its key and whether it holds the BSON type the
\* decoder asks for (BSON_ITER_HOLDS_OID, _UTF8, _INT32, _BOOL, _ARRAY ...).
Fields == [key: Keys, ok: BOOLEAN]

\* Stream documents as MongoDB stores them: every key at most once, in any
\* order, each with the right or the wrong type.
Layouts == {l \in UNION {[1..n -> Keys] : n \in 0..Cardinality(Keys)} : IsInjective(l)}
Docs == UNION {{[i \in DOMAIN l |-> [key |-> l[i], ok |-> t[i]]] : t \in [DOMAIN l -> BOOLEAN]}
                 : l \in Layouts}

CHECK_SUM == Cardinality(Counted)

\* What tells the three decode functions apart: the stream type that is
\* accepted with check_sum == CHECK_SUM - 2 (is_proxy_valid of MakeVodInfo
\* and MakeChannelInfo; MakeCatchupInfo has no such test).
MakeVodInfo == [relaxed |-> {VOD_PROXY}]
MakeCatchupInfo == [relaxed |-> {}]
MakeChannelInfo == [relaxed |-> {PROXY}]
Decoder(dec) == CASE dec = "vod" -> MakeVodInfo
                  [] dec = "catchup" -> MakeCatchupInfo
                  [] dec = "channel" -> MakeChannelInfo

VARIABLES
  dec,        \* the decode function called
  st,         \* its fastotv::StreamType argument
  doc,        \* the document sdoc
  pos,        \* the index of the next field bson_iter_next returns
  checkSum,   \* check_sum
  read,       \* the counted keys decoded so far (sid_str, group, epg ...)
  partsRead,  \* whether the parts vector was filled from the document
  result      \* "walking", then the function's return value

vars == <<dec, st, doc, pos, checkSum, read, partsRead, result>>

TypeOK ==
  /\ dec \in Decoders /\ st \in StreamTypes /\ doc \in Docs
  /\ pos \in 1..Len(doc) + 1 /\ checkSum \in 0..CHECK_SUM
  /\ read \subseteq Counted /\ partsRead \in BOOLEAN
  /\ result \in {"walking", "ok", "fail"}

Init ==
  /\ dec \in Decoders /\ st \in StreamTypes /\ doc \in Docs
  /\ pos = 1 /\ checkSum = 0 /\ read = {} /\ partsRead = FALSE
  /\ result = "walking"

\* Mutant: the parts branch checks the wrong BSON type and returns false.
WalkRejectingParts ==
  /\ result = "walking"
  /\ pos <= Len(doc)
  /\ checkSum # CHECK_SUM
  /\ LET f == doc[pos] IN
       IF ~f.ok \/ f.key = PARTS
         THEN /\ result' = "fail"
              /\ UNCHANGED <<pos, checkSum, read, partsRead>>
         ELSE /\ pos' = pos + 1
              /\ checkSum' = checkSum + 1
              /\ read' = read \cup {f.key}
              /\ UNCHANGED <<partsRead, result>>
  /\ UNCHANGED <<dec, st, doc>>

\* Mutant: the parts branch also does check_sum++ like its neighbours.
WalkCountingParts ==
  /\ result = "walking"
  /\ pos <= Len(doc)
  /\ checkSum # CHECK_SUM
  /\ LET f == doc[pos] IN
       IF ~f.ok
         THEN /\ result' = "fail"
              /\ UNCHANGED <<pos, checkSum, read, partsRead>>
         ELSE /\ pos' = pos + 1
              /\ checkSum' = checkSum + 1
              /\ read' = read \cup {f.key}
              /\ partsRead' = (partsRead \/ f.key = PARTS)
              /\ UNCHANGED result
  /\ UNCHANGED <<dec, st, doc>>

\* One iteration of the while loop: a field of the wrong type returns
\* false, a counted field increments check_sum, `parts` fills the vector.
Walk ==
  /\ result = "walking"
  /\ pos <= Len(doc)
  /\ checkSum # CHECK_SUM
  /\ LET f == doc[pos] IN
       IF ~f.ok
         THEN /\ result' = "fail"
              /\ UNCHANGED <<pos, checkSum, read, partsRead>>
         ELSE /\ pos' = pos + 1
              /\ IF f.key = PARTS
                   THEN /\ partsRead' = TRUE
                        /\ UNCHANGED <<checkSum, read>>
                   ELSE /\ checkSum' = checkSum + 1
                        /\ read' = read \cup {f.key}
                        /\ UNCHANGED partsRead
              /\ UNCHANGED result
  /\ UNCHANGED <<dec, st, doc>>

\* Mutant: an off-by-one in the final checksum test.
AcceptsOneShort(d, t, n) == n >= CHECK_SUM - 1 \/ (t \in Decoder(d).relaxed /\ n = CHECK_SUM - 2)

\* The loop ends when the fields run out or check_sum is complete; the
\* function then accepts a complete checksum, or CHECK_SUM - 2 for its
\* proxy type.
Accepts(d, t, n) == n = CHECK_SUM \/ (t \in Decoder(d).relaxed /\ n = CHECK_SUM - 2)

Finish ==
  /\ result = "walking"
  /\ pos > Len(doc) \/ checkSum = CHECK_SUM
  /\ result' = IF Accepts(dec, st, checkSum) THEN "ok" ELSE "fail"
  /\ UNCHANGED <<dec, st, doc, pos, checkSum, read, partsRead>>

Next == Walk \/ Finish

Spec == Init /\ [][Next]_vars

-----------------------------------------------------------------------------
(* The checklist of spec sections 3 and 4.3.                               *)

KeysOf(d) == {d[i].key : i \in DOMAIN d}

\* Every counted field must be present; a proxy type may omit the two
\* exempt fields.
Mandatory(d, t) == IF t \in Decoder(d).relaxed THEN Counted \ Exempt ELSE Counted

\* A valid document: its mandatory fields are present and every field it
\* has is of the right type.
Valid(d, t, D) == Mandatory(d, t) \subseteq KeysOf(D) /\ \A i \in DOMAIN D : D[i].ok

Done == result # "walking"

\* A record the decoder returns comes from a document that carries every
\* mandatory field of its type, and no counted field of the wrong type:
\* the checksum stands for the checklist.
AcceptedIsComplete ==
  Done /\ result = "ok" =>
    /\ Mandatory(dec, st) \subseteq KeysOf(doc)
    /\ \A i \in DOMAIN doc : doc[i].key \in Counted => doc[i].ok

\* A valid document is never skipped: the early exit of the loop never
\* makes the checksum fall short for a document that has all it needs.
CompleteIsAccepted ==
  Done /\ Valid(dec, st, doc) => result = "ok"

\* For the decoder's proxy type, the relaxed checksum is the exemption of
\* spec section 3: a well-typed proxy document decodes exactly when it has
\* every counted field except, possibly, the two exempt ones.
ProxyExemptionExact ==
  Done /\ st \in Decoder(dec).relaxed /\ (\A i \in DOMAIN doc : doc[i].ok) =>
    (result = "ok" <=> Mandatory(dec, st) \subseteq KeysOf(doc))

=============================================================================
