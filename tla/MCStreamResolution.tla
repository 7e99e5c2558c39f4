------------------------ MODULE MCStreamResolution -------------------------
(* A relay channel and a proxy channel in streams, a VOD proxy and a VOD    *)
(* relay in vods, a catchup the subscriber loop adds and undoes, and a     *)
(* channel whose document has no readable class.                           *)
EXTENDS StreamResolution

CONSTANTS relay, proxy, vodProxy, vodRelay, catchup, broken,
          RELAY, VOD_RELAY, CATCHUP, c0, c1

MCCls == [s \in {relay, proxy, vodProxy, vodRelay, catchup, broken} |->
            CASE s = relay -> RELAY [] s = proxy -> PROXY [] s = vodProxy -> VOD_PROXY
              [] s = vodRelay -> VOD_RELAY [] s = catchup -> CATCHUP [] s = broken -> NoCls]

\* One entry per stream serves c0; the VOD relay's first c0 entry lacks a
\* field and is dropped; c1 is served by the relay only.
MCOutputs == [s \in {relay, proxy, vodProxy, vodRelay, catchup, broken} |->
                IF s = relay THEN <<[id |-> c0, complete |-> TRUE], [id |-> c1, complete |-> TRUE]>>
                ELSE IF s = vodRelay THEN <<[id |-> c0, complete |-> FALSE], [id |-> c0, complete |-> TRUE]>>
                ELSE <<[id |-> c0, complete |-> TRUE]>>]

MCInitAssoc == [a \in {"streams", "vods", "catchups"} |->
                  IF a = "streams" THEN <<relay, proxy, broken>>
                  ELSE IF a = "vods" THEN <<vodProxy, vodRelay>>
                  ELSE <<>>]


\* The directories on disk: the c0 output of the relay, the VOD relay and
\* the catchup, and a directory of the same name as each proxy's (spec
\* section 9); the relay's c1 has a url and no directory yet.
MCDirs == {<<relay, c0>>, <<vodRelay, c0>>, <<catchup, c0>>, <<proxy, c0>>, <<vodProxy, c0>>}

====
