-------------------------- MODULE MCStreamDecoder --------------------------
(* Four counted keys stand for the nine to fifteen of the real decoders:   *)
(* two mandatory for every type and the two a proxy is exempt from.        *)
EXTENDS StreamDecoder

CONSTANTS id, name, logo, output, CATCHUP, RELAY

MCCounted == {id, name, logo, output}
MCExempt == {logo, output}

====
