--------------------------- MODULE MCDaemonControl ---------------------------
(* Two daemon connections, one catchup broadcast. *)
EXTENDS DaemonControl

CONSTANTS d1, d2, k1

====
