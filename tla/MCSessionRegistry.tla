-------------------------- MODULE MCSessionRegistry --------------------------
(***************************************************************************)
(* Finite instance of SessionRegistry: three users, two devices, two       *)
(* subscriber connections and one HTTP connection.  u1 owns a not active   *)
(* and an active device; u2 an active device and a banned one; u3, whose   *)
(* account has expired, a not active device; u4 (USER_NOT_ACTIVE) and u5    *)
(* (USER_DELETED) an active device their logins never reach.               *)
(***************************************************************************)
EXTENDS SessionRegistry, TLC

CONSTANTS u1, u2, u3, u4, u5, d1, d2

MCUserDevices == (u1 :> {d1, d2}) @@ (u2 :> {d1, d2}) @@ (u3 :> {d1}) @@ (u4 :> {d1}) @@ (u5 :> {d1})

MCInitDeviceStatus ==
  (u1 :> (d1 :> DEVICE_NOT_ACTIVE @@ d2 :> DEVICE_ACTIVE))
  @@ (u2 :> (d1 :> DEVICE_ACTIVE @@ d2 :> DEVICE_BANNED))
  @@ (u3 :> (d1 :> DEVICE_NOT_ACTIVE @@ d2 :> NO_STATUS))
  @@ (u4 :> (d1 :> DEVICE_ACTIVE @@ d2 :> NO_STATUS))
  @@ (u5 :> (d1 :> DEVICE_ACTIVE @@ d2 :> NO_STATUS))

\* u3's account has expired: ClientActivate still lists its device.  u4 and
\* u5 fail the status test of ClientLoginImpl.
MCUserStatus == (u1 :> USER_ACTIVE) @@ (u2 :> USER_ACTIVE) @@ (u3 :> USER_ACTIVE)
                @@ (u4 :> USER_NOT_ACTIVE) @@ (u5 :> USER_DELETED)

\* Subscriber connections are interchangeable.
MCSymmetry == Permutations(SubSessions)
=============================================================================
