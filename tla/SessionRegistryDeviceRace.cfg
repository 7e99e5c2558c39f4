\* The device limit across the subscriber and the HTTP loop.
CONSTANTS
  u1 = u1  u2 = u2  u3 = u3  u4 = u4  u5 = u5  d1 = d1  d2 = d2
  Users = {u1, u2, u3, u4, u5}
  UserStatus <- MCUserStatus
  Expired = {u3}
  Devices = {d1, d2}
  SubSessions = {s1, s2}
  HttpSessions = {h1}
  Streams = {x1, x2}
  NoLogin = NoLogin
  NoStream = NoStream
  UserDevices <- MCUserDevices
  InitDeviceStatus <- MCInitDeviceStatus
  ClientsMayRelogin = FALSE
  MaxEntries = 3
SPECIFICATION Spec
SYMMETRY MCSymmetry
CHECK_DEADLOCK FALSE
INVARIANT OneSessionPerDevice
