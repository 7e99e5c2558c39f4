\* One HTTP client resolving every stream and output id while the other actors run.
CONSTANTS
  relay = relay  proxy = proxy  vodProxy = vodProxy  vodRelay = vodRelay
  catchup = catchup  broken = broken
  RELAY = RELAY  VOD_RELAY = VOD_RELAY  CATCHUP = CATCHUP  c0 = c0  c1 = c1
  PROXY = PROXY  VOD_PROXY = VOD_PROXY  NoCls = NoCls  NoStream = NoStream
  Streams = {relay, proxy, vodProxy, vodRelay, catchup, broken}
  Cids = {c0, c1}
  Known = {RELAY, PROXY, VOD_PROXY, VOD_RELAY, CATCHUP}
  Cls <- MCCls
  Outputs <- MCOutputs
  InitAssoc <- MCInitAssoc
  UserCatchups = {catchup}
  Dirs <- MCDirs
  Deletable = {catchup}
SPECIFICATION Spec
INVARIANTS TypeOK ResolvesAsSpecified
