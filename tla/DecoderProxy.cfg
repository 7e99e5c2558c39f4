\* MakeChannelInfo and MakeVodInfo with proxy and relay documents: is the relaxed checksum the exemption?
CONSTANTS
  id = id  name = name  logo = logo  output = output
  Counted <- MCCounted
  Exempt <- MCExempt
  PARTS = PARTS
  PROXY = PROXY
  VOD_PROXY = VOD_PROXY
  CATCHUP = CATCHUP
  RELAY = RELAY
  StreamTypes = {RELAY, PROXY, VOD_PROXY}
  Decoders = {"channel", "vod"}
SPECIFICATION Spec
CHECK_DEADLOCK FALSE
INVARIANT ProxyExemptionExact
