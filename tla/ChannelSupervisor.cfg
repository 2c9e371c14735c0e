SPECIFICATION ChannelsSpec
CONSTANTS
  Client = {c}
  MAX_RESTART_ATTEMPTS = 1
  MaxLifecycles = 2
INVARIANTS ChannelInv StaysStopped
PROPERTIES KeptUp
CHECK_DEADLOCK FALSE
