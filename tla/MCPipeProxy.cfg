\* Two messages one way, half a one the other, a reset, and a disposal of the server.
SPECIFICATION FairSpec
CONSTANTS
  Streams <- MCStreams
  MaxResets = 1
  Stops = TRUE
INVARIANTS WokenOnce RelayInOrder OneDisconnect
PROPERTIES ProxyEnds
