\* A client's hello in two pieces.
SPECIFICATION AlpnSpec
CONSTANTS
  Hellos <- MCHellos
  BufferSizes = {50, 67, 80}
  RestWord = 6
  MaxWrites = 3
INVARIANTS NullMeansNoHello
