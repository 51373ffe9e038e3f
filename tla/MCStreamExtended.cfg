\* A reader itself and behind a copy buffer smaller than its own; hellos in any split,
\* in buffers too small for some and large enough for all, and hellos in one write
\* with two writes after it; three streams of two sizes whose arrays run out.
SPECIFICATION MCSpec
CONSTANTS
  Size = 3
  Text <- MCText
  Counts = {1, 2}
  MaxFailures = 1
  CopySize = 2
  Hellos <- MCHellos
  BufferSizes = {50, 67, 80}
  RestWord = 6
  MaxWrites = 3
  Streams = {1, 2, 3}
  Sizes = {1, 2}
  Buffers = {1, 2, 3, 4, 5}
INVARIANTS InOrder AnswersRight CopyFaithful HelloRight HelloStaysOne NoSharing RightLength
PROPERTIES ClosesAtEnd OperationsEnd
