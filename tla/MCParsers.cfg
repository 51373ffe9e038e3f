\* Two messages of a peer and three calls, which come to an end; or three pages, any
\* of them left out, and 1131 query strings.
SPECIFICATION MCSpec
CONSTANTS
  Size = 11
  MaxContentSize = 4
  Messages <- MCMessages
  MaxMessages = 2
  MaxCalls = 3
  Vectors <- MCVectors
  Alphabet <- Chars
  Fields <- MCFields
  Lower <- MCLower
  FieldList <- MCFieldList
  Documents <- MCDocuments
  StopWords <- MCStopWords
  NonWord <- MCNonWord
  Queries <- MCQueries
INVARIANTS RoomToRead CallsFollowMessages RefusalStays NoReadPastMessage
INVARIANTS IndexConsistent TokenSetRight ParsedRight HitsRight
