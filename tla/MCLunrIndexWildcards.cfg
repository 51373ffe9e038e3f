\* A star that stands for no character.
SPECIFICATION Spec
CONSTANTS
  Vectors <- MCVectors
  Alphabet <- Chars
  Fields <- MCFields
  Lower <- MCLower
  FieldList <- MCFieldList
  Documents <- MCDocuments
  StopWords <- MCStopWords
  NonWord <- MCNonWord
  Queries <- MCQueries
INVARIANT WildcardsStandForSome
