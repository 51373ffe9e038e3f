SPECIFICATION Spec
CONSTANT Alphabet <- MCAlphabet
INVARIANT TokensKept
CHECK_DEADLOCK FALSE
