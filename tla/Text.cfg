\* Every text within two characters of a few configurations and requests.
CONSTANTS
  Seeds <- MCSeeds
  Chars <- MCChars
  MaxEdits = 2
  BuffSize = 16
  MaxUriSize = 2
  Double <- MCDouble
  Precision = 3
  MaxLong = 127
  Overflow <- MCOverflow
SPECIFICATION Spec
\* The texts that have been changed enough are not changed any more.
CHECK_DEADLOCK FALSE
INVARIANTS
  TypeOK
  ReadsTheGrammar
  PrintedReadsBack
  ConfKeepsDocument
  NamesKept
  RequestUnderstood
  TailHarmless
  FormUnderstood
