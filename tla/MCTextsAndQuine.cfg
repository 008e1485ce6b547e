SPECIFICATION MCSpec
CONSTANTS
  HexLetters = {"a", "A"}
  Digits = {"1"}
  Letters = {"g"}
  Punctuation = {"-"}
  Lower <- MCLower
  MinToken = 2
  MaxToken = 4
  Swearwords <- MCSwearwords
  Allowed <- MCAllowed
  Hash <- MCHash
  MinPrefix = 2
  Ascii = {"x", " "}
  Blank = {" "}
  Width <- MCWidth
  Utf8 <- MCUtf8
  Utf8Blank <- MCUtf8Blank
  MaxText = 6
  MaxBytes = 6
  NoChar = NoChar
  DigitBits = 1
  WordBits = 4
  BatchSize = 2
  MinLen = 2
  MaxLen = 4
  PrefixLens = {1, 3, 4}
  ThreadCounts = {0, 1, 2, 3}
  Targets <- MCTargets
  Hashes <- MCHashes
  NotLowerHex = NotLowerHex
  Nothing = Nothing
INVARIANTS
  TokensStandAlone
  ProfanityStandsAlone
  LongestPrefixFound
  BlobsCompareByCharacter
  SearchIsRight
  StopsWithinABatch
CHECK_DEADLOCK FALSE
