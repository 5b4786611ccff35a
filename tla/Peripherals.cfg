SPECIFICATION PeripheralsSpec
CONSTANTS
  Settings = {"FREQ", "OUTP"}
  Values = {0, 1, 2}
  Allowed <- Ranges
  Tolerance <- Tolerances
  MaxAttempts = 2
  Retries = 1
  MaxCalls = 2
  MaxSize = 2
  MaxBackups = 2
  BufferSize = 1
  MaxLines = 9
  Lines <- HexLines
  ChunkSize = 2
  BlocksPerVolume = 2
  MaxBlocks = 3
  MaxTextLines = 4
  PPBs = {p1}
  Masks <- StatusMasks
  MaxWords = 4
  Watts = {w1}
  MaxAnswers = 2
  Versions <- ReleaseVersions
  Listings <- ReleaseListings
INVARIANTS GeneratorTypeOK NoLineLost VolumesAreTheImage SentIfWellFormed FieldsAreWhole OfferIsBest InstallerIsWhole
PROPERTIES VerifiedIsApplied CallEnds AnswersKeepSettings
CHECK_DEADLOCK FALSE
