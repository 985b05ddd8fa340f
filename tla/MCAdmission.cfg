\* One request with every kind of payload, over four topology and three rule files.
CONSTANTS
  NoText = NoText
  NoLength = NoLength
  Garbled = Garbled
  Nothing = Nothing
  TagOrder <- MCOrder
  SensitiveKeys <- MCSensitive
  Texts <- MCTexts
  Bytes <- MCBytes
  Secrets <- MCSecrets
  Leaks <- MCLeaks
  Placeholder = "redacted"
  Cut <- MCCut
  KeyBytes <- MCKeyBytes
  MaxStored = 29
  MaxShown = 2
  MaxShownBytes = 15
  Limits <- MCLimits
  Lengths <- MCLengths
  Chunks <- MCChunks
  MaxSent = 3
  Payloads <- MCPayloads
  Topologies <- MCTopologies
  RuleFiles <- MCRuleFiles
  MaxTags = 3
  MaxTagBytes = 24
  MaxMessage = 13
  MaxMatch = 8
SPECIFICATION RequestSpec
CHECK_DEADLOCK FALSE
INVARIANTS
  BodyIsWhole
  AcceptedIsAudited
  DiagnosticsExplainTags
  
  CopiesFit
