\* Two runs over every single odd field in otherwise good documents and over pairs of rules;
\* three invocations and an operator on one namespace of two kinds of resources.
CONSTANTS
  h1 = h1
  h2 = h2
  Absent = Absent
  Wrong = Wrong
  LegalParts <- MCLegalParts
  NormalizedFields <- MCFields
  Globs = {"x*"}
  LongValues = {"too long"}
  Severities = {"CRITICAL"}
  MaxThreshold = 2
  Documents <- MCDocuments
  MaxRuns = 2
  Order <- MCOrder
  NoFile = NoFile
  Torn = Torn
  NoReport = NoReport
  MaxIssues = 2
  MaxFit = 1
  ReportCodes <- MCReportCodes
  Events <- MCEvents
  Invocations = {i1, i2, i3}
  Operator = Operator
  NoClaim = NoClaim
  Kinds <- MCKinds
SPECIFICATION ScriptsSpec
CHECK_DEADLOCK FALSE
INVARIANTS
  OutputIsWhole
  ReportIsTrue
  
  PublishedIsReadable
  RulesDecideAlike
  NamespaceIsExclusive
  PassedIsClean
