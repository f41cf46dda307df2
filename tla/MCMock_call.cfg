CONSTANTS
  Half = 8
  Numeral <- MCNumeral
  EnumNumber <- MCEnumNumber
  NoValue = "<no value>"
  Garbled = "?"
  Call = {c1, c2}
  Config <- MCConfig
  Calls <- MCCalls
  Incoming <- MCIncoming
  MaxUnread = 1
SPECIFICATION Spec
CHECK_DEADLOCK FALSE
INVARIANTS
  TypeOK
  SentAsConfigured
  MatchedAsWritten
  BuildsUnlessRecursive
  LoadedRuleAnswers
  OutcomeTellsAll
PROPERTIES
  SendsItsOwn
  ServesOn
  Responds
  Returns
