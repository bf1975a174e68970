SPECIFICATION Spec
CONSTANTS
  Calls <- MCCalls
  Configs <- MCConfigs
  Chars <- MCChars
  SubagentContext <- MCSubagentContext
  MaxDocs <- MCMaxDocs
INVARIANTS CarriedOutWasChecked SecondChecksAgree SchemaCallsParse
