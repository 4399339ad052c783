CONSTANTS
  Statements <- SmallStatements
  MaxStatements = 4
  Sheets <- SmallSheets
  Classes <- SmallClasses
  MalformedConditions = {"outcome="}
  KnownTypes = {"codergen"}
  Modes = {"full"}
  Unset = Unset
SPECIFICATION Spec
CHECK_DEADLOCK FALSE
INVARIANTS ParsedAsWritten StyleResolved PreparedIsValid
