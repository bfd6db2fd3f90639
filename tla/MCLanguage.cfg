SPECIFICATION Spec
CONSTANTS
  Programs <- Clear
  Texts <- OnlyParsed
  Styles = {"long", "short"}
INVARIANTS
  ParsesAsWritten
  SlotsMatchLocals
  RunsAsWritten
PROPERTY
  Terminates
