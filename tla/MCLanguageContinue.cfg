SPECIFICATION Spec
CONSTANTS
  Programs <- Skipping
  Texts = {}
  Styles = {"long"}
INVARIANT
  RunsAsWritten
