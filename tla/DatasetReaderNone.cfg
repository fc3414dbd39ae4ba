CONSTANTS
  Docs <- MCDocs
  PullSize = 3
  HeaderMax = 11
  MaxMessageSize = 11
  Types = {"T", "U"}
  Fits <- MCFits
SPECIFICATION Spec
PROPERTY AfterErrorNone
