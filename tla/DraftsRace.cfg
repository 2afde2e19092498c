SPECIFICATION Spec
CONSTANTS
  AllDrafts = {draft}
  NoDraft = NoDraft
  NoText = NoText
  Own = Own
  Handlers = {h1, h2}
  MaxRevision = 1
SYMMETRY Symmetry
CHECK_DEADLOCK FALSE
PROPERTY
  DecidedOnce
