SPECIFICATION Spec
CHECK_DEADLOCK FALSE
CONSTANTS
    Drafts <- MCDrafts
    Parsed <- MCParsed
    Laid <- MCLaid
    Known <- MCKnown
INVARIANTS
  SameTree Settled CommentsStay
