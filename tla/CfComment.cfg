SPECIFICATION DSpec
CONSTANTS
  NOTHING = NOTHING
  Inputs = {}
  MaxAdds = 1
  Documents <- CommentDocuments
CHECK_DEADLOCK FALSE
INVARIANT SkipsComments
