\* Windows with room for less than nothing, nothing, one and three lines.
SPECIFICATION Spec
CONSTANTS
  Text <- ShortText
  MaxLength = 5
  Heights = {7, 8, 9, 11}
  Widths = {3, 4, 5, 6, 9}
  Handlers = {1, 2}
CHECK_DEADLOCK FALSE
INVARIANTS InBounds AnswerWasGiven WholeText
