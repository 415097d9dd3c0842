\* All pairs of trees up to four nodes, of short texts and of pages of two boxes.
SPECIFICATION Spec
CONSTANTS
  NoTree = NoTree  NoType = NoType  NoBox = NoBox  NotABox = NotABox
  Requests <- MCRequests
  Unit = "grapheme"
  MAX_NODES = 4  MAX_TED_WORK = 30  MaxTreeNodes = 4
CHECK_DEADLOCK FALSE
INVARIANTS StructureExact WorkIsBounded TextExact BoxesScored
