CONSTANTS
  Width = 3
  COUNT_DOCID = 2
  Docs = {1, 2}
  WordSets = {{}, {0, 1}, {1, 2}, {1, 3}, {2, 3}, {7}}
  MaxDocs = 5
SPECIFICATION Spec
INVARIANTS TypeOK NothingLost IndexIsRight
CHECK_DEADLOCK FALSE
