SPECIFICATION Spec
CONSTANTS
  Cards <- MCCards
  NoCard = "empty"
  Content <- MCContent
  Half = 8
  Keys = {1, 4}
  Inserted <- MCInserted
  MaxSwaps = 1
INVARIANTS TypeOK AcceptedTablesAreSound FatStaysInVolume FlushedAtPrompt
