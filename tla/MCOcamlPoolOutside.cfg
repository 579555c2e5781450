\* The caller keeps the contract; reserve_block may be called outside a section.
CONSTANTS
  Tags <- MCTags
  MaxWosize <- MCMaxWosize
  YoungWords <- MCYoungWords
  HeapWords <- MCHeapWords
  Asserts = TRUE
  ObeyContract = TRUE
SPECIFICATION Spec
PROPERTY ReserveOnlyInSection
\* abort() ends the process: an aborted state has no successor.
CHECK_DEADLOCK FALSE
