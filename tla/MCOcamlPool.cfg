\* The caller keeps the contract (no OCaml inside a section), asserts on.
CONSTANTS
  Tags <- MCTags
  MaxWosize <- MCMaxWosize
  YoungWords <- MCYoungWords
  HeapWords <- MCHeapWords
  Asserts = TRUE
  ObeyContract = TRUE
SPECIFICATION Spec
INVARIANTS TypeOK AccountingExact SectionBlocksLive
PROPERTY NoCollectionInSection
\* abort() ends the process: an aborted state has no successor.
CHECK_DEADLOCK FALSE
