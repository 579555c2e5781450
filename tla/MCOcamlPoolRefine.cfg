\* Built with OCAMLPOOL_NO_ASSERT; the caller keeps the contract.
CONSTANTS
  Tags <- MCTags
  MaxWosize <- MCMaxWosize
  YoungWords <- MCYoungWords
  HeapWords <- MCHeapWords
  Asserts = FALSE
  ObeyContract = TRUE
SPECIFICATION Spec
PROPERTY SectionRefinement
\* abort() ends the process: an aborted state has no successor.
CHECK_DEADLOCK FALSE
