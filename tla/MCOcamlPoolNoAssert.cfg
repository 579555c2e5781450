\* Built with OCAMLPOOL_NO_ASSERT; the caller runs OCaml inside sections.
CONSTANTS
  Tags <- MCTags
  MaxWosize <- MCMaxWosize
  YoungWords <- MCYoungWords
  HeapWords <- MCHeapWords
  Asserts = FALSE
  ObeyContract = FALSE
SPECIFICATION Spec
PROPERTY MinorAllocDetected
\* abort() ends the process: an aborted state has no successor.
CHECK_DEADLOCK FALSE
