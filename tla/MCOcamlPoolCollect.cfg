\* The caller runs OCaml, collector included, inside sections; asserts on.
CONSTANTS
  Tags <- MCTags
  MaxWosize <- MCMaxWosize
  YoungWords <- MCYoungWords
  HeapWords <- MCHeapWords
  Asserts = TRUE
  ObeyContract = FALSE
SPECIFICATION Spec
PROPERTY BlocksLiveAtLeave
\* abort() ends the process: an aborted state has no successor.
CHECK_DEADLOCK FALSE
