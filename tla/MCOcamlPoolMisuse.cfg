\* The caller runs OCaml inside sections; asserts on; leave runs on to line 93.
CONSTANTS
  Tags <- MCTags
  MaxWosize <- MCMaxWosize
  YoungWords <- MCYoungWords
  HeapWords <- MCHeapWords
  Asserts = TRUE
  ObeyContract = FALSE
SPECIFICATION FairSpec
INVARIANT DriftTracked
PROPERTIES MinorAllocDetected SignalHandledByLeave
\* abort() ends the process: an aborted state has no successor.
CHECK_DEADLOCK FALSE
