---------------------------- MODULE OcamlRuntime ----------------------------
(***************************************************************************)
(* The part of the OCaml 5 runtime that ocamlpool reads and writes: the    *)
(* minor-heap cursor caml_young_ptr, the shared (major) heap that          *)
(* caml_shared_try_alloc carves blocks from, the domain's allocation       *)
(* accounting (allocated_words, stat_major_words), the colour the major    *)
(* collector currently calls MARKED, and the pending-action flag.  None of *)
(* this is code of the repository: it is the external collaborator of     *)
(* spec.md section 6, reduced to what the pool's guards and headers depend *)
(* on.  The header layout is that of OCaml 5: tag in bits 0..7, colour in  *)
(* bits 8..9, wosize from bit 10 up.                                       *)
(***************************************************************************)
EXTENDS Naturals

CONSTANTS
  YoungWords,   \* words of the minor heap (young_end - young_start)
  HeapWords     \* words caml_shared_try_alloc can hand out before it fails

ASSUME YoungWordsAssumption == YoungWords \in Nat \ {0}
ASSUME HeapWordsAssumption == HeapWords \in Nat

VARIABLES
  young_ptr,         \* Caml_state->young_ptr: allocation moves it down
  action_pending,    \* Caml_state->action_pending
  allocated_words,   \* Caml_state->allocated_words: major words since the last slice
  stat_major_words,  \* Caml_state->stat_major_words: words accounted by past slices
  heap_used,         \* words the shared heap has handed out
  marked             \* caml_global_heap_state.MARKED

rtvars == <<young_ptr, action_pending, allocated_words, stat_major_words,
            heap_used, marked>>

NULL == 0
YoungStart == 1
YoungEnd == YoungStart + YoungWords

(* Header colours are the values 0, 1 and 2 shifted to bits 8..9.          *)
ColorShift == 256
Colors == {0, ColorShift, 2 * ColorShift}

(* A collection cycle ends with MARKED := GARBAGE, UNMARKED := MARKED,      *)
(* GARBAGE := UNMARKED: every colour moves one step down modulo three.     *)
Rotate(c) == ((c \div ColorShift + 2) % 3) * ColorShift

Whsize_wosize(wosize) == wosize + 1

Make_header(wosize, tag, color) == wosize * 1024 + color + tag
Tag_hd(hd) == hd % 256
Color_hd(hd) == (hd % 1024) - Tag_hd(hd)
Wosize_hd(hd) == hd \div 1024

RtTypeOK ==
  /\ young_ptr \in YoungStart..YoungEnd
  /\ action_pending \in BOOLEAN
  /\ allocated_words \in Nat
  /\ stat_major_words \in Nat
  /\ heap_used \in 0..HeapWords
  /\ marked \in Colors

RtInit ==
  /\ young_ptr = YoungEnd
  /\ action_pending = FALSE
  /\ allocated_words = 0
  /\ stat_major_words = 0
  /\ heap_used = 0
  /\ marked = 0

(* Fault model for SharedFits: a block may overrun the heap by one word.   *)
SharedFitsOneOver(wosize) == heap_used + Whsize_wosize(wosize) <= HeapWords + 1

(* caml_shared_try_alloc succeeds iff the block fits in what is left.      *)
SharedFits(wosize) == heap_used + Whsize_wosize(wosize) <= HeapWords

(* Alloc_small fast path: the block fits below young_ptr.                  *)
AllocSmall(wosize) ==
  /\ young_ptr - Whsize_wosize(wosize) >= YoungStart
  /\ young_ptr' = young_ptr - Whsize_wosize(wosize)
  /\ UNCHANGED <<action_pending, allocated_words, stat_major_words,
                 heap_used, marked>>

(* caml_empty_minor_heaps: the minor heap is emptied.                      *)
MinorCollection ==
  /\ young_ptr' = YoungEnd
  /\ UNCHANGED <<allocated_words, stat_major_words, heap_used, marked>>

(* caml_major_collection_slice: the words allocated since the last slice   *)
(* are accounted and allocated_words starts again from zero.               *)
MajorSlice ==
  /\ stat_major_words' = stat_major_words + allocated_words
  /\ allocated_words' = 0
  /\ UNCHANGED <<young_ptr, heap_used, marked>>

(* A slice that ends the cycle: the stop-the-world cycle empties the minor *)
(* heap and rotates the colours.                                           *)
CycleEnd ==
  /\ stat_major_words' = stat_major_words + allocated_words
  /\ allocated_words' = 0
  /\ young_ptr' = YoungEnd
  /\ marked' = Rotate(marked)
  /\ UNCHANGED heap_used

(* The collector's work; the caller of GcWork says what becomes of        *)
(* action_pending.                                                         *)
GcWork == MinorCollection \/ MajorSlice \/ CycleEnd

(* A signal, or a request for a collection, is recorded for later.         *)
RecordAction ==
  /\ action_pending' = TRUE
  /\ UNCHANGED <<young_ptr, allocated_words, stat_major_words, heap_used, marked>>

(* caml_process_pending_actions: runs what is pending, which may collect.  *)
ProcessPendingActions ==
  \/ /\ ~action_pending
     /\ UNCHANGED rtvars
  \/ /\ action_pending
     /\ \/ UNCHANGED <<young_ptr, allocated_words, stat_major_words, heap_used, marked>>
        \/ GcWork
     /\ action_pending' = FALSE
=============================================================================
