------------------------------ MODULE OcamlPool ------------------------------
(***************************************************************************)
(* ocamlpool.c: the section guard (ocamlpool_enter, ocamlpool_leave), the  *)
(* block allocator (ocamlpool_reserve_block) and the invariant checker     *)
(* (abort_unless, ocamlpool_assert), composed with the OCaml runtime they  *)
(* drive.  One C caller runs in one domain: each action is one call of     *)
(* the caller, either into ocamlpool or into OCaml (OCaml code, a runtime  *)
(* function, a poll), or a signal that the runtime records.  abort() ends  *)
(* the process: no action is enabled once aborted is TRUE.                 *)
(***************************************************************************)
EXTENDS OcamlRuntime, Sequences

CONSTANTS
  Tags,          \* the tag_t values the caller passes to reserve_block
  MaxWosize,     \* the largest mlsize_t the caller passes or OCaml allocates
  Asserts,       \* TRUE iff built without OCAMLPOOL_NO_ASSERT
  ObeyContract   \* TRUE iff the caller runs no OCaml inside a section

ASSUME TagsAssumption == Tags \subseteq 0..255
ASSUME MaxWosizeAssumption == MaxWosize \in Nat \ {0}
ASSUME AssertsAssumption == Asserts \in BOOLEAN
ASSUME ObeyContractAssumption == ObeyContract \in BOOLEAN

VARIABLES
  ocamlpool_in_section,      \* 1 iff inside an ocamlpool section
  ocamlpool_sane_young_ptr,  \* caml_young_ptr copied by ocamlpool_enter
  aborted,                   \* abort() has ended the process
  held,     \* the blocks reserved since the section was opened, as the
            \* caller holds them: [tag, wosize, hd] per reserve_block call
  moved,    \* what OCaml did to the minor heap inside the open section:
            \* "none", "alloc" (allocated only) or "collect"
  leaving   \* the caller is inside ocamlpool_leave, between clearing the
            \* flag (line 91) and caml_process_pending_actions (line 93)

poolvars == <<ocamlpool_in_section, ocamlpool_sane_young_ptr, aborted, held, moved,
             leaving>>
vars == <<rtvars, poolvars>>

Block == [tag : Tags, wosize : 0..MaxWosize, hd : Nat]

Init ==
  /\ RtInit
  /\ ocamlpool_in_section = 0
  /\ ocamlpool_sane_young_ptr = NULL
  /\ aborted = FALSE
  /\ held = <<>>
  /\ moved = "none"
  /\ leaving = FALSE

(* abort(): the process ends, nothing else changes.                        *)
Abort ==
  /\ aborted' = TRUE
  /\ UNCHANGED <<rtvars, ocamlpool_in_section, ocamlpool_sane_young_ptr, held, moved,
                 leaving>>

(* ocamlpool_assert: abort_unless, or nothing under OCAMLPOOL_NO_ASSERT.   *)
ocamlpool_assert(x) == ~Asserts \/ x

(* Fault model for assert_in_section: the young_ptr comparison dropped.   *)
assert_in_section_flag_only == ocamlpool_assert(ocamlpool_in_section = 1)

assert_in_section ==
  ocamlpool_assert(ocamlpool_in_section = 1 /\ ocamlpool_sane_young_ptr = young_ptr)

assert_out_of_section == ocamlpool_assert(ocamlpool_in_section = 0)

(* Fault model for ocamlpool_enter: line 85 left out, the young_ptr of   *)
(* an earlier section stays saved.                                         *)
ocamlpool_enter_no_save ==
  /\ ~aborted /\ ~leaving
  /\ \/ /\ ~assert_out_of_section
        /\ Abort
     \/ /\ assert_out_of_section
        /\ ocamlpool_in_section' = 1
        /\ held' = IF ocamlpool_in_section = 0 THEN <<>> ELSE held
        /\ moved' = IF ocamlpool_in_section = 0 THEN "none" ELSE moved
        /\ UNCHANGED <<rtvars, ocamlpool_sane_young_ptr, aborted, leaving>>

ocamlpool_enter ==
  /\ ~aborted /\ ~leaving
  /\ \/ /\ ~assert_out_of_section
        /\ Abort
     \/ /\ assert_out_of_section
        /\ ocamlpool_in_section' = 1
        /\ ocamlpool_sane_young_ptr' = young_ptr
        \* a fresh section: nothing reserved, nothing moved yet
        /\ held' = IF ocamlpool_in_section = 0 THEN <<>> ELSE held
        /\ moved' = IF ocamlpool_in_section = 0 THEN "none" ELSE moved
        /\ UNCHANGED <<rtvars, aborted, leaving>>

(* Fault model for ocamlpool_leave: caml_process_pending_actions (line    *)
(* 93) called before the flag is cleared (line 91).                        *)
ocamlpool_leave_swapped ==
  /\ ~aborted /\ ~leaving
  /\ \/ /\ ~assert_in_section
        /\ Abort
     \/ /\ assert_in_section
        /\ ProcessPendingActions
        /\ ocamlpool_in_section' = 0
        /\ UNCHANGED <<ocamlpool_sane_young_ptr, aborted, held, moved, leaving>>

(* ocamlpool_leave up to line 91: the check, then the flag is cleared.     *)
ocamlpool_leave ==
  /\ ~aborted /\ ~leaving
  /\ \/ /\ ~assert_in_section
        /\ Abort
     \/ /\ assert_in_section
        /\ ocamlpool_in_section' = 0
        /\ leaving' = TRUE
        /\ UNCHANGED <<rtvars, ocamlpool_sane_young_ptr, aborted, held, moved>>

(* Fault model for ocamlpool_leave_pending: line 93 left out.            *)
ocamlpool_leave_no_pending ==
  /\ ~aborted /\ leaving
  /\ leaving' = FALSE
  /\ UNCHANGED <<rtvars, ocamlpool_in_section, ocamlpool_sane_young_ptr, aborted,
                 held, moved>>

(* ocamlpool_leave, line 93: caml_process_pending_actions, then return.    *)
ocamlpool_leave_pending ==
  /\ ~aborted /\ leaving
  /\ ProcessPendingActions
  /\ leaving' = FALSE
  /\ UNCHANGED <<ocamlpool_in_section, ocamlpool_sane_young_ptr, aborted, held, moved>>

(* Fault model for CountAllocated: the header word is not counted.        *)
CountAllocatedWosize(wosize) == allocated_words' = allocated_words + wosize

(* d->allocated_words += Whsize_wosize(wosize)                             *)
CountAllocated(wosize) == allocated_words' = allocated_words + Whsize_wosize(wosize)

(* Fault model for NewHeader: a fixed colour instead of the current MARKED. *)
NewHeaderFixedColor(wosize, tag) == Make_header(wosize, tag, 0)

(* Fault model for NewHeader: size and tag passed in each other's place.  *)
NewHeaderSwapped(wosize, tag) == Make_header(tag, wosize, marked)

(* Make_header(wosize, tag, caml_global_heap_state.MARKED)                 *)
NewHeader(wosize, tag) == Make_header(wosize, tag, marked)

(* caml_shared_try_alloc and the accounting, then NULL -> abort(), or the  *)
(* header written into the new block.                                      *)
ocamlpool_reserve_block(tag, wosize) ==
  /\ ~aborted /\ ~leaving
  /\ CountAllocated(wosize)
  /\ \/ /\ ~SharedFits(wosize)
        /\ aborted' = TRUE
        /\ UNCHANGED <<heap_used, held>>
     \/ /\ SharedFits(wosize)
        /\ heap_used' = heap_used + Whsize_wosize(wosize)
        /\ held' = Append(held, [tag |-> tag, wosize |-> wosize,
                                 hd |-> NewHeader(wosize, tag)])
        /\ UNCHANGED aborted
  /\ UNCHANGED <<young_ptr, action_pending, stat_major_words, marked,
                 ocamlpool_in_section, ocamlpool_sane_young_ptr, moved, leaving>>

(* What the OCaml step just taken did inside the open section: a lower    *)
(* young_ptr is an allocation, a reset young_ptr or a new MARKED colour a  *)
(* collection, which outweighs any allocation before it.                   *)
MovedAfter ==
  IF ocamlpool_in_section = 0 \/ (young_ptr' = young_ptr /\ marked' = marked)
  THEN moved
  ELSE IF young_ptr' < young_ptr
       THEN IF moved = "none" THEN "alloc" ELSE moved
       ELSE "collect"

(* The caller runs OCaml: it allocates on the minor heap, calls into the   *)
(* collector, or polls.  Inside a section this breaks the caller's         *)
(* contract.                                                               *)
RunOCaml ==
  /\ ~aborted /\ ~leaving
  /\ ocamlpool_in_section = 0 \/ ~ObeyContract
  /\ \/ \E w \in 1..MaxWosize : AllocSmall(w)
     \/ GcWork /\ UNCHANGED action_pending
     \/ ProcessPendingActions
  /\ moved' = MovedAfter
  /\ UNCHANGED <<ocamlpool_in_section, ocamlpool_sane_young_ptr, aborted, held,
                 leaving>>

(* A signal arrives, or a collection is requested, at any time.            *)
Signal ==
  /\ ~aborted
  /\ RecordAction
  /\ UNCHANGED poolvars

Next ==
  \/ ocamlpool_enter
  \/ ocamlpool_leave
  \/ ocamlpool_leave_pending
  \/ \E tag \in Tags, wosize \in 0..MaxWosize : ocamlpool_reserve_block(tag, wosize)
  \/ RunOCaml
  \/ Signal

Spec == Init /\ [][Next]_vars

(* Once ocamlpool_leave has cleared the flag, the caller's thread runs on  *)
(* to line 93: straight-line C code, so that step is weakly fair.  Nothing *)
(* else is: the caller may stay in or out of a section for ever.           *)
FairSpec == Spec /\ WF_vars(ocamlpool_leave_pending)

-----------------------------------------------------------------------------

TypeOK ==
  /\ RtTypeOK
  /\ ocamlpool_in_section \in {0, 1}
  /\ ocamlpool_sane_young_ptr \in {NULL} \cup (YoungStart..YoungEnd)
  /\ aborted \in BOOLEAN
  /\ held \in Seq(Block)
  /\ moved \in {"none", "alloc", "collect"}
  /\ leaving \in BOOLEAN

(* A normal return from ocamlpool_leave: the section closes, no abort.     *)
LeftSection ==
  ocamlpool_in_section = 1 /\ ocamlpool_in_section' = 0 /\ ~aborted'

(* The accounting of ocamlpool_reserve_block keeps the runtime's books     *)
(* right: every word the shared heap handed out is counted once, either in *)
(* allocated_words (since the last slice) or in stat_major_words, across   *)
(* any number of reservations, slices and cycle ends.                      *)
AccountingExact ==
  ~aborted => stat_major_words + allocated_words = heap_used

(* While a section is open, every block reserved in it has a header that   *)
(* decodes to the tag and size the caller passed and carries the colour    *)
(* the collector currently calls MARKED, so the collector sees it as a     *)
(* live, complete object (ocamlpool_reserve_block, Make_header).           *)
SectionBlocksLive ==
  (ocamlpool_in_section = 1 /\ ~aborted) =>
    \A i \in 1..Len(held) :
      /\ Tag_hd(held[i].hd) = held[i].tag
      /\ Wosize_hd(held[i].hd) = held[i].wosize
      /\ Color_hd(held[i].hd) = marked

(* ocamlpool_leave's drift check catches OCaml code that allocated on the  *)
(* minor heap inside the section: a section in which OCaml allocated, and  *)
(* no collection ran, never closes normally.                               *)
MinorAllocDetected == [][LeftSection => moved # "alloc"]_vars

(* The ghost variable moved tracks young_ptr against the copy that         *)
(* ocamlpool_enter saved: while a section is open and the process alive,   *)
(* nothing moved means young_ptr is still the saved value, and a minor     *)
(* allocation with no collection after it means young_ptr is strictly     *)
(* below it.  It holds only in the asserts build, where a nested          *)
(* ocamlpool_enter aborts instead of re-saving young_ptr over a section    *)
(* that already allocated.                                                 *)
DriftTracked ==
  (ocamlpool_in_section = 1 /\ ~aborted) =>
    /\ moved = "none" => young_ptr = ocamlpool_sane_young_ptr
    /\ moved = "alloc" => young_ptr < ocamlpool_sane_young_ptr

(* A section that ocamlpool_leave lets close normally hands back blocks    *)
(* that are still MARKED: no collection cycle ended while it was open.     *)
BlocksLiveAtLeave ==
  [][LeftSection => \A i \in 1..Len(held) : Color_hd(held[i].hd) = marked]_vars

(* spec.md section 8: reserve_block outside a section aborts; the shared  *)
(* heap only grows through the pool inside a section.                      *)
ReserveOnlyInSection ==
  [][(heap_used' > heap_used /\ ~aborted') => ocamlpool_in_section = 1]_vars

(* The collector never runs while a section is open (spec.md 5), pending   *)
(* actions included: ocamlpool_leave clears the flag before it calls       *)
(* caml_process_pending_actions, so a collection those actions start       *)
(* happens outside the section.  The collector ran in a step when it       *)
(* emptied the minor heap, accounted a slice or ended a cycle.             *)
CollectorRan ==
  \/ young_ptr' > young_ptr
  \/ stat_major_words' # stat_major_words
  \/ marked' # marked
NoCollectionInSection ==
  [][CollectorRan => ocamlpool_in_section = 0 /\ ocamlpool_in_section' = 0]_vars

(* A signal recorded before ocamlpool_leave returns (during the section,   *)
(* or between lines 91 and 93) is handled before the caller gets control   *)
(* back: leave ends with caml_process_pending_actions.                     *)
SignalHandledByLeave == (leaving /\ action_pending) ~> ~action_pending

-----------------------------------------------------------------------------
(* Refinement: OcamlPool implements SectionProtocol.  The section is open  *)
(* while the flag is 1, and its log is the blocks the caller holds, each   *)
(* live iff its header still decodes to its tag and size and carries the   *)
(* current MARKED colour.                                                  *)

BlockLive(b) ==
  /\ Tag_hd(b.hd) = b.tag
  /\ Wosize_hd(b.hd) = b.wosize
  /\ Color_hd(b.hd) = marked

SectionStatus ==
  IF aborted THEN "aborted"
  ELSE IF ocamlpool_in_section = 1 THEN "open" ELSE "closed"

SectionLog ==
  IF aborted \/ ocamlpool_in_section = 0 THEN <<>>
  ELSE [i \in 1..Len(held) |->
          [tag |-> held[i].tag, wosize |-> held[i].wosize, live |-> BlockLive(held[i])]]

SP == INSTANCE SectionProtocol WITH status <- SectionStatus, log <- SectionLog

(* ocamlpool keeps the promise of a section: opening starts an empty log,  *)
(* each reservation appends one live block of the tag and size asked,      *)
(* nothing (no collection, no later reservation) spoils a block already    *)
(* handed out while the section is open, and every failure is an abort.   *)
SectionRefinement == SP!Spec
=============================================================================
