--------------------------- MODULE OcamlPoolProofs ---------------------------
(***************************************************************************)
(* Proofs about OcamlPool, for every value of the constants that meets     *)
(* their assumptions: type correctness, exact allocation accounting, and   *)
(* (for a caller that keeps the section contract) that every block        *)
(* reserved in an open section is well formed and MARKED.                  *)
(***************************************************************************)
EXTENDS OcamlPool, TLAPS

USE YoungWordsAssumption, HeapWordsAssumption, TagsAssumption,
    MaxWosizeAssumption, AssertsAssumption, ObeyContractAssumption

(* The colour rotation at the end of a cycle stays among the colours.      *)
LEMMA RotateColors ==
  ASSUME NEW c \in Colors
  PROVE  Rotate(c) \in Colors
BY DEF Rotate, Colors, ColorShift

(* A header built by Make_header decodes back to its three fields.         *)
LEMMA HeaderDecode ==
  ASSUME NEW w \in Nat, NEW t \in 0..255, NEW c \in Colors
  PROVE  /\ Tag_hd(Make_header(w, t, c)) = t
         /\ Wosize_hd(Make_header(w, t, c)) = w
         /\ Color_hd(Make_header(w, t, c)) = c
BY DEF Make_header, Tag_hd, Wosize_hd, Color_hd, Colors, ColorShift

-----------------------------------------------------------------------------
(* Type correctness.                                                       *)

(* Whatever the collector does leaves the runtime's state well typed and   *)
(* the shared heap untouched.                                              *)
LEMMA GcWorkTypes ==
  ASSUME RtTypeOK, GcWork
  PROVE  /\ young_ptr' \in YoungStart..YoungEnd
         /\ allocated_words' \in Nat
         /\ stat_major_words' \in Nat
         /\ heap_used' = heap_used
         /\ marked' \in Colors
<1>1. CASE MinorCollection
  BY <1>1 DEF MinorCollection, RtTypeOK, YoungStart, YoungEnd
<1>2. CASE MajorSlice
  BY <1>2 DEF MajorSlice, RtTypeOK
<1>3. CASE CycleEnd
  BY <1>3, RotateColors DEF CycleEnd, RtTypeOK, YoungStart, YoungEnd
<1>4. QED
  BY <1>1, <1>2, <1>3 DEF GcWork

(* caml_process_pending_actions preserves the runtime's types.             *)
LEMMA PendingTypes ==
  ASSUME RtTypeOK, ProcessPendingActions
  PROVE  RtTypeOK'
<1>1. CASE ~action_pending
  BY <1>1 DEF ProcessPendingActions, RtTypeOK, rtvars
<1>2. CASE action_pending
  <2>1. action_pending' \in BOOLEAN
    BY <1>2, Zenon DEF ProcessPendingActions
  <2>2. CASE UNCHANGED <<young_ptr, allocated_words, stat_major_words, heap_used, marked>>
    BY <2>1, <2>2 DEF RtTypeOK
  <2>3. CASE GcWork
    BY <2>1, <2>3, GcWorkTypes DEF RtTypeOK
  <2>4. QED
    BY <1>2, <2>2, <2>3 DEF ProcessPendingActions
<1>3. QED
  BY <1>1, <1>2

(* Every reachable state gives each variable of ocamlpool.c and of the     *)
(* runtime a value of its type; in particular the shared heap never hands  *)
(* out more than HeapWords and young_ptr stays inside the minor heap.      *)
THEOREM TypeCorrect == Spec => []TypeOK
<1>1. Init => TypeOK
  <2> SUFFICES ASSUME Init PROVE TypeOK
    OBVIOUS
  <2>1. action_pending \in BOOLEAN /\ aborted \in BOOLEAN /\ leaving \in BOOLEAN
    BY Zenon DEF Init, RtInit
  <2>2. QED
    BY <2>1 DEF Init, RtInit, TypeOK, RtTypeOK, YoungStart, YoungEnd, Colors,
       ColorShift, NULL
<1>2. TypeOK /\ [Next]_vars => TypeOK'
  <2> SUFFICES ASSUME TypeOK, [Next]_vars PROVE TypeOK'
    OBVIOUS
  <2>1. CASE Abort
    BY <2>1 DEF Abort, TypeOK, RtTypeOK, rtvars
  <2>2. CASE ocamlpool_enter
    <3>1. CASE ~assert_out_of_section
      BY <2>1, <2>2, <3>1 DEF ocamlpool_enter
    <3>2. CASE assert_out_of_section
      <4>1. /\ RtTypeOK'
            /\ ocamlpool_in_section' \in {0, 1}
            /\ ocamlpool_sane_young_ptr' \in {NULL} \cup (YoungStart..YoungEnd)
            /\ aborted' \in BOOLEAN
            /\ UNCHANGED leaving
        BY <2>2, <3>2 DEF ocamlpool_enter, TypeOK, RtTypeOK, rtvars
      <4>2. held' \in Seq(Block) /\ moved' \in {"none", "alloc", "collect"}
        <5>1. CASE ocamlpool_in_section = 0
          BY <2>2, <3>2, <5>1 DEF ocamlpool_enter, TypeOK
        <5>2. CASE ocamlpool_in_section # 0
          BY <2>2, <3>2, <5>2 DEF ocamlpool_enter, TypeOK
        <5>3. QED
          BY <5>1, <5>2
      <4>3. QED
        BY <4>1, <4>2 DEF TypeOK
    <3>3. QED
      BY <3>1, <3>2
  <2>3. CASE ocamlpool_leave
    <3>1. CASE ~assert_in_section
      BY <2>1, <2>3, <3>1 DEF ocamlpool_leave
    <3>2. CASE assert_in_section
      <4>1. /\ ocamlpool_in_section' = 0
            /\ leaving' = TRUE
            /\ UNCHANGED <<rtvars, ocamlpool_sane_young_ptr, aborted, held, moved>>
        BY <2>3, <3>2 DEF ocamlpool_leave
      <4>2. leaving' \in BOOLEAN
        BY <4>1, Zenon
      <4>3. QED
        BY <4>1, <4>2 DEF TypeOK, RtTypeOK, rtvars
    <3>3. QED
      BY <3>1, <3>2
  <2>9. CASE ocamlpool_leave_pending
    <3>1. /\ ProcessPendingActions
          /\ leaving' = FALSE
          /\ UNCHANGED <<ocamlpool_in_section, ocamlpool_sane_young_ptr, aborted, held, moved>>
      BY <2>9 DEF ocamlpool_leave_pending
    <3>2. leaving' \in BOOLEAN
      BY <3>1, Zenon
    <3>3. QED
      BY <3>1, <3>2, PendingTypes DEF TypeOK
  <2>4. ASSUME NEW tag \in Tags, NEW wosize \in 0..MaxWosize,
               ocamlpool_reserve_block(tag, wosize)
        PROVE  TypeOK'
    <3>1. NewHeader(wosize, tag) \in Nat
      BY DEF TypeOK, RtTypeOK, NewHeader, Make_header, Colors, ColorShift
    <3>2. /\ allocated_words' \in Nat
          /\ UNCHANGED <<young_ptr, action_pending, stat_major_words, marked,
                         ocamlpool_in_section, ocamlpool_sane_young_ptr, moved, leaving>>
      BY <2>4 DEF ocamlpool_reserve_block, CountAllocated, Whsize_wosize,
         TypeOK, RtTypeOK
    <3>3. CASE ~SharedFits(wosize)
      <4>1. aborted' = TRUE /\ UNCHANGED <<heap_used, held>>
        BY <2>4, <3>3 DEF ocamlpool_reserve_block
      <4>2. QED
        BY <3>2, <4>1 DEF TypeOK, RtTypeOK
    <3>4. CASE SharedFits(wosize)
      <4>1. /\ heap_used' = heap_used + Whsize_wosize(wosize)
            /\ held' = Append(held, [tag |-> tag, wosize |-> wosize,
                                     hd |-> NewHeader(wosize, tag)])
            /\ UNCHANGED aborted
        BY <2>4, <3>4 DEF ocamlpool_reserve_block
      <4>2. QED
        BY <3>1, <3>2, <3>4, <4>1 DEF SharedFits, Whsize_wosize, TypeOK,
           RtTypeOK, Block
    <3>5. QED
      BY <3>3, <3>4
  <2>5. CASE RunOCaml
    <3>1. moved' \in {"none", "alloc", "collect"}
      BY <2>5 DEF RunOCaml, MovedAfter, TypeOK
    <3>2. RtTypeOK'
      <4>1. CASE \E w \in 1..MaxWosize : AllocSmall(w)
        <5>1. PICK w \in 1..MaxWosize : AllocSmall(w)
          BY <4>1
        <5>2. young_ptr' \in YoungStart..YoungEnd
          BY <5>1 DEF AllocSmall, Whsize_wosize, TypeOK, RtTypeOK, YoungStart, YoungEnd
        <5>3. UNCHANGED <<action_pending, allocated_words, stat_major_words,
                          heap_used, marked>>
          BY <5>1 DEF AllocSmall
        <5>4. QED
          BY <5>2, <5>3 DEF TypeOK, RtTypeOK
      <4>2. CASE GcWork /\ UNCHANGED action_pending
        BY <4>2, GcWorkTypes DEF TypeOK, RtTypeOK
      <4>3. CASE ProcessPendingActions
        BY <4>3, PendingTypes DEF TypeOK
      <4>4. QED
        BY <2>5, <4>1, <4>2, <4>3 DEF RunOCaml
    <3>3. UNCHANGED <<ocamlpool_in_section, ocamlpool_sane_young_ptr, aborted, held,
                      leaving>>
      BY <2>5 DEF RunOCaml
    <3>4. QED
      BY <3>1, <3>2, <3>3 DEF TypeOK
  <2>6. CASE Signal
    BY <2>6 DEF Signal, RecordAction, TypeOK, RtTypeOK, poolvars
  <2>7. CASE UNCHANGED vars
    BY <2>7 DEF vars, rtvars, poolvars, TypeOK, RtTypeOK
  <2>8. QED
    BY <2>2, <2>3, <2>4, <2>5, <2>6, <2>7, <2>9 DEF Next
<1>3. QED
  BY <1>1, <1>2, PTL DEF Spec

-----------------------------------------------------------------------------
(* Accounting.                                                             *)

(* The collector and the pending actions move words from allocated_words  *)
(* to stat_major_words and never change the heap's usage.                  *)
LEMMA PendingBooks ==
  ASSUME RtTypeOK, ProcessPendingActions \/ GcWork
  PROVE  /\ stat_major_words' + allocated_words' = stat_major_words + allocated_words
         /\ heap_used' = heap_used
<1>1. CASE MinorCollection
  BY <1>1 DEF MinorCollection
<1>2. CASE MajorSlice
  BY <1>2 DEF MajorSlice, RtTypeOK
<1>3. CASE CycleEnd
  BY <1>3 DEF CycleEnd, RtTypeOK
<1>4. CASE UNCHANGED <<young_ptr, allocated_words, stat_major_words, heap_used, marked>>
  BY <1>4
<1>5. QED
  BY <1>1, <1>2, <1>3, <1>4 DEF ProcessPendingActions, GcWork, rtvars

(* Every word ocamlpool_reserve_block takes from the shared heap is        *)
(* counted exactly once in the domain's books, allocated_words until the   *)
(* next major slice and stat_major_words after it, however reservations,   *)
(* slices and cycle ends interleave.                                       *)
THEOREM AccountingCorrect == Spec => []AccountingExact
<1>1. Init => AccountingExact
  BY DEF Init, RtInit, AccountingExact
<1>2. TypeOK /\ AccountingExact /\ [Next]_vars => AccountingExact'
  <2> SUFFICES ASSUME TypeOK, AccountingExact, [Next]_vars
               PROVE  AccountingExact'
    OBVIOUS
  <2>1. CASE ocamlpool_enter
    BY <2>1 DEF ocamlpool_enter, Abort, AccountingExact, rtvars
  <2>2. CASE ocamlpool_leave
    <3>1. CASE ~assert_in_section
      BY <2>2, <3>1 DEF ocamlpool_leave, Abort, AccountingExact
    <3>2. CASE assert_in_section
      BY <2>2, <3>2 DEF ocamlpool_leave, AccountingExact, rtvars
    <3>3. QED
      BY <3>1, <3>2
  <2>8. CASE ocamlpool_leave_pending
    <3>1. ProcessPendingActions /\ UNCHANGED aborted
      BY <2>8 DEF ocamlpool_leave_pending
    <3>2. QED
      BY <3>1, PendingBooks DEF AccountingExact, TypeOK
  <2>3. ASSUME NEW tag \in Tags, NEW wosize \in 0..MaxWosize,
               ocamlpool_reserve_block(tag, wosize)
        PROVE  AccountingExact'
    <3>1. /\ allocated_words' = allocated_words + Whsize_wosize(wosize)
          /\ UNCHANGED stat_major_words
      BY <2>3 DEF ocamlpool_reserve_block, CountAllocated
    <3>2. CASE ~SharedFits(wosize)
      <4>1. aborted' = TRUE
        BY <2>3, <3>2 DEF ocamlpool_reserve_block
      <4>2. QED
        BY <4>1 DEF AccountingExact
    <3>3. CASE SharedFits(wosize)
      <4>1. heap_used' = heap_used + Whsize_wosize(wosize) /\ UNCHANGED aborted
        BY <2>3, <3>3 DEF ocamlpool_reserve_block
      <4>2. QED
        BY <3>1, <4>1 DEF AccountingExact, TypeOK, RtTypeOK, Whsize_wosize
    <3>4. QED
      BY <3>2, <3>3
  <2>4. CASE RunOCaml
    <3>1. UNCHANGED aborted
      BY <2>4 DEF RunOCaml
    <3>2. CASE \E w \in 1..MaxWosize : AllocSmall(w)
      BY <3>1, <3>2 DEF AllocSmall, AccountingExact
    <3>3. CASE GcWork \/ ProcessPendingActions
      BY <3>1, <3>3, PendingBooks DEF AccountingExact, TypeOK
    <3>4. QED
      BY <2>4, <3>2, <3>3 DEF RunOCaml
  <2>5. CASE Signal
    BY <2>5 DEF Signal, RecordAction, AccountingExact, poolvars
  <2>6. CASE UNCHANGED vars
    BY <2>6 DEF vars, rtvars, poolvars, AccountingExact
  <2>7. QED
    BY <2>1, <2>2, <2>3, <2>4, <2>5, <2>6, <2>8 DEF Next
<1>3. QED
  BY <1>1, <1>2, TypeCorrect, PTL DEF Spec
-----------------------------------------------------------------------------
(* Blocks of an open section.                                              *)

(* For a caller that runs no OCaml inside a section, every block that      *)
(* ocamlpool_reserve_block returned since the section opened decodes to    *)
(* the tag and size asked for and still carries the colour the collector   *)
(* calls MARKED, whichever build (asserts or OCAMLPOOL_NO_ASSERT) and      *)
(* however many sections, reservations and collections came before.       *)
(* Between clearing the flag and calling caml_process_pending_actions,     *)
(* ocamlpool_leave is outside the section: no other call of the caller     *)
(* runs then, so nothing sets the flag again before leave returns.         *)
LeavingClosed == leaving => ocamlpool_in_section = 0

LEMMA LeavingClosedInv == Spec => []LeavingClosed
<1>1. Init => LeavingClosed
  BY DEF Init, LeavingClosed
<1>2. LeavingClosed /\ [Next]_vars => LeavingClosed'
  <2> SUFFICES ASSUME LeavingClosed, [Next]_vars PROVE LeavingClosed'
    OBVIOUS
  <2>1. CASE ocamlpool_enter
    BY Zenon, <2>1 DEF ocamlpool_enter, Abort, LeavingClosed
  <2>2. CASE ocamlpool_leave
    BY Zenon, <2>2 DEF ocamlpool_leave, Abort, LeavingClosed
  <2>3. CASE ocamlpool_leave_pending
    BY <2>3 DEF ocamlpool_leave_pending, LeavingClosed
  <2>4. CASE \E tag \in Tags, wosize \in 0..MaxWosize : ocamlpool_reserve_block(tag, wosize)
    BY <2>4 DEF ocamlpool_reserve_block, LeavingClosed
  <2>5. CASE RunOCaml
    BY <2>5 DEF RunOCaml, LeavingClosed
  <2>6. CASE Signal \/ UNCHANGED vars
    BY Zenon, <2>6 DEF Signal, vars, poolvars, LeavingClosed
  <2>7. QED
    BY <2>1, <2>2, <2>3, <2>4, <2>5, <2>6 DEF Next
<1>3. QED
  BY <1>1, <1>2, PTL DEF Spec

THEOREM SectionBlocksLiveCorrect ==
  ASSUME ObeyContract
  PROVE  Spec => []SectionBlocksLive
<1>1. Init => SectionBlocksLive
  BY DEF Init, SectionBlocksLive
<1>2. TypeOK /\ LeavingClosed /\ SectionBlocksLive /\ [Next]_vars => SectionBlocksLive'
  <2> SUFFICES ASSUME TypeOK, LeavingClosed, SectionBlocksLive, [Next]_vars
               PROVE  SectionBlocksLive'
    OBVIOUS
  <2>1. CASE ocamlpool_enter
    <3>1. CASE ~assert_out_of_section
      BY <2>1, <3>1 DEF ocamlpool_enter, Abort, SectionBlocksLive
    <3>2. CASE assert_out_of_section /\ ocamlpool_in_section = 0
      BY <2>1, <3>2 DEF ocamlpool_enter, SectionBlocksLive
    <3>3. CASE assert_out_of_section /\ ocamlpool_in_section # 0
      BY <2>1, <3>3 DEF ocamlpool_enter, SectionBlocksLive, TypeOK, rtvars
    <3>4. QED
      BY <3>1, <3>2, <3>3
  <2>2. CASE ocamlpool_leave
    <3>1. CASE ~assert_in_section
      BY <2>2, <3>1 DEF ocamlpool_leave, Abort, SectionBlocksLive
    <3>2. CASE assert_in_section
      BY <2>2, <3>2 DEF ocamlpool_leave, SectionBlocksLive
    <3>3. QED
      BY <3>1, <3>2
  <2>3. ASSUME NEW tag \in Tags, NEW wosize \in 0..MaxWosize,
               ocamlpool_reserve_block(tag, wosize)
        PROVE  SectionBlocksLive'
    <3>1. UNCHANGED <<marked, ocamlpool_in_section>>
      BY <2>3 DEF ocamlpool_reserve_block
    <3>2. CASE ~SharedFits(wosize)
      BY <2>3, <3>2 DEF ocamlpool_reserve_block, SectionBlocksLive
    <3>3. CASE SharedFits(wosize)
      <4> DEFINE b == [tag |-> tag, wosize |-> wosize, hd |-> NewHeader(wosize, tag)]
      <4>1. held' = Append(held, b) /\ UNCHANGED aborted
        BY <2>3, <3>3 DEF ocamlpool_reserve_block
      <4>2. /\ Tag_hd(b.hd) = b.tag
            /\ Wosize_hd(b.hd) = b.wosize
            /\ Color_hd(b.hd) = marked
        <5>1. tag \in 0..255 /\ wosize \in Nat /\ marked \in Colors
          BY TagsAssumption DEF TypeOK, RtTypeOK
        <5>2. /\ Tag_hd(NewHeader(wosize, tag)) = tag
              /\ Wosize_hd(NewHeader(wosize, tag)) = wosize
              /\ Color_hd(NewHeader(wosize, tag)) = marked
          BY <5>1 DEF NewHeader, Make_header, Tag_hd, Wosize_hd, Color_hd, Colors, ColorShift
        <5>3. QED
          BY <5>2 DEF b
      <4>3. SUFFICES ASSUME ocamlpool_in_section = 1, ~aborted,
                            NEW i \in 1..Len(held')
                     PROVE  /\ Tag_hd(held'[i].hd) = held'[i].tag
                            /\ Wosize_hd(held'[i].hd) = held'[i].wosize
                            /\ Color_hd(held'[i].hd) = marked'
        BY <3>1, <4>1 DEF SectionBlocksLive
      <4>4. CASE i \in 1..Len(held)
        BY <3>1, <4>1, <4>3, <4>4 DEF SectionBlocksLive, TypeOK
      <4>5. CASE i = Len(held) + 1
        BY <3>1, <4>1, <4>2, <4>5 DEF TypeOK
      <4>6. QED
        BY <4>1, <4>4, <4>5 DEF TypeOK
    <3>4. QED
      BY <3>2, <3>3
  <2>4. CASE RunOCaml
    BY <2>4 DEF RunOCaml, SectionBlocksLive
  <2>5. CASE Signal
    BY <2>5 DEF Signal, RecordAction, SectionBlocksLive, poolvars
  <2>6. CASE UNCHANGED vars
    BY <2>6 DEF vars, rtvars, poolvars, SectionBlocksLive
  <2>8. CASE ocamlpool_leave_pending
    BY <2>8 DEF ocamlpool_leave_pending, LeavingClosed, SectionBlocksLive
  <2>7. QED
    BY <2>1, <2>2, <2>3, <2>4, <2>5, <2>6, <2>8 DEF Next
<1>3. QED
  BY <1>1, <1>2, TypeCorrect, LeavingClosedInv, PTL DEF Spec
-----------------------------------------------------------------------------
(* No collection inside a section.                                         *)

(* For a caller that runs no OCaml inside a section, the collector runs    *)
(* only in steps that start and end outside every section: the pending     *)
(* actions of ocamlpool_leave run after it has cleared the flag, and       *)
(* ocamlpool_enter, ocamlpool_reserve_block and a signal never collect.    *)
THEOREM NoCollectionInSectionCorrect ==
  ASSUME ObeyContract
  PROVE  Spec => NoCollectionInSection
<1> DEFINE Step == CollectorRan => ocamlpool_in_section = 0 /\ ocamlpool_in_section' = 0
<1>1. TypeOK /\ LeavingClosed /\ [Next]_vars => [Step]_vars
  <2> SUFFICES ASSUME TypeOK, LeavingClosed, [Next]_vars PROVE [Step]_vars
    OBVIOUS
  <2>1. CASE ocamlpool_enter
    BY <2>1 DEF ocamlpool_enter, Abort, rtvars, CollectorRan, Step, TypeOK, RtTypeOK
  <2>2. CASE ocamlpool_leave
    BY <2>2 DEF ocamlpool_leave, Abort, rtvars, CollectorRan, Step, TypeOK, RtTypeOK
  <2>3. CASE ocamlpool_leave_pending
    BY <2>3 DEF ocamlpool_leave_pending, LeavingClosed
  <2>4. CASE \E tag \in Tags, wosize \in 0..MaxWosize : ocamlpool_reserve_block(tag, wosize)
    BY <2>4 DEF ocamlpool_reserve_block, CollectorRan, Step, TypeOK, RtTypeOK
  <2>5. CASE RunOCaml
    BY <2>5 DEF RunOCaml
  <2>6. CASE Signal
    BY <2>6 DEF Signal, RecordAction, CollectorRan, Step, TypeOK, RtTypeOK
  <2>7. CASE UNCHANGED vars
    BY <2>7
  <2>8. QED
    BY <2>1, <2>2, <2>3, <2>4, <2>5, <2>6, <2>7 DEF Next
<1>2. QED
  BY <1>1, TypeCorrect, LeavingClosedInv, PTL DEF Spec, NoCollectionInSection
-----------------------------------------------------------------------------
(* Minor allocations inside a section are caught by ocamlpool_leave.       *)

(* In the asserts build, whatever the caller runs inside a section, the   *)
(* young_ptr that ocamlpool_enter saved stays equal to caml_young_ptr      *)
(* until OCaml moves it, and stays above it after a minor allocation that  *)
(* no collection followed: DriftTracked, the strengthening that            *)
(* MinorAllocDetected needs.  It needs TypeOK for the comparisons and      *)
(* LeavingClosed for the pending actions that leave runs.                  *)
THEOREM DriftTrackedCorrect ==
  ASSUME Asserts
  PROVE  Spec => []DriftTracked
<1>1. Init => DriftTracked
  BY DEF Init, DriftTracked
<1>2. TypeOK /\ TypeOK' /\ LeavingClosed /\ DriftTracked /\ [Next]_vars => DriftTracked'
  <2> SUFFICES ASSUME TypeOK, TypeOK', LeavingClosed, DriftTracked, [Next]_vars
               PROVE  DriftTracked'
    OBVIOUS
  <2>1. CASE ocamlpool_enter
    <3>1. CASE ~assert_out_of_section
      BY <2>1, <3>1 DEF ocamlpool_enter, Abort, DriftTracked
    <3>2. CASE assert_out_of_section
      <4>1. ocamlpool_in_section = 0
        BY <3>2 DEF assert_out_of_section, ocamlpool_assert
      <4>2. moved' = "none" /\ ocamlpool_sane_young_ptr' = young_ptr'
        BY <2>1, <3>2, <4>1 DEF ocamlpool_enter, Abort, rtvars
      <4>3. QED
        BY <4>2 DEF DriftTracked
    <3>3. QED
      BY <3>1, <3>2
  <2>2. CASE ocamlpool_leave
    BY <2>2 DEF ocamlpool_leave, Abort, DriftTracked
  <2>3. CASE ocamlpool_leave_pending
    BY <2>3 DEF ocamlpool_leave_pending, LeavingClosed, DriftTracked
  <2>4. CASE \E tag \in Tags, wosize \in 0..MaxWosize : ocamlpool_reserve_block(tag, wosize)
    BY <2>4 DEF ocamlpool_reserve_block, DriftTracked
  <2>5. CASE RunOCaml
    <3>1. UNCHANGED <<ocamlpool_in_section, ocamlpool_sane_young_ptr, aborted>>
          /\ moved' = MovedAfter
      BY <2>5 DEF RunOCaml
    <3>2. SUFFICES ASSUME ocamlpool_in_section = 1, ~aborted
                   PROVE  DriftTracked'
      BY <3>1 DEF DriftTracked
    <3>3. /\ young_ptr \in Nat /\ young_ptr' \in Nat
          /\ ocamlpool_sane_young_ptr \in Nat
      BY DEF TypeOK, RtTypeOK, NULL, YoungStart, YoungEnd
    <3>4. CASE young_ptr' = young_ptr /\ marked' = marked
      BY <3>1, <3>2, <3>4 DEF MovedAfter, DriftTracked
    <3>5. CASE ~(young_ptr' = young_ptr /\ marked' = marked) /\ young_ptr' < young_ptr
      <4>1. moved' = IF moved = "none" THEN "alloc" ELSE moved
        BY <3>1, <3>2, <3>5 DEF MovedAfter
      <4>2. QED
        BY <3>1, <3>2, <3>3, <3>5, <4>1 DEF DriftTracked
    <3>6. CASE ~(young_ptr' = young_ptr /\ marked' = marked) /\ ~(young_ptr' < young_ptr)
      BY <3>1, <3>2, <3>6 DEF MovedAfter, DriftTracked
    <3>7. QED
      BY <3>4, <3>5, <3>6
  <2>6. CASE Signal
    BY <2>6 DEF Signal, RecordAction, poolvars, DriftTracked
  <2>7. CASE UNCHANGED vars
    BY <2>7 DEF vars, rtvars, poolvars, DriftTracked
  <2>8. QED
    BY <2>1, <2>2, <2>3, <2>4, <2>5, <2>6, <2>7 DEF Next
<1>3. QED
  BY <1>1, <1>2, TypeCorrect, LeavingClosedInv, PTL DEF Spec

(* In the asserts build, whatever the caller runs inside a section, an     *)
(* ocamlpool_leave that returns normally closes a section in which no      *)
(* minor allocation went unnoticed: if OCaml allocated on the minor heap   *)
(* and nothing collected since, the young_ptr check of assert_in_section   *)
(* fails and the process aborts instead.                                   *)
THEOREM MinorAllocDetectedCorrect ==
  ASSUME Asserts
  PROVE  Spec => MinorAllocDetected
<1>1. TypeOK /\ DriftTracked /\ [Next]_vars => [LeftSection => moved # "alloc"]_vars
  <2> SUFFICES ASSUME TypeOK, DriftTracked, [Next]_vars, LeftSection
               PROVE  moved # "alloc"
    OBVIOUS
  <2>1. ocamlpool_in_section = 1
    BY DEF LeftSection
  <2>2. ocamlpool_leave /\ ~aborted'
    <3>1. ~ocamlpool_enter
      BY DEF LeftSection, ocamlpool_enter, Abort
    <3>2. ~ocamlpool_leave_pending
      BY DEF LeftSection, ocamlpool_leave_pending, ProcessPendingActions
    <3>3. ~\E tag \in Tags, wosize \in 0..MaxWosize : ocamlpool_reserve_block(tag, wosize)
      BY DEF LeftSection, ocamlpool_reserve_block
    <3>4. ~RunOCaml /\ ~Signal /\ ~UNCHANGED vars
      BY DEF LeftSection, RunOCaml, Signal, RecordAction, poolvars, vars
    <3>5. QED
      BY <3>1, <3>2, <3>3, <3>4 DEF Next, LeftSection
  <2>3. assert_in_section /\ ~aborted
    BY <2>2 DEF ocamlpool_leave, Abort
  <2>4. young_ptr = ocamlpool_sane_young_ptr
    BY <2>3 DEF assert_in_section, ocamlpool_assert
  <2>5. QED
    BY <2>1, <2>3, <2>4 DEF DriftTracked, TypeOK, RtTypeOK, NULL, YoungStart, YoungEnd
<1>2. QED
  BY <1>1, TypeCorrect, DriftTrackedCorrect, PTL DEF Spec, MinorAllocDetected
=============================================================================
