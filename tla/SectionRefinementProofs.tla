------------------------ MODULE SectionRefinementProofs ------------------------
(***************************************************************************)
(* Proof that OcamlPool implements SectionProtocol under the mapping of   *)
(* OcamlPool (SectionStatus, SectionLog) for a caller that runs no OCaml  *)
(* inside a section, in either build.  The step proof rests on three       *)
(* invariants proved in OcamlPoolProofs: TypeOK, LeavingClosed and         *)
(* SectionBlocksLive (every held block is live while the section is       *)
(* open, so the mapped log has live = TRUE everywhere).                    *)
(***************************************************************************)
EXTENDS OcamlPoolProofs

USE YoungWordsAssumption, HeapWordsAssumption, TagsAssumption,
    MaxWosizeAssumption, AssertsAssumption, ObeyContractAssumption

sp_vars == <<SectionStatus, SectionLog>>

(* A step that changes neither aborted, nor the flag, nor the held blocks, *)
(* nor MARKED is invisible to the abstract section.                        *)
LEMMA QuietStep ==
  ASSUME UNCHANGED <<aborted, ocamlpool_in_section, held, marked>>
  PROVE  UNCHANGED sp_vars
BY DEF sp_vars, SectionStatus, SectionLog, BlockLive

(* A step that keeps the process outside a section and alive, whatever it *)
(* does to the runtime and the held blocks, is invisible too.              *)
LEMMA ClosedStep ==
  ASSUME ocamlpool_in_section = 0, ocamlpool_in_section' = 0,
         UNCHANGED aborted
  PROVE  UNCHANGED sp_vars
BY DEF sp_vars, SectionStatus, SectionLog

(* A step that ends in abort() is the abstract Fail.                       *)
LEMMA AbortStep ==
  ASSUME ~aborted, aborted' = TRUE
  PROVE  SP!Fail
BY DEF SP!Fail, SectionStatus, SectionLog

(* The detailed specification starts where the abstract one does.          *)
LEMMA InitRefined == Init => SP!Init
BY DEF Init, RtInit, SP!Init, SectionStatus, SectionLog

(* For a caller that runs no OCaml inside a section, ocamlpool behaves as  *)
(* the section protocol promises (spec.md 4.1, 4.2): enter opens an empty  *)
(* section, each successful ocamlpool_reserve_block appends one live block *)
(* of the tag and size asked, leave closes the section, every failed check *)
(* or exhausted heap is an abort, and every other step (OCaml outside a    *)
(* section, collections run by leave's pending actions, signals, calls     *)
(* that the NO_ASSERT build lets through) changes nothing the caller of    *)
(* the section can observe.                                                *)
THEOREM Refinement ==
  ASSUME ObeyContract
  PROVE  Spec => SectionRefinement
<1>1. TypeOK /\ LeavingClosed /\ SectionBlocksLive /\ [Next]_vars => [SP!Next]_sp_vars
  <2> SUFFICES ASSUME TypeOK, LeavingClosed, SectionBlocksLive, [Next]_vars
               PROVE  [SP!Next]_sp_vars
    OBVIOUS
  <2>1. CASE ocamlpool_enter
    <3>1. CASE ~assert_out_of_section
      <4>1. ~aborted /\ aborted' = TRUE
        BY <2>1, <3>1 DEF ocamlpool_enter, Abort
      <4>2. SP!Fail
        BY <4>1, AbortStep
      <4>3. QED
        BY <4>2 DEF SP!Next
    <3>2. CASE assert_out_of_section /\ ocamlpool_in_section = 0
      <4>1. /\ ~aborted /\ ~aborted'
            /\ ocamlpool_in_section' = 1
            /\ held' = <<>>
        BY <2>1, <3>2 DEF ocamlpool_enter
      <4>2. SP!Open
        BY <3>2, <4>1 DEF SP!Open, SectionStatus, SectionLog
      <4>3. QED
        BY <4>2 DEF SP!Next
    <3>3. CASE assert_out_of_section /\ ocamlpool_in_section # 0
      <4>1. UNCHANGED <<aborted, ocamlpool_in_section, held, marked>>
        BY <2>1, <3>3 DEF ocamlpool_enter, TypeOK, rtvars
      <4>2. QED
        BY <4>1, QuietStep
    <3>4. QED
      BY <3>1, <3>2, <3>3
  <2>2. CASE ocamlpool_leave
    <3>1. CASE ~assert_in_section
      <4>1. ~aborted /\ aborted' = TRUE
        BY <2>2, <3>1 DEF ocamlpool_leave, Abort
      <4>2. SP!Fail
        BY <4>1, AbortStep
      <4>3. QED
        BY <4>2 DEF SP!Next
    <3>2. CASE assert_in_section /\ ocamlpool_in_section = 1
      <4>1. ~aborted /\ ~aborted' /\ ocamlpool_in_section' = 0
        BY <2>2, <3>2 DEF ocamlpool_leave
      <4>2. SP!Close
        BY <3>2, <4>1 DEF SP!Close, SectionStatus, SectionLog
      <4>3. QED
        BY <4>2 DEF SP!Next
    <3>3. CASE assert_in_section /\ ocamlpool_in_section # 1
      <4>1. ocamlpool_in_section = 0 /\ ocamlpool_in_section' = 0 /\ UNCHANGED aborted
        BY <2>2, <3>3 DEF ocamlpool_leave, TypeOK
      <4>2. QED
        BY <4>1, ClosedStep
    <3>4. QED
      BY <3>1, <3>2, <3>3
  <2>3. CASE ocamlpool_leave_pending
    <3>1. ocamlpool_in_section = 0 /\ ocamlpool_in_section' = 0 /\ UNCHANGED aborted
      BY <2>3 DEF ocamlpool_leave_pending, LeavingClosed
    <3>2. QED
      BY <3>1, ClosedStep
  <2>4. ASSUME NEW tag \in Tags, NEW wosize \in 0..MaxWosize,
               ocamlpool_reserve_block(tag, wosize)
        PROVE  [SP!Next]_sp_vars
    <3>1. /\ ~aborted
          /\ UNCHANGED <<marked, ocamlpool_in_section>>
      BY <2>4 DEF ocamlpool_reserve_block
    <3>2. CASE ~SharedFits(wosize)
      <4>1. aborted' = TRUE
        BY <2>4, <3>2 DEF ocamlpool_reserve_block
      <4>2. QED
        BY <3>1, <4>1, AbortStep DEF SP!Next
    <3>3. CASE SharedFits(wosize) /\ ocamlpool_in_section = 0
      <4>1. UNCHANGED aborted
        BY <2>4, <3>3 DEF ocamlpool_reserve_block
      <4>2. QED
        BY <3>1, <3>3, <4>1, ClosedStep
    <3>4. CASE SharedFits(wosize) /\ ocamlpool_in_section = 1
      <4> DEFINE b == [tag |-> tag, wosize |-> wosize, hd |-> NewHeader(wosize, tag)]
      <4> DEFINE e == [tag |-> tag, wosize |-> wosize, live |-> TRUE]
      <4> DEFINE entry(x, m) ==
                   [tag |-> x.tag, wosize |-> x.wosize,
                    live |-> Tag_hd(x.hd) = x.tag /\ Wosize_hd(x.hd) = x.wosize
                             /\ Color_hd(x.hd) = m]
      <4>1. held' = Append(held, b) /\ UNCHANGED aborted
        BY <2>4, <3>4 DEF ocamlpool_reserve_block
      <4>2. BlockLive(b)
        <5>1. tag \in 0..255 /\ wosize \in Nat /\ marked \in Colors
          BY TagsAssumption DEF TypeOK, RtTypeOK
        <5>2. /\ Tag_hd(NewHeader(wosize, tag)) = tag
              /\ Wosize_hd(NewHeader(wosize, tag)) = wosize
              /\ Color_hd(NewHeader(wosize, tag)) = marked
          BY <5>1 DEF NewHeader, Make_header, Tag_hd, Wosize_hd, Color_hd,
             Colors, ColorShift
        <5>3. QED
          BY <5>2 DEF BlockLive, b
      <4>3. ~(aborted \/ ocamlpool_in_section = 0) /\ ~(aborted' \/ ocamlpool_in_section' = 0)
        BY <3>1, <3>4, <4>1
      <4>4. SectionLog = [i \in 1..Len(held) |-> entry(held[i], marked)]
        BY Zenon, <4>3 DEF SectionLog, entry, BlockLive
      <4>5. SectionLog' = [i \in 1..Len(held') |-> entry(held'[i], marked)]
        BY Zenon, <3>1, <4>3 DEF SectionLog, entry, BlockLive
      <4>6. entry(b, marked) = e
        BY Zenon, <3>1, <4>2 DEF entry, b, e, BlockLive
      <4>7. SectionLog' = Append(SectionLog, e)
        BY <4>1, <4>4, <4>5, <4>6 DEF TypeOK
      <4>8. SP!Reserve(tag, wosize)
        BY <3>1, <3>4, <4>1, <4>7 DEF SP!Reserve, SectionStatus, e
      <4>9. QED
        BY <4>8 DEF SP!Next
    <3>5. QED
      BY <3>2, <3>3, <3>4 DEF TypeOK
  <2>5. CASE RunOCaml
    <3>1. ocamlpool_in_section = 0 /\ ocamlpool_in_section' = 0 /\ UNCHANGED aborted
      BY <2>5 DEF RunOCaml
    <3>2. QED
      BY <3>1, ClosedStep
  <2>6. CASE Signal
    BY <2>6, QuietStep DEF Signal, RecordAction, poolvars
  <2>7. CASE UNCHANGED vars
    BY <2>7, QuietStep DEF vars, rtvars, poolvars
  <2>8. QED
    BY <2>1, <2>2, <2>3, <2>4, <2>5, <2>6, <2>7 DEF Next
<1>2. QED
  BY <1>1, InitRefined, TypeCorrect, LeavingClosedInv, SectionBlocksLiveCorrect, PTL
     DEF Spec, SectionRefinement, SP!Spec, sp_vars
=============================================================================
