# Verification of ocamlpool

This directory holds TLA+ models of `src/ocamlpool/ocamlpool.c` and
`src/ocamlpool/ocamlpool.h`: the configurations that model-check them with
TLC, and TLAPS proofs of their main safety properties.

## The system

ocamlpool lets C code build many OCaml values quickly. The caller opens a
*section*, reserves blocks directly from the OCaml 5 shared (major) heap,
fills them in, and closes the section. Inside a section the caller must not
run OCaml code or call the runtime: the blocks are half-built and the
collector must not see them. The code has three parts.

| Part | Code | State | Operations |
|---|---|---|---|
| Section Guard | `ocamlpool.c:20-30, 81-94` | `ocamlpool_in_section`, `ocamlpool_sane_young_ptr` | `ocamlpool_enter`, `ocamlpool_leave` |
| Block Allocator | `ocamlpool.c:101-113` | none of its own; it writes runtime state | `ocamlpool_reserve_block` |
| Invariant Checker | `ocamlpool.c:39-68` | none | `abort_unless`, `ocamlpool_assert` (a no-op under `OCAMLPOOL_NO_ASSERT`), `assert_in_section`, `assert_out_of_section` |

The parts interact with the OCaml runtime in the following ways:

- `enter` snapshots `caml_young_ptr`.
- `leave` compares the snapshot with the live `caml_young_ptr`. This is the only evidence the code has that no collection ran. It then clears the flag and calls `caml_process_pending_actions`.
- `reserve_block` calls `caml_shared_try_alloc`. It adds `Whsize(wosize)` to `Caml_state->allocated_words`. This happens before the NULL check. It aborts on NULL. Otherwise it writes a header whose colour is `caml_global_heap_state.MARKED`.

The third file under `src/`, `ring_core_generated/prefix_symbols_asm.h`, is a
generated table of `#define` renames. It has no behaviour, and `spec.md` puts
it out of scope.

The hard behaviours are not in any single function. They come from what the
caller's OCaml code and the collector do between calls:

- a minor allocation or collection inside a section;
- a collection cycle ending, which rotates the colours so that `MARKED` changes;
- a signal recorded for later;
- the `NO_ASSERT` build;
- shared-heap exhaustion.

## Modules

- **`OcamlRuntime.tla`** models the runtime collaborator. It is written from `spec.md` §6 and from OCaml 5's documented behaviour, because the runtime is not code of this repository.
  - Variables: `young_ptr`, `action_pending`, `allocated_words`, `stat_major_words`, `heap_used` (words handed out by the shared heap) and `marked`.
  - The header layout is OCaml 5's `Make_header`: tag in bits 0-7, colour in bits 8-9, size from bit 10 up. The decoders `Tag_hd`, `Color_hd` and `Wosize_hd` are defined with it.
  - Actions: `AllocSmall` (a minor bump allocation), `MinorCollection`, `MajorSlice` (moves `allocated_words` into `stat_major_words`), `CycleEnd` (a slice that also empties the minor heap and rotates `MARKED`), `RecordAction` and `ProcessPendingActions` (which may do any `GcWork` if something is pending).
  - `SharedFits` is `caml_shared_try_alloc` succeeding.
- **`OcamlPool.tla`** models `ocamlpool.c` composed with the runtime. It has one action per C function, and each action contains the whole function, its abort paths included:
  - `ocamlpool_enter` and `ocamlpool_leave` each have a disjunct for the failed assert (`Abort`) and a disjunct for the success path;
  - `ocamlpool_leave` is two steps, because the order of its lines is the point. `ocamlpool_leave` covers the check and the flag reset (lines 89-91) and sets `leaving`. `ocamlpool_leave_pending` is line 93: `caml_process_pending_actions`, then return. While `leaving` holds, the caller makes no other call; only a signal can arrive;
  - `ocamlpool_reserve_block` has an accounting step, then either the NULL path (abort) or the success path. The success path charges the heap and appends the block with the header the code writes.

  The caller's other steps are two actions of their own:
  - `RunOCaml`: OCaml code allocates, collects or polls;
  - `Signal`: the runtime records a pending action.

  The constants are `Tags`, `MaxWosize`, `Asserts` (FALSE is the `OCAMLPOOL_NO_ASSERT` build) and `ObeyContract` (TRUE: the caller runs no OCaml inside a section).

  Two variables are not C variables:
  - `held` is the list of blocks the caller holds since `enter`: tag, size and header word. Addresses are abstracted away.
  - `moved` is a ghost variable that records whether OCaml allocated only, or collected, inside the open section.

  `FairSpec` adds weak fairness of `ocamlpool_leave_pending`, and of nothing else. Once the flag is cleared, the C code runs on to line 93 as straight-line code, but the caller is never obliged to enter, reserve, leave or run OCaml.
- **`SectionProtocol.tla`** is the abstract promise of a section (`spec.md` §4.1, §4.2, §8).
  - `status` is closed, open or aborted.
  - `log` holds the blocks of the open section, each entry with a tag, a size and a `live` flag.
  - Actions: `Open` (with an empty log), `Reserve` (appends a live entry), `Close`, and `Fail` (abort).
  - `OcamlPool` instantiates it as `SP` under the refinement mapping `SectionStatus`/`SectionLog`. A held block maps to a live entry iff its header decodes to its tag and size and carries the current `MARKED`.
  - `SectionRefinement == SP!Spec` is the property that OcamlPool implements it.
- **`MCOcamlPool.tla`** fixes the sizes for TLC.
- **`OcamlPoolProofs.tla`** holds the invariant theorems. **`SectionRefinementProofs.tla`** holds the refinement theorem.

## Runs

The instances use tags {0, 5}, sizes 0..1, a 3-word minor heap and a 4-word
shared heap.

- Sizes 0 and 1 cover zero-sized blocks, and a Whsize that differs from the wosize.
- Three young words allow a collection followed by allocations that bring `young_ptr` back to its snapshot.
- Four heap words allow several blocks per section and a failed reservation.
- Larger sizes only multiply the number of states without adding cases.

Every cfg sets `CHECK_DEADLOCK FALSE` because `abort()` ends the process, so
an aborted state has no successor.

| Run | cfg | Expect | Properties | What it shows |
|---|---|---|---|---|
| ocamlpool_contract | MCOcamlPool.cfg | pass | TypeOK, AccountingExact, SectionBlocksLive, NoCollectionInSection | A caller that keeps the contract never corrupts the books. Every block of an open section decodes to its tag and size and carries the current `MARKED`. The collector, including the pending actions run by `leave`, only runs in steps that start and end outside a section. |
| ocamlpool_misuse | MCOcamlPoolMisuse.cfg (FairSpec) | pass | DriftTracked, MinorAllocDetected, SignalHandledByLeave | A caller runs OCaml inside a section. The `young_ptr` saved by `enter` tracks what OCaml did to `caml_young_ptr`. A minor allocation with no collection after it is always caught by `leave`. A signal that is pending once `leave` has cleared the flag is handled before `leave` returns. |
| section_refinement | MCOcamlPoolRefine.cfg | pass | SectionRefinement | In the `NO_ASSERT` build, a caller that keeps the contract still gets the section protocol: `SP!Spec` holds under the mapping. |
| invisible_collection | MCOcamlPoolCollect.cfg | violation | BlocksLiveAtLeave | A cycle can end inside a section without `young_ptr` moving, so `leave` succeeds with stale-coloured blocks. |
| no_assert | MCOcamlPoolNoAssert.cfg | violation | MinorAllocDetected | Under `OCAMLPOOL_NO_ASSERT` the section checks are gone. |
| reserve_outside | MCOcamlPoolOutside.cfg | violation | ReserveOnlyInSection | `reserve_block` outside a section allocates instead of aborting, as `spec.md` §8 requires. |

Together the three passing runs fire every action and every disjunct of `Next`.
Each property of a passing run has a mutant in `PROJECT.json` that TLC finds
violated:

| Mutant | What it changes | Property violated |
|---|---|---|
| `SharedFitsOneOver` | allows a one-word overrun | TypeOK |
| `CountAllocatedWosize` | forgets the header word | AccountingExact |
| `NewHeaderFixedColor` | writes a fixed colour | SectionBlocksLive |
| `assert_in_section_flag_only` | drops the `young_ptr` comparison | MinorAllocDetected |
| `ocamlpool_enter_no_save` | leaves out line 85, so `enter` does not save `caml_young_ptr` | DriftTracked |
| `ocamlpool_leave_swapped` | calls `caml_process_pending_actions` before clearing the flag | NoCollectionInSection |
| `ocamlpool_leave_no_pending` | leaves out line 93 | SignalHandledByLeave |
| `NewHeaderSwapped` | passes size and tag in each other's place to `Make_header` | SectionRefinement |

### Findings

1. **Invisible collection** (`ocamlpool.c:62`). The drift check compares pointers, not collection counts. Suppose the minor heap is empty when a cycle ends inside the section, or allocations refill it to the same point. Then `leave` succeeds, yet the blocks reserved before the collection no longer carry `MARKED`. `spec.md` §4.1 calls this check the load-bearing guarantee that no collection ran.
2. **`OCAMLPOOL_NO_ASSERT`** (`ocamlpool.c:54`) compiles out the section-boundary checks. `spec.md` §4.3 says they are never optional.
3. **Reserve outside a section** (`ocamlpool.c:101`) is not checked. `spec.md` §8 says it must abort, while §4.2 says the precondition is not re-asserted.

## Proofs

`OcamlPoolProofs.tla` proves the following for all values of the constants.
The assumptions are only those declared with the constants: tags in 0..255,
`MaxWosize` ≥ 1, `YoungWords` ≥ 1, `HeapWords` ∈ Nat, and boolean
`Asserts`/`ObeyContract`.

- **`TypeCorrect`**: `Spec => []TypeOK`. `TypeOK` is inductive by itself. The step proof has one case per action, split on the assert outcome and on `SharedFits`. Lemmas `GcWorkTypes` and `PendingTypes` cover the runtime actions, `RotateColors` covers the colour rotation, and `HeaderDecode` shows that the decoders invert `Make_header` for tags below 256.
- **`AccountingCorrect`**: `Spec => []AccountingExact`.
  - It is proved with `TypeOK` (from `TypeCorrect`) as the strengthening.
  - `reserve_block` adds the same `Whsize` to `allocated_words` and `heap_used`, or aborts.
  - A slice or a cycle end moves `allocated_words` into `stat_major_words`.
  - Lemma `PendingBooks` shows that pending-action processing keeps the sum.
- **`SectionBlocksLiveCorrect`**: under `ObeyContract`, `Spec => []SectionBlocksLive`, with `TypeOK` as the strengthening.
  - With no OCaml inside a section, only `reserve_block` changes `held`, and it leaves `marked` alone.
  - The new header decodes correctly by the arithmetic of `Make_header`.
  - The old headers still match because `marked` did not change.
  - The theorem holds in both builds. Without `ObeyContract` it is false (run invisible_collection), and that is why the assumption is there.
  - Because of the split `leave`, the proof also needs the invariant `LeavingClosed`: while `leaving` holds, the flag is 0. Lemma `LeavingClosedInv` proves it. Without it, the collections run by the pending actions would seem to spoil the blocks of an open section.
- **`NoCollectionInSectionCorrect`**: under `ObeyContract`, `Spec => NoCollectionInSection`.
  - It is an action property, proved from `TypeOK` and `LeavingClosed`.
  - Only `ocamlpool_leave_pending` and `RunOCaml` can change `young_ptr` upwards, `stat_major_words` or `MARKED`.
  - `ocamlpool_leave_pending` runs with the flag 0, by `LeavingClosed`.
  - `RunOCaml` runs with the flag 0 by the contract.
- **`Refinement`** (in `SectionRefinementProofs.tla`): under `ObeyContract`, `Spec => SectionRefinement`.
  - `Init` maps to `SP!Init`.
  - Each step maps as follows:
    - an abort maps to `SP!Fail` (lemma `AbortStep`);
    - `enter` from 0 maps to `Open`;
    - `leave` from 1 maps to `Close`;
    - a successful reservation in a section maps to `Reserve`, with the new entry live by the arithmetic of `Make_header`;
    - every other step is a stutter (lemmas `QuietStep` and `ClosedStep`). This covers `leave_pending`, OCaml outside sections, signals, reservations outside sections, and a second `enter` or a stray `leave` in the `NO_ASSERT` build.
  - The invariants it rests on are `TypeOK`, `LeavingClosed` and `SectionBlocksLive`. The last one is what makes every existing entry of the mapped log stay live.
- **`MinorAllocDetectedCorrect`**: under `Asserts`, `Spec => MinorAllocDetected`, whatever the caller runs inside a section.
  - The action property is not provable from the state alone: it needs to know where `young_ptr` stands against the saved copy. That is the invariant `DriftTracked`. While a section is open and the process alive, `moved = "none"` implies `young_ptr = sane_young_ptr`, and `moved = "alloc"` implies `young_ptr < sane_young_ptr`.
  - **`DriftTrackedCorrect`** proves `Spec => []DriftTracked`, with `TypeOK` and `LeavingClosed`. The misuse run checks `DriftTracked` too.
    - `enter` from 0 saves `young_ptr` and resets `moved`. A nested `enter` aborts.
    - A minor allocation only lowers `young_ptr`. A collection sets `moved` to "collect", which the invariant does not constrain.
    - `reserve_block` and signals leave `young_ptr` alone.
    - `leave_pending` runs with the flag 0.
  - The step that returns normally from `leave` passed `assert_in_section`. So `young_ptr = sane_young_ptr`, which rules out `moved = "alloc"`.
  - `Asserts` is needed. In the `NO_ASSERT` build, a nested `enter` re-saves `young_ptr` after an allocation, so `DriftTracked` fails. The no_assert run shows that `MinorAllocDetected` fails there too.
  - `MovedAfter` is written with disjoint branches (nested IF), so that the value of `moved` is determined in every step. An earlier CASE with overlapping arms was read by TLC in arm order, but in TLA+ it left the value open.

### Only model-checked

- `SignalHandledByLeave`: it is a liveness property under `FairSpec`.
- The violations.

TLAPS does not handle liveness, `ENABLED` or induction over data, so any
liveness property will stay with TLC.

## Not modelled yet, and the plan

- **Ring rename table**: not modelled, because it has no behaviour.
- **Multiple domains**: the runtime is reduced to one domain. `spec.md` §5 says the pool is single-context.
- **Interrupts**: not modelled.
- **Major marking and sweeping**: not modelled. Only their effect on `MARKED` is.
- **Re-entrancy from pending actions**: the pending actions that `leave` runs at line 93 are OCaml signal handlers and finalisers. One of them may call back into C that uses ocamlpool. The model lets pending actions do only collector work, because those handlers are caller code outside this repository.
- **Signals handled outside `leave`**: whether a signal recorded outside a section is ever handled depends on OCaml polling, not on ocamlpool. No fairness on `RunOCaml` is assumed, so it is not checked.
