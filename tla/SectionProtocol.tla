--------------------------- MODULE SectionProtocol ---------------------------
(***************************************************************************)
(* What an ocamlpool section promises its caller (spec.md 4.1, 4.2, 8),    *)
(* with no runtime in sight.  A section is closed, open, or the process    *)
(* has aborted.  While it is open, the caller holds the log of the blocks  *)
(* reserved in it, in reservation order; each entry says which tag and     *)
(* size its header carries and whether the collector sees it as a live,    *)
(* complete object.  A reservation appends a live entry, nothing else      *)
(* touches the log of an open section, and any call may abort instead.     *)
(***************************************************************************)
EXTENDS Naturals, Sequences

CONSTANTS Tags, MaxWosize

VARIABLES
  status,   \* "closed", "open" or "aborted"
  log       \* the blocks of the open section: [tag, wosize, live]

Entry == [tag : Tags, wosize : 0..MaxWosize, live : BOOLEAN]

Init ==
  /\ status = "closed"
  /\ log = <<>>

(* ocamlpool_enter: a fresh section opens with nothing reserved.           *)
Open ==
  /\ status = "closed"
  /\ status' = "open"
  /\ log' = <<>>

(* ocamlpool_leave: the section closes and its blocks are handed over.     *)
Close ==
  /\ status = "open"
  /\ status' = "closed"
  /\ log' = <<>>

(* ocamlpool_reserve_block: one more live block of the size and tag asked. *)
Reserve(tag, wosize) ==
  /\ status = "open"
  /\ log' = Append(log, [tag |-> tag, wosize |-> wosize, live |-> TRUE])
  /\ UNCHANGED status

(* abort(): a failed check or an exhausted heap ends the process.          *)
Fail ==
  /\ status # "aborted"
  /\ status' = "aborted"
  /\ log' = <<>>

Next ==
  \/ Open
  \/ Close
  \/ \E tag \in Tags, wosize \in 0..MaxWosize : Reserve(tag, wosize)
  \/ Fail

Spec == Init /\ [][Next]_<<status, log>>
=============================================================================
