----------------------------- MODULE MCOcamlPool -----------------------------
(***************************************************************************)
(* Small instances of OcamlPool for TLC.  Two tags, one of them 0 (the    *)
(* spec's scenario uses tags 0 and 5); sizes 0..1 so that zero-sized       *)
(* blocks occur and Whsize differs from wosize; a minor heap of 3 words,   *)
(* so a collection can be followed by an allocation that brings young_ptr  *)
(* back to an earlier value; a shared heap of 4 words, so that up to four  *)
(* blocks fit in a section and a reservation can also fail.                *)
(***************************************************************************)
EXTENDS OcamlPool

MCTags == {0, 5}
MCMaxWosize == 1
MCYoungWords == 3
MCHeapWords == 4
=============================================================================
