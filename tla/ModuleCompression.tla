-------------------------- MODULE ModuleCompression --------------------------
(***************************************************************************)
(* The module codec's decoder (ModuleCompression.swift), by lengths.  An   *)
(* encoded module is a record: `bytes' is how many bytes it has, `stream'  *)
(* how many the complete LZFSE stream at its start needs, and `decoded'    *)
(* how many bytes that stream restores.  What the bytes say is for the     *)
(* digest to check, which the caller compares.                             *)
(***************************************************************************)
EXTENDS Naturals

CONSTANT MaximumDecodedBytes

ASSUME DecoderAssumption == MaximumDecodedBytes \in Nat \ {0}

Encoded == [bytes : Nat, stream : Nat, decoded : Nat]

(* Apple's decoder reports the end once it has the whole stream and room   *)
(* for all of its output.  It may have taken in bytes that follow the      *)
(* stream by then, so what is left of the input shows nothing.             *)
AtEnd(module, given, room) == module.stream <= given /\ module.decoded <= room

(* One byte of input is held back at first, and the output has one byte to *)
(* spare: the stream must not end without its last byte, must end with it, *)
(* and must restore the declared number of bytes.                          *)
Decodes(module, expected) ==
  LET room == expected + 1
  IN /\ module.bytes > 0
     /\ expected \in 1..MaximumDecodedBytes
     /\ ~AtEnd(module, module.bytes - 1, room)
     /\ AtEnd(module, module.bytes, room)
     /\ module.decoded = expected
=============================================================================
