------------------------------- MODULE Params -------------------------------
(***************************************************************************)
(* The two container types every component of the filter exchanges         *)
(* (utility/common.h).  A string is a sequence of character codes, Keys is *)
(* a set of strings, and QueryParams is a function from the names that are *)
(* present to their values.                                                *)
(***************************************************************************)
EXTENDS Naturals, Sequences, TLC

(* A std::string: bytes, in order. *)
Str == Seq(0 .. 255)

(* QueryParams params; *)
NoParams == << >>

=============================================================================
