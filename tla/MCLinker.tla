------------------------------- MODULE MCLinker -------------------------------
(***************************************************************************)
(* A session of the linker with the object files its parsers know, and a   *)
(* file of an unknown kind.                                                *)
(***************************************************************************)
EXTENDS Linker

(* The files given: all the kinds there are, and one that cannot be read.  *)
Files == {".o", ".elf", ".obj", ".macho", ".txt"}

AllNames == {".text", "__text", "main", "_main", "start", ""}

(* The names of entry points: of both kinds of object, of none, and none.  *)
EntryNames == {"main", "_main", "start", ""}
=============================================================================
