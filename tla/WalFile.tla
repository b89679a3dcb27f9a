------------------------------ MODULE WalFile ------------------------------
(***************************************************************************)
(* ParseWAL (internal/replicator/wal/parser.go): the frame headers that a  *)
(* reader finds in a write-ahead log while SQLite may be writing it.       *)
(*                                                                         *)
(* A file is a record of                                                   *)
(*   header  - "whole", "short" (fewer than 32 bytes) or "foreign" magic,  *)
(*   salt    - the generation that the header names, salts 1 and 2,        *)
(*   frames  - the frames from the front, each with page, commit and salt, *)
(*   last    - what there is of the last frame: "whole", "header" (its     *)
(*             page is torn) or "part" (its header is torn).               *)
(* Offsets are counted in frames; the contents of pages and checksums are  *)
(* not looked at, as in the code.                                          *)
(***************************************************************************)
EXTENDS Integers, Sequences, FiniteSets, Functions

\* Frames whose header can be read.
Readable(file) == Len(file.frames) - (IF file.last = "part" THEN 1 ELSE 0)

\* opts.StartFrame, of which only positive values count.
StartFrame(opts) == IF opts > 0 THEN opts ELSE 0

\* Mistake: the salts are not compared.
GenerationUnchecked(file, start) == (start + 1) .. Readable(file)

\* The loop ends at the first frame that an earlier generation left behind.
Generation(file, start) ==
  {i \in (start + 1) .. Readable(file) :
     \A j \in (start + 1) .. i : file.frames[j].salt = file.salt}

\* The frames read and what they amount to.
ParseWAL(file, opts) ==
  IF file.header # "whole" THEN [error |-> file.header]
  ELSE LET start == StartFrame(opts)
           read  == Generation(file, start)
       IN  [error |-> "none",
            frames  |-> [i \in 1 .. Cardinality(read) |-> file.frames[start + i]],
            commits |-> Cardinality({i \in read : file.frames[i].commit}),
            changed |-> {file.frames[i].page : i \in read}]

\* Page 1 is sqlite_master.
MapPagesToTables(changed, roots) ==
  IF 1 \in changed THEN Range(roots) ELSE {roots[p] : p \in changed \cap DOMAIN roots}
=============================================================================
