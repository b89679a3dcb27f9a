---------------------------- MODULE ManagedFiles ----------------------------
(***************************************************************************)
(* What the database manager promises its requests, without handles, locks *)
(* or idle closing: a name has a file or none, every file ever created     *)
(* under a name is a new one, and a statement starts only on the file that *)
(* is in the data directory at that moment.  A file may be removed while a *)
(* statement runs; that statement stays on the file it started on.         *)
(* StoreManager implements this specification.                             *)
(***************************************************************************)
EXTENDS Naturals

CONSTANTS Names, Clients, MaxFiles, Nil

VARIABLES
  disk,     \* per name the identity of its file, 0 for none
  files,    \* per name the number of files created so far
  serving   \* per request the <<name, file>> its statement runs on, or Nil

vars == <<disk, files, serving>>

Init ==
  /\ files \in [Names -> {0, 1}]
  /\ disk = files
  /\ serving = [c \in Clients |-> Nil]

Create(n) ==
  /\ disk[n] = 0
  /\ files[n] < MaxFiles
  /\ files' = [files EXCEPT ![n] = @ + 1]
  /\ disk' = [disk EXCEPT ![n] = files[n] + 1]
  /\ UNCHANGED serving

Drop(n) ==
  /\ disk' = [disk EXCEPT ![n] = 0]
  /\ UNCHANGED <<files, serving>>

Begin(c, n) ==
  /\ serving[c] = Nil
  /\ disk[n] # 0
  /\ serving' = [serving EXCEPT ![c] = <<n, disk[n]>>]
  /\ UNCHANGED <<disk, files>>

End(c) ==
  /\ serving[c] # Nil
  /\ serving' = [serving EXCEPT ![c] = Nil]
  /\ UNCHANGED <<disk, files>>

Next ==
  \/ \E n \in Names : Create(n) \/ Drop(n)
  \/ \E c \in Clients : End(c) \/ \E n \in Names : Begin(c, n)

Spec == Init /\ [][Next]_vars
=============================================================================
