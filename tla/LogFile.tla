------------------------------ MODULE LogFile ------------------------------
(***************************************************************************)
(* One log file of LogDistributor: FileHandler, its buffer, its flushes    *)
(* and its rotation, and a tool or a user who removes old files.           *)
(*                                                                         *)
(* A line is the number of the entry; a file is the sequence of its lines, *)
(* and its size their number.  The entries come from one thread, and what  *)
(* is written is in the file: the code does not look at what write returns.*)
(***************************************************************************)
EXTENDS Naturals, Sequences, SequencesExt

CONSTANTS
  MaxSize,     (* m_maxSize                                                  *)
  MaxBackups,  (* m_maxBackups                                               *)
  BufferSize,  (* the megabyte that is flushed at once                       *)
  MaxLines     (* bound: entries                                             *)

ASSUME LogAssumption ==
  /\ MaxSize \in Nat /\ MaxBackups \in Nat \ {0} /\ BufferSize \in Nat /\ MaxLines \in Nat

VARIABLES
  buffer,   (* m_buffer                                                      *)
  files,    (* the base file, number 0, and its backups                      *)
  handled,  (* entries so far                                                *)
  removed   (* history: lines that somebody else has removed                 *)

logVars == <<buffer, files, handled, removed>>

Numbers == 0 .. MaxBackups + 1
NoFile == <<0>>
Exists(f, i) == f[i] # NoFile

LogInit ==
  /\ buffer = <<>> /\ files = [i \in Numbers |-> IF i = 0 THEN <<>> ELSE NoFile]
  /\ handled = 0 /\ removed = {}

(* QFile::rename: nothing happens if there is no such file, or if the new  *)
(* name is taken.                                                          *)
Rename(f, from, to) ==
  IF Exists(f, from) /\ ~Exists(f, to) THEN [f EXCEPT ![to] = f[from], ![from] = NoFile] ELSE f

(* Mutant: a name that is taken is taken over.                             *)
RenameOver(f, from, to) ==
  IF Exists(f, from) THEN [f EXCEPT ![to] = f[from], ![from] = NoFile] ELSE f

(* Mutant: the backups are renamed first to last.                          *)
RotateUpwards(f) ==
  LET moved == FoldLeft(LAMBDA g, i : RenameOver(g, i, i + 1), f, [i \in 1 .. MaxBackups |-> i])
      based == Rename(moved, 0, 1)
  IN  IF Exists(based, 0) THEN based ELSE [based EXCEPT ![0] = <<>>]

(* rotateIfNeeded, when the file is too large: last to first, then the     *)
(* base file, which is opened again, new or to be appended to.             *)
Rotate(f) ==
  LET moved == FoldLeft(LAMBDA g, i : Rename(g, i, i + 1), f, [i \in 1 .. MaxBackups |-> MaxBackups + 1 - i])
      based == Rename(moved, 0, 1)
  IN  IF Exists(based, 0) THEN based ELSE [based EXCEPT ![0] = <<>>]

Flushed(f, lines) ==
  LET written == [f EXCEPT ![0] = @ \o lines]
  IN  IF lines = <<>> THEN f ELSE IF Len(written[0]) < MaxSize THEN written ELSE Rotate(written)

Handle ==
  /\ handled < MaxLines
  /\ handled' = handled + 1
  /\ LET lines == Append(buffer, handled + 1)
     IN  IF Len(lines) > BufferSize
         THEN files' = Flushed(files, lines) /\ buffer' = <<>>
         ELSE buffer' = lines /\ UNCHANGED files
  /\ UNCHANGED removed

(* The timer of 100 ms. *)
Flush ==
  /\ buffer # <<>>
  /\ files' = Flushed(files, buffer) /\ buffer' = <<>>
  /\ UNCHANGED <<handled, removed>>

RemoveBackup(i) ==
  /\ i # 0 /\ Exists(files, i)
  /\ removed' = removed \cup ToSet(files[i])
  /\ files' = [files EXCEPT ![i] = NoFile]
  /\ UNCHANGED <<buffer, handled>>

LogNext == Handle \/ Flush \/ \E i \in Numbers : RemoveBackup(i)

LogSpec == LogInit /\ [][LogNext]_logVars

-----------------------------------------------------------------------------
(* The files, oldest first. *)
Log ==
  FlattenSeq([i \in 1 .. MaxBackups + 2 |->
    IF Exists(files, MaxBackups + 2 - i) THEN files[MaxBackups + 2 - i] ELSE <<>>])

(* Whatever the rotation can and cannot rename, and whichever backups have *)
(* gone meanwhile: no line is lost or written twice, and the backups read  *)
(* from the oldest to the base file, then the buffer, are in the order in  *)
(* which the entries came.                                                 *)
NoLineLost ==
  LET lines == Log \o buffer
  IN  /\ ToSet(lines) = (1 .. handled) \ removed
      /\ \A i, j \in DOMAIN lines : i < j => lines[i] < lines[j]
=============================================================================
