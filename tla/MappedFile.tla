----------------------------- MODULE MappedFile -----------------------------
(***************************************************************************)
(* A write-mode MappedFile (src/detail/file_map.cpp, POSIX branch) and the *)
(* file under it, used the way the writer uses it: for each record,        *)
(* EnsureAvailable(n); when it returns true, copy n bytes to WritePtr()    *)
(* and Advance(n); when it returns false, give that record up; at last     *)
(* Close.  Every system call may fail, up to MaxFaults of them.            *)
(***************************************************************************)
EXTENDS FileMap

CONSTANTS Needs,        \* the sizes clients ask for
          Reserves,     \* the reserveBytes clients open with
          MaxBytes,     \* bound on the bytes a client commits
          MaxFaults     \* bound on failing system calls

ASSUME NeedsAssumption == Needs \subseteq Nat \ {0} /\ Reserves \subseteq Nat
ASSUME BoundsAssumption == MaxBytes \in Nat /\ MaxFaults \in Nat

VARIABLES
  pc,          \* what the client does next
  file,        \* the MappedFile object
  size,        \* length of the file on disk
  needed,      \* the n of the EnsureAvailable in progress
  committed,   \* history: bytes of the records the client gave to Advance
  cut,         \* whether Close's ftruncate succeeded
  faults

vars == <<pc, file, size, needed, committed, cut, faults>>

Init ==
  /\ pc = "new" /\ file = ClosedFile /\ size = 0
  /\ needed = 0 /\ committed = 0 /\ cut = TRUE /\ faults = 0

Fault == faults < MaxFaults /\ faults' = faults + 1

\* OpenWrite: O_TRUNC empties the file, GrowPosix extends and maps it.
Initial(reserve) == RoundUpToGrow(IF reserve > GrowBytes THEN reserve ELSE GrowBytes)

OpenWrite(reserve) ==
  /\ pc = "new"
  /\ file' = [open |-> TRUE, base |-> TRUE, reserved |-> Initial(reserve), cursor |-> 0]
  /\ size' = Initial(reserve)
  /\ pc' = "idle"
  /\ UNCHANGED <<needed, committed, cut, faults>>

\* open() fails, or ftruncate() does, or mmap() does; the file is closed with
\* nothing written, and not cut.
OpenWriteFails(reserve) ==
  /\ pc = "new" /\ Fault
  /\ size' \in {0, Initial(reserve)}
  /\ pc' = "done"
  /\ UNCHANGED <<file, needed, committed, cut>>

EnsureFits(n) ==
  /\ pc = "idle" /\ committed + n <= MaxBytes
  /\ Fits(file, n)
  /\ needed' = n /\ pc' = "copy"
  /\ UNCHANGED <<file, size, committed, cut, faults>>

\* ftruncate() makes the file as long as the region to be mapped.
ExtendForgotten(reserved) == size    \* mutant: no ftruncate
Extend(reserved) == reserved

EnsureGrows(n) ==
  /\ pc = "idle" /\ committed + n <= MaxBytes
  /\ ~Fits(file, n)
  /\ file' = Grow(file, n) /\ size' = Extend(file'.reserved)
  /\ needed' = n /\ pc' = "copy"
  /\ UNCHANGED <<committed, cut, faults>>

\* ftruncate() fails, or mmap() after it: EnsureAvailable returns false and
\* the client reports an error, but may come back with another record.
EnsureFails(n) ==
  /\ pc = "idle" /\ committed + n <= MaxBytes
  /\ ~Fits(file, n) /\ Fault
  /\ file' = GrowFailed(file)
  /\ size' \in {size, Grow(file, n).reserved}
  /\ UNCHANGED <<pc, needed, committed, cut>>

CopyAndAdvance ==
  /\ pc = "copy" /\ file.base
  /\ file' = Advance(file, needed)
  /\ committed' = committed + needed
  /\ pc' = "idle"
  /\ UNCHANGED <<size, needed, cut, faults>>

\* WritePtr() is m_Base + m_Cursor with m_Base null.
CopyToNull ==
  /\ pc = "copy" /\ ~file.base
  /\ pc' = "dead"
  /\ UNCHANGED <<file, size, needed, committed, cut, faults>>

CutAtReserved == file.reserved       \* mutant: the preallocated tail stays
CutLength == file.cursor

\* The result of Close's ftruncate is not looked at; nothing is cut when
\* nothing was written.
Close ==
  /\ pc = "idle"
  /\ \/ /\ size' = IF file.cursor > 0 THEN CutLength ELSE size
        /\ UNCHANGED <<cut, faults>>
     \/ /\ file.cursor > 0 /\ Fault
        /\ cut' = FALSE /\ UNCHANGED size
  /\ file' = ClosedFile /\ pc' = "done"
  /\ UNCHANGED <<needed, committed>>

Next ==
  \/ \E r \in Reserves : OpenWrite(r) \/ OpenWriteFails(r)
  \/ \E n \in Needs : EnsureFits(n) \/ EnsureGrows(n) \/ EnsureFails(n)
  \/ CopyAndAdvance \/ CopyToNull \/ Close

Spec == Init /\ [][Next]_vars

(***************************************************************************)
(* Properties.                                                             *)
(***************************************************************************)
TypeOK ==
  /\ pc \in {"new", "idle", "copy", "dead", "done"}
  /\ file \in MappedFiles
  /\ size \in Nat /\ needed \in Nat /\ committed \in Nat /\ faults \in Nat
  /\ cut \in BOOLEAN

\* A mapped region is never longer than the file under it, also after a growth
\* failed half-way: a store past the file's end would be a SIGBUS.
RegionBacked == file.open => /\ file.base => file.reserved <= size
                             /\ file.cursor <= size

\* While it is mapped, a copy stays inside the region.
CopyInRegion == pc = "copy" /\ file.base => file.cursor + needed <= file.reserved

\* Close leaves exactly the bytes that were committed, when its ftruncate works.
ClosedAtCursor == pc = "done" /\ cut /\ committed > 0 => size = committed

\* file_map.hpp:108: EnsureAvailable makes `needed` bytes available from
\* WritePtr() or returns false.
EnsureMeansMapped == pc = "copy" => file.base

Inv == /\ TypeOK /\ RegionBacked /\ CopyInRegion /\ ClosedAtCursor
       /\ pc \in {"idle", "copy"} => file.open /\ file.cursor = committed
       /\ file.open => file.cursor <= file.reserved /\ file.reserved <= size
       /\ pc = "new" => committed = 0
       /\ pc \in {"new", "done"} => ~file.open
==============================================================================
