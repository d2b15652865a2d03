------------------------------- MODULE FileMap -------------------------------
(***************************************************************************)
(* MappedFile (src/detail/file_map.cpp, POSIX branch) as a value: the      *)
(* fields of the object, and what each of its operations returns.  The     *)
(* file grows in steps of GrowBytes; growing unmaps the region, extends    *)
(* the file and maps it again, and either system call may fail.            *)
(***************************************************************************)
EXTENDS Integers

CONSTANT GrowBytes      \* FILE_MAP_GROW_BYTES

ASSUME GrowBytesAssumption == GrowBytes \in Nat \ {0}

\* open: m_Fd >= 0; base: m_Base # nullptr; reserved, cursor: m_Reserved, m_Cursor.
MappedFiles == [open: BOOLEAN, base: BOOLEAN, reserved: Nat, cursor: Nat]

\* A default-constructed, closed or moved-from MappedFile.
ClosedFile == [open |-> FALSE, base |-> FALSE, reserved |-> 0, cursor |-> 0]

RoundDownToGrow(bytes) == (bytes \div GrowBytes) * GrowBytes    \* mutant

RoundUpToGrow(bytes) == ((bytes + GrowBytes - 1) \div GrowBytes) * GrowBytes

Available(f) == IF f.reserved > f.cursor THEN f.reserved - f.cursor ELSE 0

\* EnsureAvailable returns true at once when the reservation has room ...
Fits(f, needed) == Available(f) >= needed

\* ... and otherwise calls GrowPosix, which unmaps first: on failure m_Base is
\* null and m_Reserved keeps its old value.
Grow(f, needed) ==
  [f EXCEPT !.base = TRUE, !.reserved = RoundUpToGrow(f.cursor + needed)]
GrowFailed(f) == [f EXCEPT !.base = FALSE]

\* The object after a successful EnsureAvailable(needed).
Ensured(f, needed) == IF Fits(f, needed) THEN f ELSE Grow(f, needed)

\* EnsureAvailable(needed) can return true / false (ftruncate(-1, ..) fails).
CanEnsure(f, needed) == Fits(f, needed) \/ f.open
CanRefuse(f, needed) == ~Fits(f, needed)

Advance(f, bytes) == [f EXCEPT !.cursor = @ + bytes]

\* OpenWrite of a new file with the default reservation.
OpenedFile == [open |-> TRUE, base |-> TRUE, reserved |-> RoundUpToGrow(GrowBytes),
               cursor |-> 0]
==============================================================================
