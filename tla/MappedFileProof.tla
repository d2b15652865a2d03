--------------------------- MODULE MappedFileProof ---------------------------
(***************************************************************************)
(* Proofs about MappedFile, for every growth step, record size and         *)
(* sequence of failing system calls.                                       *)
(***************************************************************************)
EXTENDS MappedFile, TLAPS

\* Rounding up reaches the bytes asked for, and stays a natural number.
LEMMA RoundUpReaches ==
  ASSUME NEW b \in Nat
  PROVE  RoundUpToGrow(b) \in Nat /\ RoundUpToGrow(b) >= b
<1> DEFINE q == (b + GrowBytes - 1) \div GrowBytes
<1>1. GrowBytes \in Nat /\ GrowBytes > 0
  BY GrowBytesAssumption
<1>2. q \in Int /\ GrowBytes * q <= b + GrowBytes - 1 /\ b + GrowBytes - 1 < GrowBytes * q + GrowBytes
  BY <1>1
<1>3. QED
  BY <1>1, <1>2 DEF RoundUpToGrow

\* EnsureAvailable returning true leaves room: the region that Grow maps holds
\* what was written and what is asked for.
LEMMA GrowMakesRoom ==
  ASSUME NEW f \in MappedFiles, NEW n \in Nat
  PROVE  /\ Grow(f, n) \in MappedFiles
         /\ Grow(f, n).open = f.open /\ Grow(f, n).base
         /\ Grow(f, n).cursor = f.cursor
         /\ f.cursor + n <= Grow(f, n).reserved
<1>1. f.cursor + n \in Nat
  BY DEF MappedFiles
<1>2. /\ RoundUpToGrow(f.cursor + n) \in Nat
      /\ RoundUpToGrow(f.cursor + n) >= f.cursor + n
  BY <1>1, RoundUpReaches
<1>3. QED
  BY <1>2 DEF Grow, MappedFiles

\* Advance moves the cursor and nothing else.
LEMMA AdvanceMoves ==
  ASSUME NEW f \in MappedFiles, NEW n \in Nat
  PROVE  /\ Advance(f, n) \in MappedFiles
         /\ Advance(f, n).open = f.open /\ Advance(f, n).base = f.base
         /\ Advance(f, n).reserved = f.reserved
         /\ Advance(f, n).cursor = f.cursor + n
  BY DEF Advance, MappedFiles

LEMMA InitialReserve ==
  ASSUME NEW r \in Nat
  PROVE  Initial(r) \in Nat /\ Initial(r) >= 0
<1>1. (IF r > GrowBytes THEN r ELSE GrowBytes) \in Nat
  BY GrowBytesAssumption
<1>2. QED
  BY <1>1, RoundUpReaches DEF Initial

\* The invariant holds at first and every step keeps it: a region that is
\* mapped lies inside the file, whichever of the system calls of a growth or an
\* open failed before.
LEMMA InvInductive ==
  Inv /\ [Next]_vars => Inv'
<1> SUFFICES ASSUME Inv, [Next]_vars PROVE Inv'
  OBVIOUS
<1> USE BoundsAssumption DEF Inv, TypeOK, RegionBacked, CopyInRegion, ClosedAtCursor
<1>1. ASSUME NEW r \in Reserves, OpenWrite(r) PROVE Inv'
  <2>1. Initial(r) \in Nat
    BY InitialReserve, NeedsAssumption
  <2>2. /\ file' \in MappedFiles /\ file'.reserved = Initial(r) /\ file'.cursor = 0
        /\ file'.open /\ file'.base
    BY <1>1, <2>1 DEF OpenWrite, MappedFiles
  <2>3. size' = Initial(r) /\ pc' = "idle" /\ committed = 0
    BY <1>1 DEF OpenWrite
  <2>4. TypeOK'
    BY <1>1, <2>1, <2>2, <2>3 DEF OpenWrite
  <2>5. file'.reserved <= size' /\ file'.cursor <= size' /\ file'.cursor <= file'.reserved
    BY <2>1, <2>2, <2>3
  <2>6. committed' = 0 /\ file'.cursor = committed'
    BY <1>1, <2>2, <2>3 DEF OpenWrite
  <2>7. QED
    BY <2>2, <2>3, <2>4, <2>5, <2>6
<1>2. ASSUME NEW r \in Reserves, OpenWriteFails(r) PROVE Inv'
  <2>1. Initial(r) \in Nat
    BY InitialReserve, NeedsAssumption
  <2>2. QED
    BY <1>2, <2>1 DEF OpenWriteFails, Fault, MappedFiles
<1>3. ASSUME NEW n \in Needs, EnsureFits(n) PROVE Inv'
  <2>1. n \in Nat /\ file.cursor + n <= file.reserved
    BY <1>3, NeedsAssumption DEF EnsureFits, Fits, Available, MappedFiles
  <2>2. QED
    BY <1>3, <2>1 DEF EnsureFits
<1>4. ASSUME NEW n \in Needs, EnsureGrows(n) PROVE Inv'
  <2>1. n \in Nat
    BY NeedsAssumption
  <2>2. /\ file' \in MappedFiles /\ file'.open = file.open /\ file'.cursor = file.cursor
        /\ file.cursor + n <= file'.reserved
    BY <1>4, <2>1, GrowMakesRoom DEF EnsureGrows
  <2>3. size' = file'.reserved /\ size' \in Nat
    BY <1>4, <2>2 DEF EnsureGrows, Extend, MappedFiles
  <2>4. QED
    BY <1>4, <2>1, <2>2, <2>3 DEF EnsureGrows, MappedFiles
<1>5. ASSUME NEW n \in Needs, EnsureFails(n) PROVE Inv'
  <2>1. n \in Nat
    BY NeedsAssumption
  <2>2. Grow(file, n).reserved \in Nat /\ file.cursor + n <= Grow(file, n).reserved
    BY <2>1, GrowMakesRoom DEF MappedFiles
  <2>3. file.reserved < file.cursor + n
    BY <1>5, <2>1 DEF EnsureFails, Fits, Available, MappedFiles
  <2>4. /\ file' \in MappedFiles /\ ~file'.base /\ file'.open = file.open
        /\ file'.reserved = file.reserved /\ file'.cursor = file.cursor
    BY <1>5 DEF EnsureFails, GrowFailed, MappedFiles
  <2>5. size' \in Nat /\ file.reserved <= size' /\ file.cursor <= size'
    BY <1>5, <2>1, <2>2, <2>3 DEF EnsureFails, MappedFiles
  <2>6. QED
    BY <1>5, <2>4, <2>5 DEF EnsureFails, Fault
<1>6. CASE CopyAndAdvance
  <2>1. /\ file' \in MappedFiles /\ file'.open = file.open /\ file'.base = file.base
        /\ file'.reserved = file.reserved /\ file'.cursor = file.cursor + needed
    BY <1>6, AdvanceMoves DEF CopyAndAdvance
  <2>2. QED
    BY <1>6, <2>1 DEF CopyAndAdvance, MappedFiles
<1>7. CASE CopyToNull
  BY <1>7 DEF CopyToNull
<1>8. CASE Close
  <2>1. /\ file' \in MappedFiles /\ ~file'.open /\ pc' = "done"
        /\ UNCHANGED <<needed, committed>>
    BY <1>8 DEF Close, ClosedFile, MappedFiles
  <2>2. file.cursor \in Nat /\ file.cursor = committed
    BY <1>8 DEF Close, MappedFiles
  <2>3. size' \in Nat /\ faults' \in Nat
    BY <1>8, <2>2 DEF Close, Fault, CutLength
  <2>4. cut' \in BOOLEAN
    BY <1>8 DEF Close
  <2>5. ASSUME cut', committed > 0 PROVE size' = committed
    <3>1. size' = IF file.cursor > 0 THEN CutLength ELSE size
      BY <1>8, <2>5 DEF Close
    <3>2. QED
      BY <2>2, <2>5, <3>1 DEF CutLength
  <2>6. QED
    BY <2>1, <2>3, <2>4, <2>5
<1>9. CASE UNCHANGED vars
  BY <1>9 DEF vars
<1>10. QED
  BY <1>1, <1>2, <1>3, <1>4, <1>5, <1>6, <1>7, <1>8, <1>9 DEF Next

LEMMA InvInit == Init => Inv
  BY DEF Init, Inv, TypeOK, RegionBacked, CopyInRegion, ClosedAtCursor, ClosedFile, MappedFiles

\* A mapped region never reaches past the end of its file.
THEOREM RegionAlwaysBacked == Spec => []RegionBacked
<1>1. Inv => RegionBacked
  BY DEF Inv
<1>2. QED
  BY InvInit, InvInductive, <1>1, PTL DEF Spec

\* While the region is mapped, every copy the writer makes stays inside it.
THEOREM CopiesStayInRegion == Spec => []CopyInRegion
<1>1. Inv => CopyInRegion
  BY DEF Inv
<1>2. QED
  BY InvInit, InvInductive, <1>1, PTL DEF Spec

\* After a Close whose ftruncate worked, the file is as long as the bytes the
\* writer committed: nothing of the preallocated tail is left.
THEOREM ClosedFileIsCut == Spec => []ClosedAtCursor
<1>1. Inv => ClosedAtCursor
  BY DEF Inv
<1>2. QED
  BY InvInit, InvInductive, <1>1, PTL DEF Spec
==============================================================================
