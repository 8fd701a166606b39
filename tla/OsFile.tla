------------------------------- MODULE OsFile -------------------------------
(***************************************************************************)
(* util::file (src/src/common/file.h): the handle that a thread has, and   *)
(* the file behind it, which outlives the program.  A call succeeds or, a  *)
(* bounded number of times, fails.  The unit of the file is SCOOP_SIZE     *)
(* bytes, the smallest piece that the program reads or writes.             *)
(*                                                                         *)
(* The module has no behaviour of its own: its operators are the parts of  *)
(* the actions of its users.                                               *)
(***************************************************************************)
EXTENDS Integers, Sequences

CONSTANTS
  Blank,            \* what is on a disk where nothing was written
  Sector,           \* bound of direct I/O: units of a sector, 8
  MaxFaults         \* bound: how often a call fails

ASSUME FileAssumption == Sector \in Nat \ {0} /\ MaxFaults \in Nat

VARIABLES
  handle,           \* handle_: "closed", "buffered" or "direct"
  pos,              \* its file pointer
  exists,
  data,             \* the contents, from 0 on
  faults

fileVars == <<handle, pos, exists, data, faults>>

size == Len(data)

is_open == handle # "closed"

\* Something outside the program fails.
Fault ==
  /\ faults < MaxFaults
  /\ faults' = faults + 1

FileInit ==
  /\ handle = "closed"
  /\ pos = 0
  /\ exists = FALSE
  /\ data = <<>>
  /\ faults = 0

\* open: CREATE_ALWAYS empties a file, OPEN_EXISTING does not.
open(create, nobuf) ==
  \/ /\ handle' = IF nobuf THEN "direct" ELSE "buffered"
     /\ pos' = 0
     /\ exists' = TRUE
     /\ data' = IF create THEN <<>> ELSE data
     /\ UNCHANGED faults
  \/ /\ Fault
     /\ UNCHANGED <<handle, pos, exists, data>>

close ==
  /\ handle' = "closed"
  /\ UNCHANGED <<pos, exists, data, faults>>

\* The true result of seek.
seek(offset) ==
  /\ is_open
  /\ pos' = offset
  /\ UNCHANGED <<handle, exists, data, faults>>

\* The false result of seek, read or write.
fails ==
  /\ IF is_open THEN Fault ELSE UNCHANGED faults
  /\ UNCHANGED <<handle, pos, exists, data>>

Larger(m, n) == IF m > n THEN m ELSE n

\* The contents with the units s at place at.
Overwritten(at, s) ==
  [p \in 1 .. Larger(size, at + Len(s)) |->
     IF p - at \in 1 .. Len(s) THEN s[p - at]
     ELSE IF p <= size THEN data[p] ELSE Blank]

\* What one WriteFile may take of s: it is a number of sectors if the handle
\* is direct.
Portions(s) ==
  {k \in 1 .. Len(s) : handle = "direct" /\ k < Len(s) => k % Sector = 0}

\* One WriteFile, with the first k units of s; k = 0 is none.
WriteFile(s, k) ==
  /\ is_open
  /\ data' = Overwritten(pos, SubSeq(s, 1, k))
  /\ pos' = pos + k
  /\ UNCHANGED <<handle, exists>>

\* The true result of allocate: a file never gets smaller.
allocate(units) ==
  /\ is_open
  /\ data' = [p \in 1 .. Larger(size, units) |->
                IF p <= size THEN data[p] ELSE Blank]
  /\ pos' = IF units > size THEN units ELSE pos
  /\ UNCHANGED <<handle, exists, faults>>

\* What read returns.
Stored(offset, units) == SubSeq(data, offset + 1, offset + units)
=============================================================================
