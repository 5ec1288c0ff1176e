--------------------------- MODULE SpiFlashRange ---------------------------
(***************************************************************************)
(* `benchpod spi-flash write` and `erase`: what spiWrite and the loops of  *)
(* Pod.Erase and Pod.Write do to the flash, request by request.  One is    *)
(* the work of the run of SpiFlashSession; SpiFlashRun puts them together. *)
(*                                                                         *)
(* The part is NOR flash: an erase blanks whole sectors, programming only  *)
(* clears bits, so a cell that was not blank may come out mixed.  Pod and  *)
(* part are external: a pod may or may not say what it erased, a part that *)
(* is not good (protected, worn, on a bad wire) may keep or mangle cells.  *)
(* A part ignores the address bits it does not have.                       *)
(***************************************************************************)
EXTENDS Integers

CONSTANTS Size,       \* addresses 3 bytes reach (AddrSpace)
          PartSizes,  \* the cells a part may have
          Sector,     \* cells in a sector
          MaxErase,   \* cells in one erase request
          MaxWrite    \* cells in one write request

ASSUME RangeAssumption ==
  /\ Size \in Nat \ {0} /\ PartSizes \subseteq 1 .. Size
  /\ Sector \in Nat \ {0} /\ MaxErase \in Nat \ {0} /\ MaxWrite \in Nat \ {0}

VARIABLES
  job,     \* what the run was asked to do
  part,    \* what the pod and the part are like
  step,    \* the loop the run is in
  pos,     \* Erase's at, and Write's addr + off
  cell,    \* the flash
  wear     \* how often each cell was erased: 0, 1 or 2 for more

rangeVars == <<job, part, step, pos, cell, wear>>

Addresses == 0 .. Size - 1
Jobs  == [cmd : {"write", "erase", "chip"}, addr : Addresses, len : 1 .. Size,
          erase : BOOLEAN, verify : BOOLEAN]
Parts == [good : BOOLEAN, reports : BOOLEAN, known : BOOLEAN, size : PartSizes]
End   == job.addr + job.len

\* The range lies in the part.
Fits == End <= part.size

RangeTypeOK ==
  /\ job \in Jobs /\ End <= Size
  /\ part \in Parts
  /\ step \in {"erase", "write", "chip", "done", "failed"}
  /\ pos \in Nat
  /\ cell \in [Addresses -> {"old", "blank", "new", "mixed"}]
  /\ wear \in [Addresses -> 0 .. 2]

\* A range that checkRange or fits refuses sends nothing: fits lets any range pass
\* when the pod does not know the part's size.  A chip erase covers the part.
RangeInit ==
  /\ job \in Jobs /\ End <= Size
  /\ job.cmd # "write" => job.erase
  /\ part \in Parts
  /\ job.cmd = "chip" => job.addr = 0 /\ job.len = part.size
  /\ part.known => Fits
  /\ step = CASE job.cmd = "chip" -> "chip"
              [] job.cmd # "chip" /\ job.erase -> "erase"
              [] OTHER -> "write"
  /\ pos = job.addr
  /\ cell = [i \in Addresses |-> "old"]
  /\ wear = [i \in Addresses |-> 0]

-----------------------------------------------------------------------------
(* The pod and the part.                                                   *)

Floor(i) == Sector * (i \div Sector)
Ceil(i)  == Floor(i + Sector - 1)

\* The cells of the sectors that [a, b) touches.
Sectors(a, b) == {i \in Addresses : Floor(a) <= i /\ i < Ceil(b)}

\* The cells that requests for the addresses A reach.
Hits(A) == IF Fits THEN A ELSE {a % part.size : a \in A}

EraseCells(S) ==
  /\ \E kept \in SUBSET S :
       /\ part.good => kept = {}
       /\ cell' = [i \in Addresses |-> IF i \in S \ kept THEN "blank" ELSE cell[i]]
  /\ wear' = [i \in Addresses |-> IF i \notin S THEN wear[i] ELSE IF wear[i] = 0 THEN 1 ELSE 2]

\* Which cells of C come out as they should, and which mixed.
Program(C) ==
  /\ \E bad \in SUBSET C :
       /\ \A i \in bad : part.good => cell[i] # "blank"
       /\ cell' = [i \in Addresses |-> IF i \notin C THEN cell[i]
                                   ELSE IF i \in bad THEN "mixed" ELSE "new"]
  /\ UNCHANGED wear

-----------------------------------------------------------------------------
(* The run.                                                                *)

Least(a, b) == IF a < b THEN a ELSE b

\* Mutant: every erase asks for a whole step.
EraseEndWhole == pos + MaxErase

\* Where the erase that starts at pos ends: it asks for at most what is left.
EraseEnd == pos + Least(MaxErase, End - pos)

\* Mutant: the reply is not looked at.
AfterEraseAsked == EraseEnd

\* Mutant: the reply says where to go on, also when it says nothing.
AfterEraseReplied == IF part.reports THEN Ceil(EraseEnd) ELSE pos

\* The next step starts where the reply says erasing ended, or after what was
\* asked when the reply does not say, or says less.
AfterErase ==
  IF part.reports /\ Ceil(EraseEnd) > EraseEnd THEN Ceil(EraseEnd) ELSE EraseEnd

EraseStep ==
  /\ step = "erase" /\ pos < End
  /\ EraseCells(Hits(Sectors(pos, EraseEnd)))
  /\ pos' = AfterErase
  /\ UNCHANGED <<job, part, step>>

EraseEnds ==
  /\ step = "erase" /\ pos >= End
  /\ IF job.cmd = "write" THEN step' = "write" /\ pos' = job.addr
                          ELSE step' = "done" /\ UNCHANGED pos
  /\ UNCHANGED <<job, part, cell, wear>>

\* Mutant: a last piece that is not a whole chunk is left out.
WriteLeftWhole == pos + MaxWrite <= End

WriteLeft == pos < End

Chunk == {i \in Addresses : pos <= i /\ i < Least(pos + MaxWrite, End)}

\* With verify the pod reads the chunk back and fails on a mismatch.
WriteStep ==
  /\ step = "write" /\ WriteLeft
  /\ Program(Hits(Chunk))
  /\ IF job.verify /\ \E i \in Hits(Chunk) : cell'[i] # "new"
     THEN step' = "failed" /\ UNCHANGED pos
     ELSE pos' = pos + MaxWrite /\ UNCHANGED step
  /\ UNCHANGED <<job, part>>

WriteEnds ==
  /\ step = "write" /\ ~WriteLeft
  /\ step' = "done"
  /\ UNCHANGED <<job, part, pos, cell, wear>>

ChipErase ==
  /\ step = "chip"
  /\ EraseCells(Sectors(job.addr, End))
  /\ step' = "done"
  /\ UNCHANGED <<job, part, pos>>

\* A request is refused, or its reply is lost or says that less was written or that
\* nothing was verified: the pod has carried it out or not.
RequestFails ==
  /\ step \in {"erase", "write", "chip"} /\ pos < End
  /\ step' = "failed"
  /\ \/ UNCHANGED <<cell, wear>>
     \/ step = "erase" /\ EraseCells(Hits(Sectors(pos, EraseEnd)))
     \/ step = "write" /\ Program(Hits(Chunk))
     \/ step = "chip" /\ EraseCells(Sectors(job.addr, End))
  /\ UNCHANGED <<job, part, pos>>

RangeNext ==
  EraseStep \/ EraseEnds \/ WriteStep \/ WriteEnds \/ ChipErase \/ RequestFails

RangeSpec == RangeInit /\ [][RangeNext]_rangeVars

-----------------------------------------------------------------------------
(* Properties.                                                             *)

\* A run that reports success did what it was asked, in a part its range lies in: the
\* code checks that only of a part whose size the pod knows.  The image is in its
\* place when it was verified, whatever the part is like and whether it was blank,
\* and also unverified when it was erased first on a good part; an erase has blanked
\* every sector its range touches.
ResultIsTrue ==
  Fits /\ step = "done" =>
    IF job.cmd = "write"
    THEN job.verify \/ (job.erase /\ part.good) =>
           \A i \in Addresses : job.addr <= i /\ i < End => cell[i] = "new"
    ELSE part.good => \A i \in Sectors(job.addr, End) : cell[i] = "blank"

\* At any moment, failed runs included, the flash outside the sectors the range
\* touches is what it was, and outside the range itself when nothing is erased; again
\* in a part the range lies in.
NeighboursKept ==
  Fits => \A i \in Addresses :
    \/ i \in Sectors(job.addr, End) /\ (job.erase \/ (job.addr <= i /\ i < End))
    \/ cell[i] = "old" /\ wear[i] = 0

\* Pod.Erase's comment: "a sector is never erased twice".  It takes a pod that says
\* what it erased, and holds for a range that starts or ends anywhere in a sector,
\* as long as the part has the sectors.
ErasedOnce == Fits /\ part.reports => \A i \in Addresses : wear[i] <= 1

\* The loops make progress whatever the reply says: the run gets through them.
RangeEnds == <>(step \in {"done", "failed"})
=============================================================================
