-------------------------- MODULE CaptureAperture --------------------------
(***************************************************************************)
(* The arithmetic of mia/core/aperture/capture_aperture.py: a ring of      *)
(* NSlots rows addressed by two cursors that only grow.  Row l of the run  *)
(* (its "logical" index) lives in physical slot l % NSlots; one more slot, *)
(* the sentinel, receives every token row that nobody captures.            *)
(***************************************************************************)
EXTENDS Integers, Sequences

CONSTANT NSlots     \* CaptureAperture.n_slots, rows per layer

ASSUME NSlotsAssumption == NSlots \in Nat \ {0}

Sentinel == NSlots

Slots == 0 .. NSlots

\* free_rows / pending_rows of an aperture whose cursors are w and d.
PendingRows(w, d) == w - d
FreeRows(w, d) == NSlots - (w - d)

\* Mistakes that the checks must notice: a row too many, a row too few.
BugReservesOneMore(n, w, d) == n <= FreeRows(w, d) + 1
BugReservesOneLess(n, w, d) == n < FreeRows(w, d)

\* reserve(n) succeeds iff the free region holds n rows.
Reservable(n, w, d) == n <= FreeRows(w, d)

\* physical_slots(start, n)[j + 1]
PhysicalSlot(l) == l % NSlots

\* The logical rows of a reservation.
RowsFrom(start, n) == start .. (start + n - 1)

\* segments_at(start, n): the half-open physical ranges [from, upto) to copy,
\* one of them, or two when the reservation wraps.
SegmentsAt(start, n) ==
  LET ps == PhysicalSlot(start)
  IN  IF n <= 0 THEN <<>>
      ELSE IF ps + n <= NSlots
           THEN << [from |-> ps, upto |-> ps + n] >>
           ELSE << [from |-> ps, upto |-> NSlots],
                   [from |-> 0, upto |-> n - (NSlots - ps)] >>

\* The slots a copy of these segments reads, in the order it reads them:
\* the concatenation "buf[off : off + (e - s)].copy_(src)" of the drains.
SegmentSlots(segs) ==
  LET span(g) == g.upto - g.from
      first == IF segs = <<>> THEN 0 ELSE span(segs[1])
      total == IF Len(segs) = 2 THEN first + span(segs[2]) ELSE first
  IN  [j \in 1 .. total |->
         IF j <= first THEN segs[1].from + (j - 1)
                       ELSE segs[2].from + (j - first - 1)]

=============================================================================
