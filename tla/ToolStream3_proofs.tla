------------------------- MODULE ToolStream3_proofs -------------------------
(***************************************************************************)
(* Proofs about the frame ring, for every size of pool, head and frame the *)
(* code may be built with, every set of frames and every buffer time.      *)
(***************************************************************************)
EXTENDS ToolStream3, TLAPS, FiniteSetTheorems, WellFoundedInduction

(* What TypeOK and InBounds need to be inductive: a frame ends where the    *)
(* head of the mark after it still fits, and a mark is a head alone.        *)
Fits(e) == IF e.type = "mark" THEN e.len = 0 ELSE e.off + Bytes(e) <= Size - HeadSize

IInv == /\ TypeOK
        /\ \A e \in pool : Fits(e)
        /\ \A d, e \in pool : d = e \/ Disjoint(d, e)

Place0 == [off : 0..(Size - HeadSize), ring : Nat]

ExtentSet == [off : 0..(Size - HeadSize), ring : Nat,
              type : FrameType \cup {"mark"}, len : 0..DataSize]

(* Sizes are natural numbers that leave room for a few frames. *)
LEMMA Sizes ==
    /\ Size \in Nat /\ DataSize \in Nat /\ HeadSize \in Nat /\ Word \in Nat
    /\ 0 < HeadSize /\ 2 * HeadSize <= DataSize /\ 4 * DataSize <= Size
    /\ 0 < Word
BY StreamAssumption

(* The start of the next frame is a place that leaves room for the frame and *)
(* for the mark after it.                                                    *)
LEMMA BaseFits ==
    ASSUME TypeOK
    PROVE  /\ Base \in Place0
           /\ Base.off + 2 * HeadSize + DataSize <= Size
BY Sizes DEF TypeOK, Base, Wraps, Place0

(* Painting one extent over a pool of disjoint extents leaves the pool so. *)
LEMMA PaintKeeps ==
    ASSUME NEW p \in SUBSET ExtentSet, NEW e \in ExtentSet,
           \A d \in p : Fits(d), Fits(e),
           \A c, d \in p : c = d \/ Disjoint(c, d)
    PROVE  /\ Paint(p, e) \in SUBSET ExtentSet
           /\ \A d \in Paint(p, e) : Fits(d)
           /\ \A c, d \in Paint(p, e) : c = d \/ Disjoint(c, d)
<1>1. Paint(p, e) \in SUBSET ExtentSet
  BY DEF Paint
<1>2. \A d \in Paint(p, e) : Fits(d)
  BY DEF Paint
<1>3. \A c, d \in Paint(p, e) : c = d \/ Disjoint(c, d)
  <2> SUFFICES ASSUME NEW c \in Paint(p, e), NEW d \in Paint(p, e), c # d
               PROVE  Disjoint(c, d)
    OBVIOUS
  <2>1. CASE c = e
    BY <2>1 DEF Paint, Disjoint
  <2>2. CASE d = e
    BY <2>2 DEF Paint
  <2>3. CASE c # e /\ d # e
    BY <2>3 DEF Paint
  <2> QED BY <2>1, <2>2, <2>3
<1> QED BY <1>1, <1>2, <1>3

(* Every write keeps the geometry of the pool. *)
LEMMA WriteKeeps ==
    ASSUME IInv, NEW f \in Frame, Write(f)
    PROVE  /\ pool' \in SUBSET ExtentSet
           /\ \A e \in pool' : Fits(e)
           /\ \A d, e \in pool' : d = e \/ Disjoint(d, e)
           /\ wpos' \in Place0
           /\ slen' \in 0..(Word - 1)
           /\ count' \in Int
<1> DEFINE mark == Extent(Mark, wpos)
           marked == IF Wraps THEN Paint(pool, mark) ELSE pool
<1> USE Sizes
<1>1. pool \in SUBSET ExtentSet /\ wpos \in Place0 /\ count \in Int /\ slen \in 0..(Word - 1)
  BY DEF IInv, TypeOK, ExtentSet, Place0
<1>2. Base \in Place0 /\ Base.off + 2 * HeadSize + DataSize <= Size
  BY BaseFits DEF IInv
<1>3. mark \in ExtentSet /\ Fits(mark)
  BY <1>1 DEF Extent, Mark, ExtentSet, Place0, Fits, FrameType
<1>4. /\ marked \in SUBSET ExtentSet
      /\ \A d \in marked : Fits(d)
      /\ \A c, d \in marked : c = d \/ Disjoint(c, d)
  <2> HIDE DEF mark
  <2>1. CASE Wraps
    BY <2>1, <1>1, <1>3, PaintKeeps DEF IInv
  <2>2. CASE ~Wraps
    BY <2>2, <1>1 DEF IInv
  <2> QED BY <2>1, <2>2
<1>5. Extent(f, Base) \in ExtentSet /\ Fits(Extent(f, Base))
  BY <1>2 DEF Extent, ExtentSet, Place0, Fits, Frame, FrameType, Bytes
<1>6. pool' = Paint(marked, Extent(f, Base))
  BY DEF Write
<1>7. /\ pool' \in SUBSET ExtentSet
      /\ \A e \in pool' : Fits(e)
      /\ \A d, e \in pool' : d = e \/ Disjoint(d, e)
  <2> HIDE DEF marked
  <2> QED BY <1>4, <1>5, <1>6, PaintKeeps
<1>8. wpos' \in Place0
  <2>1. wpos' = [off |-> Base.off + Bytes(f), ring |-> Base.ring]
    BY DEF Write
  <2> QED BY <2>1, <1>2 DEF Place0, Frame, Bytes
<1>9. slen' \in 0..(Word - 1) /\ count' \in Int
  BY <1>1 DEF Write, Frame, Bytes
<1> QED BY <1>7, <1>8, <1>9

-----------------------------------------------------------------------------
(* The frames a device sends and the state frame are frames. *)
LEMMA Offered == Frames \subseteq Frame /\ StateFrame \in Frame /\ None \notin Frame
BY StreamAssumption

(* Reading a frame leaves the read position where the next head, or the mark, *)
(* still fits.                                                                *)
LEMMA DeliverKeeps ==
    ASSUME IInv, Deliver
    PROVE  rpos' \in Place0 /\ slen' \in 0..(Word - 1) /\ count' \in Int
<1> USE Sizes
<1>1. pool \in SUBSET ExtentSet /\ rpos \in Place0 /\ count \in Int /\ slen \in 0..(Word - 1)
  BY DEF IInv, TypeOK, ExtentSet, Place0
<1> DEFINE start(h) == IF h.type = "mark" THEN [off |-> 0, ring |-> rpos.ring + 1] ELSE rpos
<1>2. PICK h \in pool, e \in pool :
        /\ e.off = start(h).off
        /\ e.type # "mark"
        /\ rpos' = [off |-> start(h).off + Bytes(e), ring |-> start(h).ring]
        /\ count' = IF Video(e.type) THEN count - 1 ELSE count
        /\ slen' = (slen - Bytes(e)) % Word
  BY DEF Deliver
<1>3. start(h) \in Place0
  BY <1>1 DEF Place0
<1>4. e \in ExtentSet /\ e.off + Bytes(e) <= Size - HeadSize
  BY <1>1, <1>2 DEF IInv, Fits
<1>5. rpos' \in Place0
  <2> HIDE DEF start
  <2> QED BY <1>2, <1>3, <1>4 DEF Place0, ExtentSet, Bytes
<1>6. slen' \in 0..(Word - 1) /\ count' \in Int
  BY <1>1, <1>2, <1>4 DEF ExtentSet, Bytes
<1> QED BY <1>5, <1>6

(* One step of either writer, of the reader or of stop keeps the geometry. *)
LEMMA StepKeeps == IInv /\ [LiveNext \/ PlaybackNext]_vars => IInv'
<1> SUFFICES ASSUME IInv, [LiveNext \/ PlaybackNext]_vars
             PROVE  IInv'
  OBVIOUS
<1>1. /\ TypeOK
      /\ pool \in SUBSET ExtentSet
      /\ wpos \in Place0
      /\ rpos \in Place0
  BY DEF IInv, TypeOK, ExtentSet, Place0
<1> DEFINE Rest == /\ rpos' \in Place0
                   /\ dropFlag' \in BOOLEAN /\ gap' \in BOOLEAN /\ live' \in BOOLEAN
                   /\ reader' \in {"init", "run", "exit"}
                   /\ blocked' \in Frames \cup {None}
           Ring == /\ pool' \in SUBSET ExtentSet
                   /\ \A e \in pool' : Fits(e)
                   /\ \A d, e \in pool' : d = e \/ Disjoint(d, e)
                   /\ wpos' \in Place0
                   /\ slen' \in 0..(Word - 1)
                   /\ count' \in Int
<1>2. ASSUME Rest, Ring PROVE IInv'
  BY <1>2, Sizes DEF IInv, TypeOK, ExtentSet, Place0, Fits, Disjoint, Bytes
<1>3. ASSUME NEW f \in Frame, Write(f) PROVE Ring
  BY <1>3, WriteKeeps
<1>4. ASSUME UNCHANGED ring PROVE Ring
  BY <1>4, <1>1 DEF ring, IInv, TypeOK
<1> HIDE DEF Ring
<1>5. CASE \E f \in Frames : OfferNoDrop(f)
  BY <1>5, <1>1, <1>2, <1>3, <1>4, Offered DEF OfferNoDrop, TypeOK
<1>6. CASE RetryNoDrop
  BY <1>6, <1>1, <1>2, <1>3, Offered DEF RetryNoDrop, TypeOK
<1>7. CASE AbandonNoDrop
  <2>1. gap' \in BOOLEAN
    BY <1>7, <1>1, Zenon DEF AbandonNoDrop, TypeOK
  <2> QED BY <1>7, <1>1, <1>2, <1>4, <2>1 DEF AbandonNoDrop, TypeOK
<1>8. CASE PutState
  BY <1>8, <1>1, <1>2, <1>3, Offered DEF PutState, TypeOK
<1>9. CASE \E f \in Frames, lim \in BufLimits : OfferWithDrop(f, lim)
  <2>1. PICK f \in Frames, lim \in BufLimits : OfferWithDrop(f, lim)
    BY <1>9
  <2>2. CASE DropRest(f)
    BY <2>1, <2>2, <1>1, <1>2, <1>4 DEF OfferWithDrop, DropRest, TypeOK
  <2>3. CASE StartDrop(f, lim)
    BY <2>1, <2>3, <1>1, <1>2, <1>4 DEF OfferWithDrop, StartDrop, TypeOK
  <2>4. CASE Admit(f, lim)
    BY <2>1, <2>4, <1>1, <1>2, <1>3, Offered DEF OfferWithDrop, Admit, TypeOK
  <2> QED BY <2>1, <2>2, <2>3, <2>4 DEF OfferWithDrop
<1>10. ASSUME pool' = pool, wpos' = wpos, slen' \in 0..(Word - 1), count' \in Int
       PROVE  Ring
  BY <1>10, <1>1 DEF Ring, IInv
<1>11. CASE InitReadPos
  BY <1>11, <1>1, <1>2, <1>10, Sizes DEF InitReadPos, TypeOK
<1>12. CASE Resync
  BY <1>12, <1>1, <1>2, <1>10, Sizes DEF Resync, TypeOK
<1>13. CASE Get
  <2>1. rpos' \in Place0 /\ slen' \in 0..(Word - 1) /\ count' \in Int
    BY <1>13, DeliverKeeps DEF Get
  <2> QED BY <1>13, <2>1, <1>1, <1>2, <1>10 DEF Get, Deliver, TypeOK
<1>14. CASE ReaderExit
  BY <1>14, <1>1, <1>2, <1>4 DEF ReaderExit, TypeOK
<1>15. CASE Stop
  BY <1>15, <1>1, <1>2, <1>4 DEF Stop, TypeOK
<1>16. CASE UNCHANGED vars
  BY <1>16, <1>1, <1>2, <1>4 DEF vars, ring, TypeOK
<1> QED BY <1>5, <1>6, <1>7, <1>8, <1>9, <1>11, <1>12, <1>13, <1>14, <1>15, <1>16
        DEF LiveNext, PlaybackNext, Reading

(* The empty ring satisfies the invariant. *)
LEMMA InitHolds == Init => IInv
<1> SUFFICES ASSUME Init PROVE IInv
  OBVIOUS
<1> USE Sizes DEF Init
<1>1. 0 \in 0..(Size - HeadSize) /\ 0 \in 0..(Word - 1) /\ 0 \in Nat
  OBVIOUS
<1>2. [off |-> 0, ring |-> 0] \in [off : 0..(Size - HeadSize), ring : Nat]
  BY <1>1
<1>3. TypeOK
  <2>1. wpos \in [off : 0..(Size - HeadSize), ring : Nat]
    BY <1>2
  <2>2. rpos \in [off : 0..(Size - HeadSize), ring : Nat]
    BY <1>2
  <2>3. pool \subseteq ExtentSet /\ slen \in 0..(Word - 1) /\ count \in Int
    BY <1>1
  <2> QED BY <2>1, <2>2, <2>3 DEF TypeOK, ExtentSet
<1> QED BY <1>3 DEF IInv

(* What the inductive invariant says, in the words of the runs. *)
LEMMA IInvShows == IInv => TypeOK /\ InBounds
BY Sizes DEF IInv, TypeOK, InBounds, Fits, Bytes

(* Both specifications: the state is well typed, whatever device and reader   *)
(* do.                                                                       *)
THEOREM TypeCorrect == LiveSpec \/ PlaybackSpec => []TypeOK
<1>1. IInv /\ [LiveNext]_vars => IInv'
  BY StepKeeps
<1>2. IInv /\ [PlaybackNext]_vars => IInv'
  BY StepKeeps
<1>3. LiveSpec => []TypeOK
  BY InitHolds, IInvShows, <1>1, PTL DEF LiveSpec
<1>4. PlaybackSpec => []TypeOK
  BY InitHolds, IInvShows, <1>2, PTL DEF PlaybackSpec
<1> QED BY <1>3, <1>4

(* Live view: every head, frame and mark lies inside the pool, and intact    *)
(* extents share no byte, for every device and reader.                       *)
THEOREM LiveGeometry == LiveSpec => []InBounds
<1>1. IInv /\ [LiveNext]_vars => IInv'
  BY StepKeeps
<1>2. LiveSpec => []IInv
  BY InitHolds, <1>1, PTL DEF LiveSpec
<1> QED BY <1>2, IInvShows, PTL

(* Playback: the same for the writer that waits. *)
THEOREM PlaybackGeometry == PlaybackSpec => []InBounds
<1>1. IInv /\ [PlaybackNext]_vars => IInv'
  BY StepKeeps
<1>2. PlaybackSpec => []IInv
  BY InitHolds, <1>1, PTL DEF PlaybackSpec
<1> QED BY <1>2, IInvShows, PTL

-----------------------------------------------------------------------------
(* The dropping writer of the live view. *)

(* dropFlag is never down while a dropped frame leaves a gap. *)
GapKnown == gap => dropFlag

(* A step of the live view keeps the bound and the flag. *)
LEMMA LiveStep == IInv /\ QueueBound /\ GapKnown /\ [LiveNext]_vars => QueueBound' /\ GapKnown'
<1> SUFFICES ASSUME IInv, QueueBound, GapKnown, [LiveNext]_vars
             PROVE  QueueBound' /\ GapKnown'
  OBVIOUS
<1>1. count \in Int /\ dropFlag \in BOOLEAN /\ gap \in BOOLEAN
  BY DEF IInv, TypeOK
<1>2. DropCount \in Nat /\ BufLimits \subseteq Nat
  BY StreamAssumption
<1>3. ASSUME count' <= count, count' \in Int PROVE QueueBound'
  BY <1>1, <1>2, <1>3 DEF QueueBound
<1>4. ASSUME count' = 0 PROVE QueueBound'
  BY <1>2, <1>4 DEF QueueBound
<1>5. CASE \E f \in Frames, lim \in BufLimits : OfferWithDrop(f, lim)
  <2>1. PICK f \in Frames, lim \in BufLimits : OfferWithDrop(f, lim)
    BY <1>5
  <2>2. CASE DropRest(f)
    BY <2>2, <1>1, <1>3 DEF DropRest, ring, GapKnown
  <2>3. CASE StartDrop(f, lim)
    BY <2>3, <1>1, <1>3 DEF StartDrop, ring, GapKnown
  <2>4. CASE Admit(f, lim)
    <3>1. GapKnown'
      BY <2>4 DEF Admit, GapKnown
    <3>2. CASE ~Video(f.type)
      BY <2>4, <3>2, <1>1, <1>3, <3>1 DEF Admit, Write
    <3>3. CASE Video(f.type)
      <4>1. count <= lim \/ count <= DropCount
        BY <2>4, <3>3, <1>1, <1>2 DEF Admit, Congested
      <4>2. count' = count + 1
        BY <2>4, <3>3 DEF Admit, Write
      <4> QED BY <4>1, <4>2, <1>1, <1>2, <3>1 DEF QueueBound
    <3> QED BY <3>2, <3>3
  <2> QED BY <2>1, <2>2, <2>3, <2>4 DEF OfferWithDrop
<1>6. CASE PutState
  <2>1. count' = count
    BY <1>6, StreamAssumption DEF PutState, Write, Video
  <2> QED BY <1>6, <2>1, <1>1, <1>3 DEF PutState, GapKnown
<1>7. CASE InitReadPos
  BY <1>7, <1>4 DEF InitReadPos, GapKnown
<1>8. CASE Resync
  BY <1>8, <1>4 DEF Resync, GapKnown
<1>9. CASE Get
  <2>1. count' <= count /\ count' \in Int
    BY <1>9, <1>1 DEF Get, Deliver
  <2> QED BY <1>9, <2>1, <1>3 DEF Get, Deliver, GapKnown
<1>10. CASE ReaderExit
  BY <1>10, <1>1, <1>3 DEF ReaderExit, ring, GapKnown
<1>11. CASE Stop
  BY <1>11, <1>1, <1>3 DEF Stop, ring, GapKnown
<1>12. CASE UNCHANGED vars
  BY <1>12, <1>1, <1>3 DEF vars, GapKnown
<1> QED BY <1>5, <1>6, <1>7, <1>8, <1>9, <1>10, <1>11, <1>12 DEF LiveNext, Reading

(* They hold of the empty ring. *)
LEMMA LiveInit == Init => QueueBound /\ GapKnown
BY StreamAssumption DEF Init, QueueBound, GapKnown

(* A step of the live view that puts a P frame into the pool starts where no *)
(* gap is open.                                                               *)
LEMMA LiveGop ==
    IInv /\ GapKnown /\ [LiveNext]_vars => [\A e \in pool' \ pool : e.type = "P" => ~gap]_vars
<1> SUFFICES ASSUME IInv, GapKnown, LiveNext, NEW e \in pool' \ pool, e.type = "P"
             PROVE  ~gap
  BY DEF vars
<1>1. ASSUME NEW f, Write(f) PROVE f.type = "P"
  BY <1>1 DEF Write, Paint, Extent, Mark
<1>2. CASE \E f \in Frames, lim \in BufLimits : OfferWithDrop(f, lim)
  <2>1. PICK f \in Frames, lim \in BufLimits : OfferWithDrop(f, lim)
    BY <1>2
  <2>2. Admit(f, lim)
    BY <2>1 DEF OfferWithDrop, DropRest, StartDrop, ring
  <2>3. f.type = "P"
    BY <2>2, <1>1 DEF Admit
  <2> QED BY <2>2, <2>3 DEF Admit, GapKnown
<1>3. CASE PutState
  BY <1>3, <1>1, StreamAssumption DEF PutState
<1>4. CASE Reading \/ Stop
  BY <1>4 DEF Reading, Stop, InitReadPos, Resync, Get, Deliver, ReaderExit, ring
<1> QED BY <1>2, <1>3, <1>4 DEF LiveNext

(* Live view: however slow the reader is and whatever the device sends, the  *)
(* backlog holds at most one video frame more than the buffer time or the    *)
(* fixed 5 allows.                                                           *)
THEOREM LiveQueueBound == LiveSpec => []QueueBound
<1>1. IInv /\ QueueBound /\ GapKnown /\ [LiveNext]_vars => IInv' /\ QueueBound' /\ GapKnown'
  BY StepKeeps, LiveStep
<1> QED BY InitHolds, LiveInit, <1>1, PTL DEF LiveSpec

(* Live view: no P frame enters the backlog behind a dropped frame. *)
THEOREM LiveGopIntact == LiveSpec => GopIntact
<1>1. IInv /\ QueueBound /\ GapKnown /\ [LiveNext]_vars => IInv' /\ QueueBound' /\ GapKnown'
  BY StepKeeps, LiveStep
<1> QED BY InitHolds, LiveInit, <1>1, LiveGop, PTL DEF LiveSpec, GopIntact

-----------------------------------------------------------------------------
(* The chain: what the reader will meet between its position and the writer's. *)

(* Where the next extent of a lap starts. *)
End(e) == e.off + Bytes(e)

(* The extents the reader has not passed. *)
Ahead(e) == e.ring > rpos.ring \/ (e.ring = rpos.ring /\ e.off >= rpos.off)

HeadAt(off, lap) == \E h \in pool : h.off = off /\ h.ring = lap

(* Every extent was written before the write position, and a mark is the     *)
(* last extent of a lap that is over.                                        *)
Written == \A e \in pool : \/ e.ring < wpos.ring
                           \/ e.ring = wpos.ring /\ e.type # "mark" /\ End(e) <= wpos.off

MarksLast == \A d, e \in pool : d.type = "mark" /\ e.ring = d.ring => e.off <= d.off

Follows == rpos.ring < wpos.ring \/ (rpos.ring = wpos.ring /\ rpos.off <= wpos.off)

Ordered == Written /\ MarksLast /\ Follows

(* The writer has not lapped the reader. *)
Near == \/ wpos.ring = rpos.ring
        \/ wpos.ring = rpos.ring + 1 /\ wpos.off <= rpos.off

(* Then an extent the reader has not passed leads to the next one, ... *)
Linked == \A e \in pool : Ahead(e) =>
            IF e.type = "mark"
              THEN \E h \in pool : h.off = 0 /\ h.ring = e.ring + 1 /\ h.type # "mark"
              ELSE (End(e) = wpos.off /\ e.ring = wpos.ring) \/ HeadAt(End(e), e.ring)

(* ... the first of them lies at the read position, ... *)
Chain == Near => (rpos = wpos \/ HeadAt(rpos.off, rpos.ring)) /\ Linked

(* ... and stream->len is the distance less what the turn left unused. *)
Turn(h) == /\ h.type = "mark"
           /\ h.ring = rpos.ring
           /\ h.off >= rpos.off
           /\ h.off + 2 * HeadSize + DataSize > Size
           /\ slen = h.off - rpos.off + wpos.off

Span == Near => IF wpos.ring = rpos.ring THEN slen = wpos.off - rpos.off
                                         ELSE \E h \in pool : Turn(h)

(* The types of the positions and extents, field by field. *)
LEMMA Typed ==
    ASSUME IInv
    PROVE  /\ pool \in SUBSET ExtentSet
           /\ \A e \in pool : /\ e.off \in Nat /\ e.off <= Size - HeadSize
                              /\ e.ring \in Nat /\ e.len \in Nat /\ e.len <= DataSize
                              /\ Bytes(e) \in Nat /\ Bytes(e) >= HeadSize
           /\ wpos \in Place0 /\ wpos.off \in Nat /\ wpos.ring \in Nat /\ wpos.off <= Size - HeadSize
           /\ rpos \in Place0 /\ rpos.off \in Nat /\ rpos.ring \in Nat /\ rpos.off <= Size - HeadSize
           /\ slen \in Nat /\ slen < Word /\ count \in Int
<1> USE Sizes
<1>1. /\ pool \in SUBSET ExtentSet
      /\ wpos \in Place0 /\ rpos \in Place0 
      /\ slen \in 0..(Word - 1) /\ count \in Int
  BY DEF IInv, TypeOK, ExtentSet, Place0
<1>2. ASSUME NEW e \in pool
      PROVE  /\ e.off \in Nat /\ e.off <= Size - HeadSize
             /\ e.ring \in Nat /\ e.len \in Nat /\ e.len <= DataSize
             /\ Bytes(e) \in Nat /\ Bytes(e) >= HeadSize
  BY <1>1 DEF ExtentSet, Bytes
<1> QED BY <1>1, <1>2 DEF Place0

(* What a write leaves behind: the frame n at the write position, or, with   *)
(* the mark m in between, at offset 0 of the next lap.                       *)
LEMMA WriteShape ==
    ASSUME IInv, NEW f \in Frame, Write(f)
    PROVE  LET n == Extent(f, Base)
               m == Extent(Mark, wpos)
           IN  /\ n \in ExtentSet /\ n \in pool'
               /\ n.type = f.type /\ n.len = f.len /\ f.type # "mark"
               /\ Bytes(n) = Bytes(f)
               /\ wpos'.off = End(n) /\ wpos'.ring = n.ring
               /\ End(n) + HeadSize <= Size
               /\ ~Wraps => /\ n.off = wpos.off /\ n.ring = wpos.ring
                            /\ pool' = {d \in pool : Disjoint(d, n)} \cup {n}
               /\ Wraps => /\ n.off = 0 /\ n.ring = wpos.ring + 1
                           /\ m.off = wpos.off /\ m.ring = wpos.ring
                           /\ m.type = "mark" /\ m.len = 0 /\ m \in ExtentSet
                           /\ m.off + 2 * HeadSize + DataSize > Size
                           /\ pool' = {d \in pool : Disjoint(d, m) /\ Disjoint(d, n)} \cup {m, n}
<1> DEFINE n == Extent(f, Base)
           m == Extent(Mark, wpos)
<1> USE Sizes
<1>1. wpos \in Place0 /\ wpos.off \in Nat /\ wpos.ring \in Nat /\ wpos.off <= Size - HeadSize
  BY Typed
<1>2. Base \in Place0 /\ Base.off + 2 * HeadSize + DataSize <= Size
  BY BaseFits DEF IInv
<1>3. n = [off |-> Base.off, ring |-> Base.ring, type |-> f.type, len |-> f.len]
  BY DEF Extent
<1>4. m = [off |-> wpos.off, ring |-> wpos.ring, type |-> "mark", len |-> 0]
  BY DEF Extent, Mark
<1>5. wpos' = [off |-> Base.off + Bytes(f), ring |-> Base.ring]
  BY DEF Write
<1>6. f.len \in Nat /\ f.len <= DataSize /\ f.type \in FrameType /\ f.type # "mark"
  BY DEF Frame, FrameType
<1>7. pool' = IF Wraps THEN Paint(Paint(pool, m), n) ELSE Paint(pool, n)
  BY DEF Write
<1> HIDE DEF n, m
<1>8. n \in ExtentSet /\ n.type = f.type /\ n.len = f.len /\ n.off = Base.off /\ n.ring = Base.ring
  BY <1>2, <1>3, <1>6 DEF ExtentSet, Place0
<1>9. m \in ExtentSet /\ m.off = wpos.off /\ m.ring = wpos.ring /\ m.type = "mark" /\ m.len = 0
  BY <1>1, <1>4 DEF ExtentSet, Place0
<1>10. Bytes(n) = Bytes(f) /\ Bytes(n) = HeadSize + n.len
  BY <1>8 DEF Bytes
<1>11. wpos'.off = End(n) /\ wpos'.ring = n.ring
  BY <1>5, <1>8, <1>10 DEF End
<1>12. n \in pool'
  BY <1>7 DEF Paint
<1>13. End(n) + HeadSize <= Size
  BY <1>2, <1>6, <1>8, <1>10 DEF End, Place0
<1>14. ASSUME ~Wraps
       PROVE  /\ n.off = wpos.off /\ n.ring = wpos.ring
              /\ pool' = {d \in pool : Disjoint(d, n)} \cup {n}
  BY <1>14, <1>7, <1>8 DEF Base, Paint
<1>15. ASSUME Wraps
       PROVE  /\ n.off = 0 /\ n.ring = wpos.ring + 1
              /\ m.off + 2 * HeadSize + DataSize > Size
              /\ pool' = {d \in pool : Disjoint(d, m) /\ Disjoint(d, n)} \cup {m, n}
  <2>1. n.off = 0 /\ n.ring = wpos.ring + 1
    BY <1>15, <1>8 DEF Base
  <2>2. m.off + 2 * HeadSize + DataSize > Size
    BY <1>15, <1>9, <1>1 DEF Wraps
  <2>3. Disjoint(m, n)
    BY <2>1, <2>2, <1>1, <1>6, <1>8, <1>9, <1>10 DEF Disjoint
  <2>4. pool' = Paint(Paint(pool, m), n)
    BY <1>15, <1>7
  <2> QED BY <2>1, <2>2, <2>3, <2>4 DEF Paint
<1> QED BY <1>6, <1>8, <1>9, <1>10, <1>11, <1>12, <1>13, <1>14, <1>15 DEF n, m

(* A write keeps the order of the pool. *)
LEMMA WriteOrder ==
    ASSUME IInv, Ordered, NEW f \in Frame, Write(f), UNCHANGED rpos
    PROVE  Ordered'
<1> DEFINE n == Extent(f, Base)
           m == Extent(Mark, wpos)
<1>1. /\ n \in pool' /\ n.type # "mark"
      /\ wpos'.off = End(n) /\ wpos'.ring = n.ring
      /\ n.off \in Nat /\ n.ring \in Nat /\ Bytes(n) \in Nat /\ Bytes(n) > 0
      /\ ~Wraps => /\ n.off = wpos.off /\ n.ring = wpos.ring
                   /\ pool' = {d \in pool : Disjoint(d, n)} \cup {n}
      /\ Wraps => /\ n.off = 0 /\ n.ring = wpos.ring + 1
                  /\ m.off = wpos.off /\ m.ring = wpos.ring
                  /\ m.type = "mark"
                  /\ pool' = {d \in pool : Disjoint(d, m) /\ Disjoint(d, n)} \cup {m, n}
  BY WriteShape, Sizes DEF ExtentSet, Bytes
<1>2. /\ \A e \in pool : e.off \in Nat /\ e.ring \in Nat /\ Bytes(e) \in Nat
      /\ wpos.off \in Nat /\ wpos.ring \in Nat /\ rpos.off \in Nat /\ rpos.ring \in Nat
  BY Typed
<1>3. /\ \A e \in pool : \/ e.ring < wpos.ring
                         \/ e.ring = wpos.ring /\ e.type # "mark" /\ End(e) <= wpos.off
      /\ \A d, e \in pool : d.type = "mark" /\ e.ring = d.ring => e.off <= d.off
      /\ rpos.ring < wpos.ring \/ (rpos.ring = wpos.ring /\ rpos.off <= wpos.off)
  BY DEF Ordered, Written, MarksLast, Follows
<1>4. \A e \in pool : End(e) = e.off + Bytes(e)
  BY DEF End
<1>5. End(n) = n.off + Bytes(n)
  BY DEF End
<1> HIDE DEF n, m
<1>6. \A e \in pool' : e \in pool \/ e = n \/ (Wraps /\ e = m)
  BY <1>1
<1>7. Written'
  <2> SUFFICES ASSUME NEW e \in pool'
               PROVE  \/ e.ring < wpos'.ring
                      \/ e.ring = wpos'.ring /\ e.type # "mark" /\ End(e) <= wpos'.off
    BY DEF Written, End, Bytes
  <2>1. CASE e = n
    BY <2>1, <1>1, <1>5
  <2>2. CASE Wraps /\ e = m
    BY <2>2, <1>1, <1>2
  <2>3. CASE e \in pool
    <3>1. CASE Wraps
      BY <3>1, <2>3, <1>1, <1>2, <1>3
    <3>2. CASE ~Wraps
      BY <3>2, <2>3, <1>1, <1>2, <1>3, <1>4, <1>5
    <3> QED BY <3>1, <3>2
  <2> QED BY <2>1, <2>2, <2>3, <1>6
<1>8. MarksLast'
  <2> SUFFICES ASSUME NEW d \in pool', NEW e \in pool', d.type = "mark", e.ring = d.ring
               PROVE  e.off <= d.off
    BY DEF MarksLast
  <2>1. CASE d \in pool /\ e \in pool
    BY <2>1, <1>3
  <2>2. d # n
    BY <1>1
  <2>3. CASE Wraps /\ d = m
    <3>1. CASE e \in pool
      BY <3>1, <2>3, <1>1, <1>2, <1>3, <1>4
    <3>2. CASE e = n
      BY <3>2, <2>3, <1>1, <1>2
    <3>3. CASE e = m
      BY <3>3, <2>3, <1>1, <1>2
    <3> QED BY <3>1, <3>2, <3>3, <1>6
  <2>4. CASE d \in pool /\ e = n
    BY <2>4, <1>1, <1>2, <1>3
  <2>5. CASE d \in pool /\ Wraps /\ e = m
    BY <2>5, <1>1, <1>2, <1>3
  <2> QED BY <2>1, <2>2, <2>3, <2>4, <2>5, <1>6
<1>9. Follows'
  BY <1>1, <1>2, <1>3, <1>5 DEF Follows
<1> QED BY <1>7, <1>8, <1>9 DEF Ordered

(* A write that leaves the reader within a lap destroys nothing the reader   *)
(* has not passed.                                                           *)
LEMMA WriteSpares ==
    ASSUME IInv, Ordered, NEW f \in Frame, Write(f), UNCHANGED rpos, Near'
    PROVE  /\ Near
           /\ Wraps => wpos.ring = rpos.ring
           /\ \A e \in pool : Ahead(e) => e \in pool'
<1> DEFINE n == Extent(f, Base)
           m == Extent(Mark, wpos)
<1>1. /\ wpos'.off = End(n) /\ wpos'.ring = n.ring
      /\ n.off \in Nat /\ n.ring \in Nat /\ Bytes(n) \in Nat /\ Bytes(n) > 0
      /\ ~Wraps => /\ n.off = wpos.off /\ n.ring = wpos.ring
                   /\ pool' = {d \in pool : Disjoint(d, n)} \cup {n}
      /\ Wraps => /\ n.off = 0 /\ n.ring = wpos.ring + 1
                  /\ m.off = wpos.off /\ m.ring = wpos.ring
                  /\ pool' = {d \in pool : Disjoint(d, m) /\ Disjoint(d, n)} \cup {m, n}
  BY WriteShape, Sizes DEF ExtentSet, Bytes
<1>2. /\ \A e \in pool : e.off \in Nat /\ e.ring \in Nat /\ Bytes(e) \in Nat /\ Bytes(e) > 0
      /\ wpos.off \in Nat /\ wpos.ring \in Nat /\ rpos.off \in Nat /\ rpos.ring \in Nat
  BY Typed, Sizes
<1>3. /\ \A e \in pool : \/ e.ring < wpos.ring
                         \/ e.ring = wpos.ring /\ e.type # "mark" /\ End(e) <= wpos.off
      /\ rpos.ring < wpos.ring \/ (rpos.ring = wpos.ring /\ rpos.off <= wpos.off)
  BY DEF Ordered, Written, Follows
<1>4. \A e \in pool : End(e) = e.off + Bytes(e)
  BY DEF End
<1>5. End(n) = n.off + Bytes(n)
  BY DEF End
<1>6. \/ n.ring = rpos.ring
      \/ n.ring = rpos.ring + 1 /\ End(n) <= rpos.off
  BY <1>1 DEF Near
<1> HIDE DEF n, m
<1>7. Wraps => wpos.ring = rpos.ring
  BY <1>1, <1>2, <1>3, <1>6
<1>8. Near
  BY <1>1, <1>2, <1>3, <1>5, <1>6 DEF Near
<1>9. ASSUME NEW e \in pool, Ahead(e)
      PROVE  e \in pool'
  <2>1. e.ring > rpos.ring \/ (e.ring = rpos.ring /\ e.off >= rpos.off)
    BY <1>9 DEF Ahead
  <2>2. Disjoint(e, n)
    BY <2>1, <1>1, <1>2, <1>3, <1>4, <1>5, <1>6 DEF Disjoint
  <2>3. Wraps => Disjoint(e, m)
    BY <2>1, <1>1, <1>2, <1>3, <1>4, <1>7 DEF Disjoint
  <2> QED BY <2>2, <2>3, <1>1
<1> QED BY <1>7, <1>8, <1>9

(* A counter below the word is not cut. *)
LEMMA Small == ASSUME NEW x \in Nat, x < Word PROVE x % Word = x
BY Sizes

(* A write that leaves the reader within a lap puts its frame at the end of  *)
(* the chain.                                                                *)
LEMMA WriteChains ==
    ASSUME IInv, Ordered, Chain, NEW f \in Frame, Write(f), UNCHANGED rpos
    PROVE  Chain'
<1> SUFFICES ASSUME Near'
             PROVE  /\ (rpos = wpos \/ HeadAt(rpos.off, rpos.ring))'
                    /\ Linked'
  BY DEF Chain
<1> DEFINE n == Extent(f, Base)
           m == Extent(Mark, wpos)
<1>1. /\ wpos'.off = End(n) /\ wpos'.ring = n.ring /\ n.type # "mark" /\ n \in pool'
      /\ ~Wraps => /\ n.off = wpos.off /\ n.ring = wpos.ring
                   /\ pool' = {d \in pool : Disjoint(d, n)} \cup {n}
      /\ Wraps => /\ n.off = 0 /\ n.ring = wpos.ring + 1
                  /\ m.off = wpos.off /\ m.ring = wpos.ring /\ m.type = "mark"
                  /\ pool' = {d \in pool : Disjoint(d, m) /\ Disjoint(d, n)} \cup {m, n}
  BY WriteShape
<1>2. /\ \A e \in pool : e.off \in Nat /\ e.ring \in Nat /\ Bytes(e) \in Nat /\ Bytes(e) > 0
      /\ wpos \in Place0
      /\ wpos.off \in Nat /\ wpos.ring \in Nat /\ rpos.off \in Nat /\ rpos.ring \in Nat
  BY Typed, Sizes
<1>3. Near /\ \A e \in pool : Ahead(e) => e \in pool'
  BY WriteSpares
<1>4. (rpos = wpos \/ HeadAt(rpos.off, rpos.ring)) /\ Linked
  BY <1>3 DEF Chain
<1> HIDE DEF n, m
<1>5. \E h \in pool' : h.off = wpos.off /\ h.ring = wpos.ring
  BY <1>1
<1>6. \E h \in pool' : h.off = rpos.off /\ h.ring = rpos.ring
  <2>1. CASE rpos = wpos
    BY <2>1, <1>5
  <2>2. CASE HeadAt(rpos.off, rpos.ring)
    BY <2>2, <1>2, <1>3 DEF HeadAt, Ahead
  <2> QED BY <2>1, <2>2, <1>4
<1>7. ASSUME NEW e \in pool', Ahead(e)
      PROVE  IF e.type = "mark"
               THEN \E h \in pool' : h.off = 0 /\ h.ring = e.ring + 1 /\ h.type # "mark"
               ELSE \/ End(e) = wpos'.off /\ e.ring = wpos'.ring
                    \/ \E h \in pool' : h.off = End(e) /\ h.ring = e.ring
  <2>1. CASE e = n
    BY <2>1, <1>1
  <2>2. CASE Wraps /\ e = m
    BY <2>2, <1>1
  <2>3. CASE e \in pool /\ e.type = "mark"
    <3>1. PICK h \in pool : h.off = 0 /\ h.ring = e.ring + 1 /\ h.type # "mark"
      BY <2>3, <1>4, <1>7 DEF Linked
    <3>2. Ahead(h)
      BY <3>1, <2>3, <1>2, <1>7 DEF Ahead
    <3> QED BY <3>1, <3>2, <2>3, <1>3
  <2>4. CASE e \in pool /\ e.type # "mark"
    <3>1. (End(e) = wpos.off /\ e.ring = wpos.ring) \/ HeadAt(End(e), e.ring)
      BY <2>4, <1>4, <1>7 DEF Linked
    <3>2. CASE End(e) = wpos.off /\ e.ring = wpos.ring
      BY <3>2, <1>5, <2>4
    <3>3. CASE HeadAt(End(e), e.ring)
      <4>1. PICK h \in pool : h.off = End(e) /\ h.ring = e.ring
        BY <3>3 DEF HeadAt
      <4>2. Ahead(h)
        BY <4>1, <2>4, <1>2, <1>7 DEF Ahead, End
      <4> QED BY <4>1, <4>2, <2>4, <1>3
    <3> QED BY <3>1, <3>2, <3>3
  <2> QED BY <2>1, <2>2, <2>3, <2>4, <1>1
<1>8. Linked'
  BY <1>7 DEF Linked, Ahead, HeadAt, End, Bytes
<1>9. HeadAt(rpos.off, rpos.ring)'
  BY <1>6 DEF HeadAt
<1> QED BY <1>8, <1>9

(* ... and stream->len follows the write position. *)
LEMMA WriteSpans ==
    ASSUME IInv, Ordered, Span, NEW f \in Frame, Write(f), UNCHANGED rpos
    PROVE  /\ Span'
           /\ Near' => slen' = slen + Bytes(f)
<1> DEFINE T(h) == /\ h.type = "mark"
                   /\ h.ring = rpos.ring
                   /\ h.off >= rpos.off
                   /\ h.off + 2 * HeadSize + DataSize > Size
                   /\ slen' = h.off - rpos.off + wpos'.off
<1> SUFFICES ASSUME Near'
             PROVE  /\ IF wpos'.ring = rpos.ring THEN slen' = wpos'.off - rpos.off
                                                 ELSE \E h \in pool' : T(h)
                    /\ slen' = slen + Bytes(f)
  BY DEF Span, Turn
<1> USE Sizes
<1> DEFINE n == Extent(f, Base)
           m == Extent(Mark, wpos)
<1>1. /\ n.off \in Nat /\ Bytes(n) \in Nat /\ Bytes(n) = Bytes(f) /\ End(n) + HeadSize <= Size
      /\ wpos'.off = End(n) /\ wpos'.ring = n.ring
      /\ ~Wraps => /\ n.off = wpos.off /\ n.ring = wpos.ring
      /\ Wraps => /\ n.off = 0 /\ n.ring = wpos.ring + 1
                  /\ m.off = wpos.off /\ m.ring = wpos.ring /\ m.type = "mark"
                  /\ m.off + 2 * HeadSize + DataSize > Size
                  /\ m \in pool'
  BY WriteShape DEF ExtentSet, Bytes
<1>2. /\ \A e \in pool : e.off \in Nat /\ e.off <= Size - HeadSize
      /\ wpos.off \in Nat /\ wpos.ring \in Nat /\ wpos.off <= Size - HeadSize
      /\ rpos.off \in Nat /\ rpos.ring \in Nat
      /\ slen \in Nat
  BY Typed
<1>3. Near /\ (Wraps => wpos.ring = rpos.ring) /\ \A e \in pool : Ahead(e) => e \in pool'
  BY WriteSpares
<1>4. End(n) = n.off + Bytes(n)
  BY DEF End
<1>5. slen' = (slen + Bytes(f)) % Word
  BY DEF Write
<1> HIDE DEF n, m
<1>6. IF wpos.ring = rpos.ring THEN slen = wpos.off - rpos.off ELSE \E h \in pool : Turn(h)
  BY <1>3 DEF Span
<1>7. wpos.ring # rpos.ring => wpos.ring = rpos.ring + 1 /\ wpos.off <= rpos.off
  BY <1>3 DEF Near
<1>8. slen <= Size
  BY <1>2, <1>6, <1>7 DEF Turn
<1>9. slen' = slen + Bytes(f)
  <2>1. slen + Bytes(f) \in Nat /\ slen + Bytes(f) < Word
    BY <1>1, <1>2, <1>4, <1>8, StreamAssumption
  <2> QED BY <2>1, <1>5, Small
<1>10. CASE ~Wraps /\ wpos.ring = rpos.ring
  BY <1>10, <1>1, <1>2, <1>4, <1>6, <1>9
<1>11. CASE ~Wraps /\ wpos.ring # rpos.ring
  <2>1. PICK h \in pool : Turn(h)
    BY <1>6, <1>11
  <2>2. h \in pool'
    BY <2>1, <1>2, <1>3 DEF Turn, Ahead
  <2>3. T(h)
    BY <2>1, <1>1, <1>2, <1>4, <1>9, <1>11 DEF Turn
  <2> QED BY <2>2, <2>3, <1>1, <1>9, <1>11
<1>12. CASE Wraps
  <2>1. slen = wpos.off - rpos.off
    BY <1>12, <1>3, <1>6
  <2>2. wpos.off >= rpos.off
    BY <2>1, <1>2
  <2>3. T(m)
    BY <2>1, <2>2, <1>1, <1>2, <1>3, <1>4, <1>9, <1>12
  <2> QED BY <2>3, <1>1, <1>2, <1>3, <1>9, <1>12
<1> QED BY <1>10, <1>11, <1>12, <1>9

(* Two intact extents do not start at the same byte. *)
LEMMA SameOffset ==
    ASSUME IInv, NEW d \in pool, NEW e \in pool, d.off = e.off
    PROVE  d = e
BY Typed, Sizes DEF IInv, Disjoint

(* d lies behind e on the reader's way. *)
Beyond(d, e) == d.ring > e.ring \/ (d.ring = e.ring /\ d.off >= End(e))

(* A reader that is not lapped finds the head of the next frame, or the mark *)
(* and behind it the next frame at offset 0.                                 *)
LEMMA GetFinds ==
    ASSUME IInv, Ordered, Chain, Near, rpos # wpos, Deliver
    PROVE  \E e \in pool :
              /\ e.type # "mark" /\ Ahead(e) /\ out' = e
              /\ rpos'.off = End(e) /\ rpos'.ring = e.ring
              /\ count' = (IF Video(e.type) THEN count - 1 ELSE count)
              /\ slen' = (slen - Bytes(e)) % Word
              /\ \A d \in pool : Ahead(d) /\ d.type # "mark" /\ d # e => Beyond(d, e)
              /\ \/ e.ring = rpos.ring /\ e.off = rpos.off
                 \/ /\ e.ring = rpos.ring + 1 /\ e.off = 0
                    /\ \E h \in pool : h.type = "mark" /\ h.ring = rpos.ring /\ h.off = rpos.off
<1>1. /\ \A e \in pool : e.off \in Nat /\ e.ring \in Nat /\ Bytes(e) \in Nat /\ Bytes(e) > 0
      /\ rpos.off \in Nat /\ rpos.ring \in Nat /\ wpos.off \in Nat /\ wpos.ring \in Nat
  BY Typed, Sizes
<1>2. HeadAt(rpos.off, rpos.ring) /\ Linked
  BY DEF Chain
<1>3. PICK g \in pool : g.off = rpos.off /\ g.ring = rpos.ring
  BY <1>2 DEF HeadAt
<1> DEFINE start(h) == IF h.type = "mark" THEN [off |-> 0, ring |-> rpos.ring + 1] ELSE rpos
<1>4. PICK h \in pool, e \in pool :
        /\ h.off = rpos.off
        /\ e.off = start(h).off
        /\ e.type # "mark"
        /\ out' = e
        /\ rpos' = [off |-> start(h).off + Bytes(e), ring |-> start(h).ring]
        /\ count' = IF Video(e.type) THEN count - 1 ELSE count
        /\ slen' = (slen - Bytes(e)) % Word
  BY DEF Deliver
<1>5. h = g
  BY <1>3, <1>4, SameOffset
<1>6. Ahead(h)
  BY <1>1, <1>3, <1>5 DEF Ahead
<1>7. \A d \in pool : End(d) = d.off + Bytes(d)
  BY DEF End
<1>8. CASE h.type # "mark"
  <2>1. start(h) = rpos
    BY <1>8
  <2>2. e = h
    BY <2>1, <1>4, SameOffset
  <2>3. rpos'.off = End(e) /\ rpos'.ring = e.ring
    BY <2>1, <2>2, <1>3, <1>4, <1>5, <1>7
  <2>4. ASSUME NEW d \in pool, Ahead(d), d # e
        PROVE  Beyond(d, e)
    <3>1. Disjoint(d, e)
      BY <2>4 DEF IInv
    <3> QED BY <3>1, <2>2, <2>4, <1>1, <1>3, <1>5, <1>7 DEF Disjoint, Ahead, Beyond
  <2> QED BY <2>2, <2>3, <2>4, <1>3, <1>4, <1>5, <1>6
<1>9. CASE h.type = "mark"
  <2>1. start(h) = [off |-> 0, ring |-> rpos.ring + 1]
    BY <1>9
  <2>2. PICK k \in pool : k.off = 0 /\ k.ring = h.ring + 1 /\ k.type # "mark"
    BY <1>2, <1>6, <1>9 DEF Linked
  <2>3. e = k
    BY <2>1, <2>2, <1>4, SameOffset
  <2>4. rpos'.off = End(e) /\ rpos'.ring = e.ring
    BY <2>1, <2>2, <2>3, <1>3, <1>4, <1>5, <1>7, <1>1
  <2>5. Ahead(e)
    BY <2>2, <2>3, <1>1, <1>3, <1>5 DEF Ahead
  <2>6. ASSUME NEW d \in pool, Ahead(d), d.type # "mark", d # e
        PROVE  Beyond(d, e)
    <3>1. Disjoint(d, e)
      BY <2>6 DEF IInv
    <3>2. d.ring # rpos.ring
      <4> SUFFICES ASSUME d.ring = rpos.ring PROVE FALSE
        OBVIOUS
      <4>1. d.off <= h.off
        BY <1>3, <1>5, <1>9 DEF Ordered, MarksLast
      <4>2. d.off >= rpos.off
        BY <2>6, <1>1 DEF Ahead
      <4>3. d.off = h.off
        BY <4>1, <4>2, <1>1, <1>4
      <4>4. d = h
        BY <4>3, SameOffset
      <4> QED BY <4>4, <2>6, <1>9
    <3> QED BY <3>1, <3>2, <2>2, <2>3, <2>6, <1>1, <1>3, <1>5, <1>7 DEF Disjoint, Ahead, Beyond
  <2>7. e.ring = rpos.ring + 1 /\ e.off = 0
    BY <2>2, <2>3, <1>3, <1>5
  <2> QED BY <2>4, <2>5, <2>6, <2>7, <1>3, <1>4, <1>5, <1>9
<1> QED BY <1>8, <1>9

(* ... and stays so after it has read it. *)
LEMMA GetChains ==
    ASSUME IInv, Ordered, Chain, Span, Near, rpos # wpos, Deliver,
           pool' = pool, wpos' = wpos
    PROVE  Ordered' /\ Near' /\ Chain' /\ Span'
<1>1. /\ \A e \in pool : e.off \in Nat /\ e.ring \in Nat /\ Bytes(e) \in Nat /\ Bytes(e) > 0
      /\ rpos.off \in Nat /\ rpos.ring \in Nat /\ wpos.off \in Nat /\ wpos.ring \in Nat
      /\ wpos \in Place0 /\ slen \in Nat /\ slen < Word
  BY Typed, Sizes
<1>2. PICK e \in pool :
              /\ e.type # "mark" /\ Ahead(e) /\ out' = e
              /\ rpos'.off = End(e) /\ rpos'.ring = e.ring
              /\ slen' = (slen - Bytes(e)) % Word
              /\ \A d \in pool : Ahead(d) /\ d.type # "mark" /\ d # e => Beyond(d, e)
              /\ \/ e.ring = rpos.ring /\ e.off = rpos.off
                 \/ /\ e.ring = rpos.ring + 1 /\ e.off = 0
                    /\ \E h \in pool : h.type = "mark" /\ h.ring = rpos.ring /\ h.off = rpos.off
  BY GetFinds
<1>3. \A d \in pool : End(d) = d.off + Bytes(d)
  BY DEF End
<1>4. /\ \A d \in pool : \/ d.ring < wpos.ring
                         \/ d.ring = wpos.ring /\ d.type # "mark" /\ End(d) <= wpos.off
      /\ \A c, d \in pool : c.type = "mark" /\ d.ring = c.ring => d.off <= c.off
      /\ rpos.ring < wpos.ring \/ (rpos.ring = wpos.ring /\ rpos.off <= wpos.off)
  BY DEF Ordered, Written, MarksLast, Follows
<1>5. Follows'
  BY <1>1, <1>2, <1>3, <1>4 DEF Follows
<1>6. Ordered'
  BY <1>5 DEF Ordered, Written, MarksLast, End, Bytes
<1>7. Near'
  BY <1>1, <1>2, <1>3, <1>4 DEF Near
<1>8. Linked
  BY DEF Chain
<1>9. \A d \in pool : Ahead(d)' => Ahead(d)
  BY <1>1, <1>2, <1>3 DEF Ahead
<1>10. rpos' \in Place0
  BY DeliverKeeps
<1>11. Linked'
  BY <1>8, <1>9 DEF Linked, Ahead, HeadAt, End, Bytes
<1>12. (rpos = wpos \/ HeadAt(rpos.off, rpos.ring))'
  <2>1. CASE End(e) = wpos.off /\ e.ring = wpos.ring
    <3>1. rpos' = wpos
      BY <2>1, <1>1, <1>2, <1>10 DEF Place0
    <3> QED BY <3>1
  <2>2. CASE HeadAt(End(e), e.ring)
    BY <2>2, <1>2 DEF HeadAt
  <2> QED BY <2>1, <2>2, <1>2, <1>8 DEF Linked
<1>13. Chain'
  BY <1>11, <1>12 DEF Chain
<1> DEFINE T(h) == /\ h.type = "mark"
                   /\ h.ring = rpos.ring
                   /\ h.off >= rpos.off
                   /\ h.off + 2 * HeadSize + DataSize > Size
                   /\ slen = h.off - rpos.off + wpos.off
<1>14. IF wpos.ring = rpos.ring THEN slen = wpos.off - rpos.off ELSE \E h \in pool : T(h)
  BY DEF Span, Turn
<1>15. wpos.ring # rpos.ring => wpos.ring = rpos.ring + 1 /\ wpos.off <= rpos.off
  BY DEF Near
<1>16. CASE wpos.ring = rpos.ring
  <2>1. e.ring = rpos.ring /\ e.off = rpos.off /\ End(e) <= wpos.off
    BY <1>16, <1>1, <1>2, <1>4
  <2>2. slen - Bytes(e) = wpos.off - End(e) /\ slen - Bytes(e) \in Nat /\ slen - Bytes(e) < Word
    BY <2>1, <1>16, <1>1, <1>3, <1>14, Sizes
  <2>3. slen' = wpos.off - End(e)
    BY <2>2, <1>2, Small
  <2>4. Span'
    BY <2>1, <2>3, <1>2, <1>16 DEF Span
  <2> QED BY <2>4, <1>6, <1>7, <1>13
<1>17. CASE wpos.ring # rpos.ring /\ e.ring = rpos.ring
  <2>1. PICK h \in pool : T(h)
    BY <1>14, <1>17
  <2>2. e.off = rpos.off /\ e # h
    BY <2>1, <1>2, <1>17, <1>1
  <2>3. Disjoint(e, h)
    BY <2>2 DEF IInv
  <2>4. End(e) <= h.off
    BY <2>1, <2>2, <2>3, <1>1, <1>3 DEF Disjoint
  <2>5. slen - Bytes(e) = h.off - End(e) + wpos.off /\ slen - Bytes(e) \in Nat /\ slen - Bytes(e) < Word
    BY <2>1, <2>2, <2>4, <1>1, <1>3, Sizes
  <2>6. slen' = h.off - End(e) + wpos.off
    BY <2>5, <1>2, Small
  <2>7. \E x \in pool' : /\ x.type = "mark"
                         /\ x.ring = rpos'.ring
                         /\ x.off >= rpos'.off
                         /\ x.off + 2 * HeadSize + DataSize > Size
                         /\ slen' = x.off - rpos'.off + wpos'.off
    BY <2>1, <2>4, <2>6, <1>2, <1>17
  <2>8. Span'
    BY <2>7, <1>2, <1>17 DEF Span, Turn
  <2> QED BY <2>8, <1>6, <1>7, <1>13
<1>18. CASE wpos.ring # rpos.ring /\ e.ring # rpos.ring
  <2>1. PICK h \in pool : T(h)
    BY <1>14, <1>18
  <2>2. PICK k \in pool : k.type = "mark" /\ k.ring = rpos.ring /\ k.off = rpos.off
    BY <1>2, <1>18
  <2>3. h.off = rpos.off
    BY <2>1, <2>2, <1>1, <1>4
  <2>4. e.ring = wpos.ring /\ e.off = 0 /\ End(e) <= wpos.off
    BY <1>1, <1>2, <1>4, <1>15, <1>18
  <2>5. slen - Bytes(e) = wpos.off - End(e) /\ slen - Bytes(e) \in Nat /\ slen - Bytes(e) < Word
    BY <2>1, <2>3, <2>4, <1>1, <1>3, Sizes
  <2>6. slen' = wpos.off - End(e)
    BY <2>5, <1>2, Small
  <2>7. Span'
    BY <2>4, <2>6, <1>2 DEF Span
  <2> QED BY <2>7, <1>6, <1>7, <1>13
<1> QED BY <1>16, <1>17, <1>18

RingInv == Ordered /\ Chain /\ Span

(* What the steps of either specification do to the ring. *)
Writes(f) == f \in Frame /\ Write(f) /\ UNCHANGED <<rpos, reader, out>>

Skips == InitReadPos \/ Resync

Rests == UNCHANGED <<pool, wpos, rpos, slen, count, out>>

(* A step of the live view is a write, a skip, a delivery or none of these. *)
LEMMA LiveKinds ==
    ASSUME [LiveNext]_vars
    PROVE  \/ \E f \in Frames \cup {StateFrame} : Writes(f) /\ wpos.ring < LapBound
           \/ Skips
           \/ Get
           \/ Rests /\ (reader' = reader \/ ReaderExit)
<1>1. CASE \E f \in Frames, lim \in BufLimits : OfferWithDrop(f, lim)
  <2>1. PICK f \in Frames, lim \in BufLimits : OfferWithDrop(f, lim)
    BY <1>1
  <2>2. CASE Admit(f, lim)
    BY <2>1, <2>2, Offered DEF OfferWithDrop, Admit, Writes
  <2>3. CASE DropRest(f) \/ StartDrop(f, lim)
    BY <2>1, <2>3 DEF OfferWithDrop, DropRest, StartDrop, ring, Rests
  <2> QED BY <2>1, <2>2, <2>3 DEF OfferWithDrop
<1>2. CASE PutState
  BY <1>2, Offered DEF PutState, Writes
<1>3. CASE Reading
  BY <1>3 DEF Reading, Skips, Rests, ReaderExit, ring
<1>4. CASE Stop
  BY <1>4 DEF Stop, ring, Rests
<1>5. CASE UNCHANGED vars
  BY <1>5 DEF vars, Rests
<1> QED BY <1>1, <1>2, <1>3, <1>4, <1>5 DEF LiveNext

(* So is a step of the playback, whose writes have found room. *)
LEMMA PlaybackKinds ==
    ASSUME IInv, [PlaybackNext]_vars
    PROVE  \/ \E f \in Frames \cup {StateFrame} : Writes(f) /\ ~Full
           \/ Skips
           \/ Get
           \/ Rests /\ (reader' = reader \/ ReaderExit)
<1>1. CASE \E f \in Frames : OfferNoDrop(f)
  BY <1>1, Offered DEF OfferNoDrop, Writes, Rests, ring
<1>2. CASE RetryNoDrop
  BY <1>2, Offered DEF RetryNoDrop, Writes, IInv, TypeOK
<1>3. CASE AbandonNoDrop
  BY <1>3 DEF AbandonNoDrop, ring, Rests
<1>4. CASE PutState
  BY <1>4, Offered DEF PutState, Writes
<1>5. CASE Reading
  BY <1>5 DEF Reading, Skips, Rests, ReaderExit, ring
<1>6. CASE Stop
  BY <1>6 DEF Stop, ring, Rests
<1>7. CASE UNCHANGED vars
  BY <1>7 DEF vars, Rests
<1> QED BY <1>1, <1>2, <1>3, <1>4, <1>5, <1>6, <1>7 DEF PlaybackNext

(* A reader that goes to the write position is in order with nothing before it. *)
LEMMA SkipChains ==
    ASSUME IInv, Ordered, Skips
    PROVE  RingInv' /\ Near' /\ rpos' = wpos' /\ pool' = pool
<1>1. pool' = pool /\ wpos' = wpos /\ rpos' = wpos /\ slen' = 0
  BY DEF Skips, InitReadPos, Resync
<1>2. /\ \A e \in pool : e.off \in Nat /\ e.ring \in Nat /\ Bytes(e) \in Nat /\ Bytes(e) > 0
      /\ wpos.off \in Nat /\ wpos.ring \in Nat
  BY Typed, Sizes
<1>3. \A e \in pool : ~Ahead(e)'
  BY <1>1, <1>2 DEF Ahead, Ordered, Written, End
<1>4. Ordered'
  BY <1>1, <1>2 DEF Ordered, Written, MarksLast, Follows, End, Bytes
<1>5. Chain'
  BY <1>1, <1>3 DEF Chain, Linked
<1>6. Span' /\ Near'
  BY <1>1, <1>2 DEF Span, Near
<1> QED BY <1>1, <1>4, <1>5, <1>6 DEF RingInv

(* Whatever a step does to the ring, the chain and the length are kept. *)
LEMMA RingStep ==
    ASSUME IInv, RingInv,
           (\E f \in Frame : Writes(f)) \/ Skips \/ (Get /\ Near) \/ Rests
    PROVE  RingInv'
<1>1. CASE \E f \in Frame : Writes(f)
  BY <1>1, WriteOrder, WriteChains, WriteSpans DEF Writes, RingInv
<1>2. CASE Skips
  BY <1>2, SkipChains DEF RingInv
<1>3. CASE Get /\ Near
  BY <1>3, GetChains DEF Get, RingInv, Deliver
<1>4. CASE Rests
  BY <1>4 DEF Rests, RingInv, Ordered, Written, MarksLast, Follows, Chain, Near, Linked, Ahead,
              HeadAt, Span, Turn, End, Bytes
<1> QED BY <1>1, <1>2, <1>3, <1>4

(* The empty ring has the empty chain. *)
LEMMA RingInit == Init => RingInv /\ Near
<1> SUFFICES ASSUME Init PROVE RingInv /\ Near
  OBVIOUS
<1>1. pool = {} /\ wpos = [off |-> 0, ring |-> 0] /\ rpos = wpos /\ slen = 0
  BY DEF Init
<1>2. Ordered
  BY <1>1 DEF Ordered, Written, MarksLast, Follows
<1>3. Chain
  BY <1>1 DEF Chain, Linked
<1>4. Span /\ Near
  BY <1>1 DEF Span, Near
<1> QED BY <1>2, <1>3, <1>4 DEF RingInv

-----------------------------------------------------------------------------
(* The overrun test. *)

(* More laps are more bytes. *)
LEMMA Laps ==
    ASSUME NEW a \in Nat, NEW b \in Nat, a <= b
    PROVE  a * Size <= b * Size /\ a * Size \in Nat /\ b * Size \in Nat
<1>1. Size \in Nat
  BY Sizes
<1>2. PICK c \in Nat : b = a + c
  <2>1. b - a \in Nat /\ b = a + (b - a)
    OBVIOUS
  <2> QED BY <2>1
<1>3. a * Size \in Nat /\ c * Size \in Nat /\ b * Size \in Nat
  BY <1>1
<1>4. b * Size = a * Size + c * Size
  BY <1>1, <1>2
<1> QED BY <1>3, <1>4

(* A reader within a lap passes it ... *)
LEMMA NearPasses ==
    ASSUME IInv, Follows, Near
    PROVE  ~Overrun
<1> USE Sizes
<1>1. /\ wpos.off \in Nat /\ wpos.ring \in Nat /\ wpos.off <= Size - HeadSize
      /\ rpos.off \in Nat /\ rpos.ring \in Nat /\ rpos.off <= Size - HeadSize
  BY Typed
<1> DEFINE td == (wpos.ring - rpos.ring) * Size + wpos.off - rpos.off
<1>2. td \in Nat /\ td <= Size
  <2>1. CASE wpos.ring = rpos.ring
    <3>1. (wpos.ring - rpos.ring) * Size = 0
      BY <2>1, <1>1
    <3> QED BY <3>1, <2>1, <1>1 DEF Follows
  <2>2. CASE wpos.ring = rpos.ring + 1 /\ wpos.off <= rpos.off
    <3>1. (wpos.ring - rpos.ring) * Size = Size
      BY <2>2, <1>1
    <3> QED BY <3>1, <2>2, <1>1
  <2> QED BY <2>1, <2>2 DEF Near
<1>3. td < Word
  BY <1>2, StreamAssumption
<1>4. Distance = td
  BY <1>2, <1>3, Small DEF Distance
<1> QED BY <1>2, <1>4 DEF Overrun

(* The bytes between the reader and the writer fit in the unsigned 32 bits in *)
(* which get_simple counts them: it is never 4 GB late, 500 laps of its ring.  *)
WithinWord == (wpos.ring - rpos.ring) * Size + wpos.off - rpos.off < Word

(* ... and then a lapped one does not. *)
LEMMA FarFails ==
    ASSUME IInv, Follows, WithinWord, ~Near
    PROVE  Overrun
<1> USE Sizes
<1>1. /\ wpos.off \in Nat /\ wpos.ring \in Nat /\ wpos.off <= Size - HeadSize
      /\ rpos.off \in Nat /\ rpos.ring \in Nat /\ rpos.off <= Size - HeadSize
  BY Typed
<1> DEFINE td == (wpos.ring - rpos.ring) * Size + wpos.off - rpos.off
           laps == wpos.ring - rpos.ring
<1>2. laps \in Nat /\ laps >= 1
  BY <1>1 DEF Follows, Near
<1>3. laps * Size \in Nat
  BY <1>1, <1>2, Laps
<1>4. td < Word
  BY DEF WithinWord
<1>5. td > Size
  <2>1. CASE laps = 1
    <3>1. laps * Size = Size
      BY <2>1
    <3> QED BY <3>1, <2>1, <1>1 DEF Near
  <2>2. CASE laps >= 2
    <3>1. 2 * Size <= laps * Size
      BY <2>2, <1>2, Laps
    <3> QED BY <3>1, <1>1, <1>3
  <2> QED BY <2>1, <2>2, <1>2
<1>6. td \in Nat /\ td < Word
  <2> HIDE DEF laps
  <2>1. td = laps * Size + wpos.off - rpos.off
    BY DEF laps
  <2> HIDE DEF td
  <2> QED BY <2>1, <1>1, <1>3, <1>4, <1>5
<1>7. Distance = td
  BY <1>6, Small DEF Distance
<1> QED BY <1>5, <1>7 DEF Overrun

(* The frames leave room for two more heads in DataSize, as the 500 KB of    *)
(* PTC_VIDEO_FRAME_SIZE do in 1 MB: a full frame would let the writer reach   *)
(* the reader with the bytes the turn wastes.                                 *)
Roomy == \A f \in Frames \cup {StateFrame} : f.len + 3 * HeadSize <= DataSize + 1

(* A writer that found room two frames early does not lap the reader. *)
LEMMA RoomKeepsNear ==
    ASSUME IInv, RingInv, Near, NEW f \in Frame, f.len + 3 * HeadSize <= DataSize + 1,
           Writes(f), ~Full
    PROVE  Near'
<1> USE Sizes
<1> DEFINE n == Extent(f, Base)
<1>1. /\ n.off \in Nat /\ Bytes(n) \in Nat /\ Bytes(n) = HeadSize + f.len /\ End(n) = n.off + Bytes(n)
      /\ wpos'.off = End(n) /\ wpos'.ring = n.ring /\ f.len \in Nat
      /\ ~Wraps => n.off = wpos.off /\ n.ring = wpos.ring
      /\ Wraps => n.off = 0 /\ n.ring = wpos.ring + 1
      /\ rpos' = rpos
  BY WriteShape DEF Writes, ExtentSet, Bytes, End, Frame
<1>2. /\ wpos.off \in Nat /\ wpos.ring \in Nat /\ wpos.off <= Size - HeadSize
      /\ rpos.off \in Nat /\ rpos.ring \in Nat
      /\ slen \in Nat
      /\ \A e \in pool : e.off \in Nat
  BY Typed
<1>3. slen <= Size - 2 * DataSize
  BY <1>2 DEF Full
<1>4. IF wpos.ring = rpos.ring THEN slen = wpos.off - rpos.off ELSE \E h \in pool : Turn(h)
  BY DEF RingInv, Span
<1>5. wpos.ring # rpos.ring => wpos.ring = rpos.ring + 1 /\ wpos.off <= rpos.off
  BY DEF Near
<1>6. Wraps => wpos.off + 2 * HeadSize + DataSize > Size
  BY DEF Wraps
<1> HIDE DEF n
<1>7. CASE wpos.ring = rpos.ring
  BY <1>7, <1>1, <1>2, <1>3, <1>4, <1>6 DEF Near
<1>8. CASE wpos.ring # rpos.ring
  <2>1. PICK h \in pool : Turn(h)
    BY <1>4, <1>8
  <2>2. /\ h.off >= rpos.off /\ h.off + 2 * HeadSize + DataSize > Size
        /\ slen = h.off - rpos.off + wpos.off
    BY <2>1 DEF Turn
  <2>3. ~Wraps
    BY <2>2, <1>2, <1>3, <1>6
  <2>4. wpos.off + Bytes(n) <= rpos.off
    BY <2>2, <1>1, <1>2, <1>3
  <2> QED BY <2>3, <2>4, <1>1, <1>2, <1>5, <1>8 DEF Near
<1> QED BY <1>7, <1>8

(* The steps of the playback keep the invariant with a reader within a lap. *)
LEMMA PlaybackNear ==
    ASSUME Roomy
    PROVE  IInv /\ RingInv /\ Near /\ [PlaybackNext]_vars => IInv' /\ RingInv' /\ Near'
<1> SUFFICES ASSUME IInv, RingInv, Near, [PlaybackNext]_vars
             PROVE  IInv' /\ RingInv' /\ Near'
  OBVIOUS
<1>1. IInv'
  BY StepKeeps
<1>2. \/ \E f \in Frames \cup {StateFrame} : Writes(f) /\ ~Full
      \/ Skips \/ Get \/ Rests
  BY PlaybackKinds
<1>3. RingInv'
  BY <1>2, RingStep DEF Writes
<1>4. Near'
  <2>1. CASE \E f \in Frames \cup {StateFrame} : Writes(f) /\ ~Full
    BY <2>1, RoomKeepsNear DEF Roomy, Writes
  <2>2. CASE Skips
    BY <2>2, SkipChains DEF RingInv
  <2>3. CASE Get
    BY <2>3, GetChains DEF Get, RingInv, Deliver
  <2>4. CASE Rests
    BY <2>4 DEF Rests, Near
  <2> QED BY <2>1, <2>2, <2>3, <2>4, <1>2
<1> QED BY <1>1, <1>3, <1>4

(* Playback: a frame admitted by set_noDrop is not overwritten before it is  *)
(* read, whatever the speeds of the two threads.                              *)
THEOREM PlaybackNeverLapped ==
    ASSUME Roomy
    PROVE  PlaybackSpec => []NeverLapped
<1>1. IInv /\ RingInv /\ Near /\ [PlaybackNext]_vars => IInv' /\ RingInv' /\ Near'
  BY PlaybackNear
<1>2. IInv /\ RingInv /\ Near => NeverLapped
  BY NearPasses DEF RingInv, Ordered, NeverLapped
<1> QED BY InitHolds, RingInit, <1>1, <1>2, PTL DEF PlaybackSpec

(* A reader that is not lapped stands at the next head. *)
LEMMA NearAligned ==
    ASSUME IInv, RingInv, ~Overrun => Near
    PROVE  ReaderAligned
<1> SUFFICES ASSUME rpos # wpos, ~Overrun
             PROVE  \E h \in pool :
                       /\ h.off = rpos.off
                       /\ h.ring = rpos.ring
                       /\ h.type = "mark" => \E e \in pool : /\ e.off = 0
                                                             /\ e.ring = rpos.ring + 1
                                                             /\ e.type # "mark"
  BY DEF ReaderAligned
<1>1. PICK h \in pool : h.off = rpos.off /\ h.ring = rpos.ring
  BY DEF RingInv, Chain, HeadAt
<1>2. Ahead(h)
  BY <1>1, Typed DEF Ahead
<1> QED BY <1>1, <1>2 DEF RingInv, Chain, Linked

LiveInv == IInv /\ RingInv

(* The steps of the live view keep it for any reader less than a word behind. *)
LEMMA LiveRing == LiveInv /\ WithinWord /\ [LiveNext]_vars => LiveInv'
<1> SUFFICES ASSUME LiveInv, WithinWord, [LiveNext]_vars
             PROVE  LiveInv'
  OBVIOUS
<1>1. IInv'
  BY StepKeeps DEF LiveInv
<1>2. (\E f \in Frame : Writes(f)) \/ Skips \/ Get \/ Rests
  BY LiveKinds DEF Writes
<1>3. Get => Near
  BY FarFails DEF Get, LiveInv, RingInv, Ordered
<1>4. RingInv'
  BY <1>2, <1>3, RingStep DEF Writes, LiveInv
<1> QED BY <1>1, <1>4 DEF LiveInv

(* It holds of the empty ring. *)
LEMMA LiveRingInit == Init => LiveInv
BY InitHolds, RingInit DEF LiveInv

(* No reader is a word behind while the laps fit in one: for the first 500    *)
(* laps of the 8 MB ring, that is, and in every run.                          *)
LEMMA FewLaps ==
    ASSUME (LapBound + 1) * Size <= Word
    PROVE  LiveSpec => []WithinWord
<1> DEFINE Early == LiveInv /\ wpos.ring <= LapBound
<1>1. Early => WithinWord
  <2> SUFFICES ASSUME Early PROVE WithinWord
    OBVIOUS
  <2> USE Sizes
  <2>1. /\ wpos.off \in Nat /\ wpos.ring \in Nat /\ wpos.off <= Size - HeadSize
        /\ rpos.off \in Nat /\ rpos.ring \in Nat
        /\ LapBound \in Nat
    BY Typed, StreamAssumption DEF LiveInv
  <2> DEFINE laps == wpos.ring - rpos.ring
  <2>2. laps \in Nat /\ laps <= LapBound
    BY <2>1 DEF LiveInv, RingInv, Ordered, Follows
  <2>3. laps * Size \in Nat /\ laps * Size <= LapBound * Size
    BY <2>1, <2>2, Laps
  <2>4. LapBound * Size \in Nat /\ LapBound * Size + Size <= Word
    BY <2>1
  <2> HIDE DEF laps
  <2>5. laps * Size + wpos.off - rpos.off < Word
    BY <2>1, <2>3, <2>4
  <2> QED BY <2>5 DEF laps, WithinWord
<1>2. Init => Early
  BY LiveRingInit, StreamAssumption DEF Init
<1>3. Early /\ [LiveNext]_vars => Early'
  <2> SUFFICES ASSUME Early, [LiveNext]_vars PROVE Early'
    OBVIOUS
  <2>1. LiveInv'
    BY <1>1, LiveRing
  <2>2. \/ \E f \in Frames \cup {StateFrame} : Writes(f) /\ wpos.ring < LapBound
        \/ Skips \/ Get \/ Rests
    BY LiveKinds
  <2>3. wpos'.ring <= LapBound
    <3>1. CASE \E f \in Frames \cup {StateFrame} : Writes(f) /\ wpos.ring < LapBound
      <4>1. PICK f \in Frame : Write(f) /\ wpos.ring < LapBound
        BY <3>1 DEF Writes
      <4>2. wpos'.ring = wpos.ring \/ wpos'.ring = wpos.ring + 1
        BY <4>1, WriteShape DEF LiveInv
      <4> QED BY <4>1, <4>2, Typed, StreamAssumption DEF LiveInv
    <3>2. CASE Skips \/ Get \/ Rests
      BY <3>2 DEF Skips, InitReadPos, Resync, Get, Deliver, Rests
    <3> QED BY <2>2, <3>1, <3>2
  <2> QED BY <2>1, <2>3
<1> QED BY <1>1, <1>2, <1>3, PTL DEF LiveSpec

(* Live view: a reader that passes the overrun test of get_simple finds at    *)
(* its offset the head of the next frame, or the mark that leads to it, for   *)
(* as long as it never was 2^32 bytes behind.                                 *)
THEOREM LiveReaderAligned == LiveSpec /\ []WithinWord => []ReaderAligned
<1>1. LiveInv /\ WithinWord => ReaderAligned
  BY NearAligned, FarFails DEF LiveInv, RingInv, Ordered
<1> QED BY LiveRingInit, LiveRing, <1>1, PTL DEF LiveSpec

(* Playback: the same for the reader of set_noDrop. *)
THEOREM PlaybackReaderAligned ==
    ASSUME Roomy
    PROVE  PlaybackSpec => []ReaderAligned
<1>1. IInv /\ RingInv /\ Near /\ [PlaybackNext]_vars => IInv' /\ RingInv' /\ Near'
  BY PlaybackNear
<1>2. IInv /\ RingInv /\ Near => ReaderAligned
  BY NearAligned
<1> QED BY InitHolds, RingInit, <1>1, <1>2, PTL DEF PlaybackSpec

-----------------------------------------------------------------------------
(* The unread frames, in the order of their places. *)

(* Places order the extents lap by lap. *)
LEMMA Lexical ==
    ASSUME NEW a \in Nat, NEW b \in Nat, NEW x \in 0..(Size - 1), NEW y \in 0..(Size - 1)
    PROVE  a * Size + x < b * Size + y <=> a < b \/ (a = b /\ x < y)
<1> USE Sizes
<1>1. CASE a < b
  <2>1. (a + 1) * Size <= b * Size
    BY <1>1, Laps
  <2>2. (a + 1) * Size = a * Size + Size
    OBVIOUS
  <2>3. a * Size \in Nat /\ b * Size \in Nat
    OBVIOUS
  <2> QED BY <2>1, <2>2, <2>3, <1>1
<1>2. CASE b < a
  <2>1. (b + 1) * Size <= a * Size
    BY <1>2, Laps
  <2>2. (b + 1) * Size = b * Size + Size
    OBVIOUS
  <2>3. a * Size \in Nat /\ b * Size \in Nat
    OBVIOUS
  <2> QED BY <2>1, <2>2, <2>3, <1>2
<1>3. CASE a = b
  <2>1. a * Size \in Nat
    OBVIOUS
  <2> QED BY <2>1, <1>3
<1> QED BY <1>1, <1>2, <1>3

(* Places compare as pairs of lap and offset do. *)
LEMMA PlaceOrder ==
    ASSUME NEW d, NEW e,
           d.off \in Nat, d.off <= Size - HeadSize, d.ring \in Nat,
           e.off \in Nat, e.off <= Size - HeadSize, e.ring \in Nat
    PROVE  /\ Place(d) \in Nat /\ Place(e) \in Nat
           /\ Place(d) < Place(e) <=> d.ring < e.ring \/ (d.ring = e.ring /\ d.off < e.off)
           /\ Place(d) = Place(e) <=> d.ring = e.ring /\ d.off = e.off
<1> USE Sizes
<1>1. d.off \in 0..(Size - 1) /\ e.off \in 0..(Size - 1)
  OBVIOUS
<1>2. Place(d) \in Nat /\ Place(e) \in Nat
  BY DEF Place
<1>3. Place(d) < Place(e) <=> d.ring < e.ring \/ (d.ring = e.ring /\ d.off < e.off)
  BY <1>1, Lexical DEF Place
<1>4. Place(e) < Place(d) <=> e.ring < d.ring \/ (e.ring = d.ring /\ e.off < d.off)
  BY <1>1, Lexical DEF Place
<1> QED BY <1>2, <1>3, <1>4

(* The unread frames are the frames the reader has not passed. *)
LEMMA UnreadAhead ==
    ASSUME IInv
    PROVE  Unread = {e \in pool : e.type # "mark" /\ Ahead(e)}
<1>1. ASSUME NEW e \in pool PROVE Place(e) >= Place(rpos) <=> Ahead(e)
  <2>1. /\ e.off \in Nat /\ e.off <= Size - HeadSize /\ e.ring \in Nat
        /\ rpos.off \in Nat /\ rpos.ring \in Nat /\ rpos.off <= Size - HeadSize
    BY Typed
  <2>2. /\ Place(e) \in Nat /\ Place(rpos) \in Nat
        /\ Place(e) < Place(rpos) <=> e.ring < rpos.ring \/ (e.ring = rpos.ring /\ e.off < rpos.off)
    BY <2>1, PlaceOrder
  <2> QED BY <2>1, <2>2 DEF Ahead
<1> QED BY <1>1 DEF Unread

(* A write adds one frame, behind all others. *)
LEMMA UnreadPut ==
    ASSUME IInv, RingInv, NEW f, Writes(f), Near'
    PROVE  \E n \in ExtentSet :
             /\ n \notin Unread
             /\ Unread' = Unread \cup {n}
             /\ n.type = f.type /\ Bytes(n) = Bytes(f)
             /\ \A d \in Unread : Place(d) < Place(n)
<1> DEFINE n == Extent(f, Base)
           m == Extent(Mark, wpos)
<1> USE Sizes
<1>1. f \in Frame /\ Write(f) /\ rpos' = rpos
  BY DEF Writes
<1>2. /\ n \in pool' /\ n.type # "mark" /\ n.type = f.type /\ Bytes(n) = Bytes(f)
      /\ n \in ExtentSet
      /\ ~Wraps => /\ n.off = wpos.off /\ n.ring = wpos.ring
                   /\ pool' = {d \in pool : Disjoint(d, n)} \cup {n}
      /\ Wraps => /\ n.off = 0 /\ n.ring = wpos.ring + 1 /\ m.type = "mark"
                  /\ pool' = {d \in pool : Disjoint(d, m) /\ Disjoint(d, n)} \cup {m, n}
  BY <1>1, WriteShape
<1>3. /\ \A e \in pool : /\ e.off \in Nat /\ e.off <= Size - HeadSize
                         /\ e.ring \in Nat /\ Bytes(e) \in Nat /\ Bytes(e) > 0
      /\ wpos.off \in Nat /\ wpos.ring \in Nat /\ wpos.off <= Size - HeadSize
      /\ rpos.off \in Nat /\ rpos.ring \in Nat /\ rpos.off <= Size - HeadSize
  BY Typed
<1>4. n.off \in Nat /\ n.off <= Size - HeadSize /\ n.ring \in Nat
  BY <1>2 DEF ExtentSet
<1> HIDE DEF n, m
<1>5. \A d \in pool : Ahead(d) => d \in pool'
  BY <1>1, WriteSpares DEF RingInv
<1>6. \A d \in pool' : d \in pool \/ d = n \/ d.type = "mark"
  BY <1>2
<1>7. ASSUME NEW d \in pool
      PROVE  Place(d) < Place(n)
  <2>1. \/ d.ring < wpos.ring
        \/ d.ring = wpos.ring /\ d.off + Bytes(d) <= wpos.off
    BY DEF RingInv, Ordered, Written, End
  <2>2. d.ring < n.ring \/ (d.ring = n.ring /\ d.off < n.off)
    BY <2>1, <1>2, <1>3
  <2> QED BY <2>2, <1>3, <1>4, PlaceOrder
<1>8. Place(n) >= Place(rpos)
  <2>1. rpos.ring < wpos.ring \/ (rpos.ring = wpos.ring /\ rpos.off <= wpos.off)
    BY DEF RingInv, Ordered, Follows
  <2>2. ~(n.ring < rpos.ring \/ (n.ring = rpos.ring /\ n.off < rpos.off))
    BY <2>1, <1>2, <1>3
  <2>3. /\ Place(n) \in Nat /\ Place(rpos) \in Nat
        /\ Place(n) < Place(rpos) <=> n.ring < rpos.ring \/ (n.ring = rpos.ring /\ n.off < rpos.off)
    BY <1>3, <1>4, PlaceOrder
  <2> QED BY <2>2, <2>3
<1>9. Unread' = {e \in pool' : e.type # "mark" /\ Place(e) >= Place(rpos)}
  BY <1>1 DEF Unread, Place
<1>10. Unread = {e \in pool : e.type # "mark" /\ Place(e) >= Place(rpos)}
  BY DEF Unread
<1>11. \A d \in Unread : d \in pool /\ Ahead(d)
  BY UnreadAhead
<1>12. Unread' = Unread \cup {n}
  BY <1>2, <1>5, <1>6, <1>8, <1>9, <1>10, <1>11
<1>13. n \notin Unread
  <2>1. Place(n) \in Nat
    BY <1>3, <1>4, PlaceOrder
  <2> QED BY <2>1, <1>7, <1>10
<1> QED BY <1>2, <1>7, <1>10, <1>12, <1>13

(* get_simple takes the frame before all others. *)
LEMMA UnreadTake ==
    ASSUME IInv, RingInv, Near, Get
    PROVE  /\ out' \in Unread
           /\ Unread' = Unread \ {out'}
           /\ count' = IF Video(out'.type) THEN count - 1 ELSE count
           /\ slen' = (slen - Bytes(out')) % Word
           /\ \A d \in Unread \ {out'} : Place(out') < Place(d)
<1> USE Sizes
<1>1. /\ \A e \in pool : /\ e.off \in Nat /\ e.off <= Size - HeadSize
                         /\ e.ring \in Nat /\ Bytes(e) \in Nat /\ Bytes(e) > 0
                         /\ End(e) = e.off + Bytes(e)
      /\ rpos.off \in Nat /\ rpos.ring \in Nat /\ rpos.off <= Size - HeadSize
  BY Typed DEF End
<1>2. rpos # wpos /\ Deliver /\ pool' = pool
  BY DEF Get, Deliver
<1>3. PICK e \in pool :
              /\ e.type # "mark" /\ Ahead(e) /\ out' = e
              /\ rpos'.off = End(e) /\ rpos'.ring = e.ring
              /\ count' = (IF Video(e.type) THEN count - 1 ELSE count)
              /\ slen' = (slen - Bytes(e)) % Word
              /\ \A d \in pool : Ahead(d) /\ d.type # "mark" /\ d # e => Beyond(d, e)
  BY <1>2, GetFinds DEF RingInv
<1>4. Unread = {d \in pool : d.type # "mark" /\ Ahead(d)}
  BY UnreadAhead
<1>5. ASSUME NEW d \in Unread, d # e
      PROVE  Place(e) < Place(d) /\ Place(d) >= Place(rpos')
  <2>1. d \in pool /\ Beyond(d, e)
    BY <1>3, <1>4, <1>5
  <2>2. e.ring < d.ring \/ (e.ring = d.ring /\ e.off < d.off)
    BY <2>1, <1>1 DEF Beyond
  <2>3. rpos'.off \in Nat /\ rpos'.ring \in Nat /\ rpos'.off <= Size - HeadSize
    BY <1>2, DeliverKeeps DEF Place0
  <2>4. ~(d.ring < rpos'.ring \/ (d.ring = rpos'.ring /\ d.off < rpos'.off))
    BY <2>1, <1>1, <1>3 DEF Beyond
  <2>5. Place(e) < Place(d)
    BY <2>1, <2>2, <1>1, PlaceOrder
  <2>6. /\ Place(d) \in Nat /\ Place(rpos') \in Nat
        /\ Place(d) < Place(rpos') <=> d.ring < rpos'.ring \/ (d.ring = rpos'.ring /\ d.off < rpos'.off)
    BY <2>1, <2>3, <1>1, PlaceOrder
  <2> QED BY <2>4, <2>5, <2>6
<1>6. ASSUME NEW d \in pool, Place(d) >= Place(rpos')
      PROVE  Ahead(d) /\ d # e
  <2>1. rpos'.off \in Nat /\ rpos'.ring \in Nat /\ rpos'.off <= Size - HeadSize
    BY <1>2, DeliverKeeps DEF Place0
  <2>2. /\ Place(d) \in Nat /\ Place(rpos') \in Nat
        /\ Place(d) < Place(rpos') <=> d.ring < rpos'.ring \/ (d.ring = rpos'.ring /\ d.off < rpos'.off)
    BY <2>1, <1>1, PlaceOrder
  <2> QED BY <2>1, <2>2, <1>1, <1>3, <1>6 DEF Ahead
<1>7. Unread' = {d \in pool : d.type # "mark" /\ Place(d) >= Place(rpos')}
  BY <1>2 DEF Unread, Place
<1>8. Unread' = Unread \ {e}
  BY <1>4, <1>5, <1>6, <1>7
<1> QED BY <1>3, <1>4, <1>5, <1>8

(* A reader that skips has nothing left to read. *)
LEMMA UnreadSkip ==
    ASSUME IInv, RingInv, Skips
    PROVE  Unread' = {}
<1> USE Sizes
<1>1. pool' = pool /\ rpos' = wpos
  BY DEF Skips, InitReadPos, Resync
<1>2. ASSUME NEW e \in pool PROVE ~(Place(e) >= Place(wpos))
  <2>1. /\ e.off \in Nat /\ e.off <= Size - HeadSize
        /\ e.ring \in Nat /\ Bytes(e) \in Nat /\ Bytes(e) > 0
        /\ End(e) = e.off + Bytes(e)
        /\ wpos.off \in Nat /\ wpos.ring \in Nat /\ wpos.off <= Size - HeadSize
    BY Typed DEF End
  <2>2. e.ring < wpos.ring \/ (e.ring = wpos.ring /\ e.off < wpos.off)
    BY <2>1 DEF RingInv, Ordered, Written
  <2>3. Place(e) \in Nat /\ Place(wpos) \in Nat /\ Place(e) < Place(wpos)
    BY <2>1, <2>2, PlaceOrder
  <2> QED BY <2>3
<1> QED BY <1>1, <1>2 DEF Unread, Place

(* Nothing else changes what is unread. *)
LEMMA UnreadRests == Rests => Unread' = Unread
BY DEF Rests, Unread, Place

(* The sequence of a set of extents by their places. *)
Lower(S, e) == {d \in S : Place(d) < Place(e)}

Sorted(S) == [i \in 1..Cardinality(S) |-> CHOOSE e \in S : Cardinality(Lower(S, e)) = i - 1]

(* Every rank below the number of extents is the rank of one of them. *)
Ranked(S) ==
    /\ IsFiniteSet(S)
    /\ S \in SUBSET ExtentSet
    /\ \A e \in S : Place(e) \in Nat
    /\ \A d, e \in S : Place(d) = Place(e) => d = e
    /\ \A i \in 1..Cardinality(S) : \E e \in S : Cardinality(Lower(S, e)) = i - 1

(* The extents before one of a finite set are fewer than the set. *)
LEMMA LowerFinite ==
    ASSUME NEW S, IsFiniteSet(S), NEW e \in S, \A d \in S : Place(d) \in Nat
    PROVE  /\ IsFiniteSet(Lower(S, e))
           /\ Cardinality(Lower(S, e)) \in Nat
           /\ Cardinality(S) \in Nat
           /\ Cardinality(Lower(S, e)) < Cardinality(S)
<1>1. IsFiniteSet(S \ {e}) /\ Cardinality(S \ {e}) = Cardinality(S) - 1
  BY FS_RemoveElement
<1>2. Lower(S, e) \in SUBSET (S \ {e})
  BY DEF Lower
<1>3. IsFiniteSet(Lower(S, e)) /\ Cardinality(Lower(S, e)) <= Cardinality(S \ {e})
  BY <1>1, <1>2, FS_Subset
<1>4. Cardinality(Lower(S, e)) \in Nat /\ Cardinality(S) \in Nat
  BY <1>3, FS_CardinalityType
<1> QED BY <1>1, <1>3, <1>4

(* No two extents have the same rank. *)
LEMMA RankUnique ==
    ASSUME NEW S, Ranked(S), NEW d \in S, NEW e \in S,
           Cardinality(Lower(S, d)) = Cardinality(Lower(S, e))
    PROVE  d = e
<1>1. IsFiniteSet(S) /\ \A c \in S : Place(c) \in Nat
  BY DEF Ranked
<1>2. ASSUME NEW x \in S, NEW y \in S, Place(x) < Place(y)
      PROVE  Cardinality(Lower(S, x)) < Cardinality(Lower(S, y))
  <2>1. IsFiniteSet(Lower(S, y)) /\ \A c \in Lower(S, y) : Place(c) \in Nat
    BY <1>1, LowerFinite DEF Lower
  <2>2. x \in Lower(S, y)
    BY <1>2 DEF Lower
  <2>3. Cardinality(Lower(Lower(S, y), x)) < Cardinality(Lower(S, y))
    BY <2>1, <2>2, LowerFinite
  <2>4. Lower(Lower(S, y), x) = Lower(S, x)
    BY <1>1, <1>2 DEF Lower
  <2> QED BY <2>3, <2>4
<1>3. Cardinality(Lower(S, d)) \in Nat /\ Cardinality(Lower(S, e)) \in Nat
  BY <1>1, LowerFinite
<1>4. ~(Place(d) < Place(e)) /\ ~(Place(e) < Place(d))
  BY <1>2, <1>3
<1>5. Place(d) = Place(e)
  BY <1>1, <1>4
<1> QED BY <1>5 DEF Ranked

(* The i-th of the sequence is the extent of rank i - 1. *)
LEMMA SortedAt ==
    ASSUME NEW S, Ranked(S), NEW i \in 1..Cardinality(S)
    PROVE  /\ Sorted(S)[i] \in S
           /\ Cardinality(Lower(S, Sorted(S)[i])) = i - 1
           /\ \A e \in S : Cardinality(Lower(S, e)) = i - 1 => Sorted(S)[i] = e
<1>1. \E e \in S : Cardinality(Lower(S, e)) = i - 1
  BY DEF Ranked
<1>2. Sorted(S)[i] = CHOOSE e \in S : Cardinality(Lower(S, e)) = i - 1
  BY DEF Sorted
<1>3. Sorted(S)[i] \in S /\ Cardinality(Lower(S, Sorted(S)[i])) = i - 1
  BY <1>1, <1>2
<1>4. ASSUME NEW e \in S, Cardinality(Lower(S, e)) = i - 1 PROVE Sorted(S)[i] = e
  <2> HIDE DEF Sorted
  <2> QED BY <1>3, <1>4, RankUnique
<1> QED BY <1>3, <1>4

(* The sequence has as many extents as the set. *)
LEMMA SortedSeq ==
    ASSUME NEW S, Ranked(S)
    PROVE  /\ Sorted(S) \in Seq(S)
           /\ Len(Sorted(S)) = Cardinality(S)
           /\ Cardinality(S) \in Nat
<1>1. Cardinality(S) \in Nat
  BY FS_CardinalityType DEF Ranked
<1>2. \A i \in 1..Cardinality(S) : Sorted(S)[i] \in S
  BY SortedAt
<1>3. Sorted(S) \in [1..Cardinality(S) -> S]
  BY <1>2 DEF Sorted
<1> HIDE DEF Sorted
<1>4. Sorted(S) \in Seq(S)
  BY <1>1, <1>3
<1> QED BY <1>1, <1>3, <1>4

(* Nothing is in sequence. *)
LEMMA SortedEmpty == Ranked({}) /\ Sorted({}) = <<>>
<1>1. IsFiniteSet({}) /\ Cardinality({}) = 0
  BY FS_EmptySet
<1>2. Ranked({})
  BY <1>1 DEF Ranked
<1>3. Sorted({}) \in Seq({}) /\ Len(Sorted({})) = 0
  BY <1>1, <1>2, SortedSeq
<1> QED BY <1>2, <1>3

(* An extent behind all others is the last of the sequence. *)
LEMMA SortedPut ==
    ASSUME NEW S, Ranked(S), NEW n \in ExtentSet, n \notin S, Place(n) \in Nat,
           \A d \in S : Place(d) < Place(n)
    PROVE  /\ Ranked(S \cup {n})
           /\ Sorted(S \cup {n}) = Append(Sorted(S), n)
<1> DEFINE U == S \cup {n}
           c == Cardinality(S)
<1>1. IsFiniteSet(S) /\ S \in SUBSET ExtentSet /\ \A e \in S : Place(e) \in Nat
  BY DEF Ranked
<1>2. IsFiniteSet(U) /\ Cardinality(U) = c + 1 /\ c \in Nat
  BY <1>1, FS_AddElement, FS_CardinalityType
<1>3. Lower(U, n) = S
  BY DEF Lower
<1>4. \A e \in S : Lower(U, e) = Lower(S, e)
  BY <1>1 DEF Lower
<1>5. ASSUME NEW i \in 1..Cardinality(U)
      PROVE  \E e \in U : Cardinality(Lower(U, e)) = i - 1
  <2> HIDE DEF U
  <2>0. i = c + 1 \/ i \in 1..c
    BY <1>2
  <2> USE DEF U
  <2>1. CASE i = c + 1
    BY <2>1, <1>2, <1>3
  <2>2. CASE i \in 1..c
    <3>1. PICK e \in S : Cardinality(Lower(S, e)) = i - 1
      BY <2>2 DEF Ranked
    <3> QED BY <3>1, <1>4
  <2> QED BY <2>0, <2>1, <2>2
<1>6. \A d, e \in U : Place(d) = Place(e) => d = e
  BY <1>1 DEF Ranked
<1>7. Ranked(U)
  BY <1>1, <1>2, <1>5, <1>6 DEF Ranked
<1> HIDE DEF U
<1>8. Sorted(U) \in Seq(U) /\ Len(Sorted(U)) = c + 1
  BY <1>2, <1>7, SortedSeq
<1>9. Sorted(S) \in Seq(S) /\ Len(Sorted(S)) = c
  BY SortedSeq
<1>10. Append(Sorted(S), n) \in Seq(U) /\ Len(Append(Sorted(S), n)) = c + 1
  BY <1>9, <1>2 DEF U
<1>11. ASSUME NEW i \in 1..(c + 1) PROVE Sorted(U)[i] = Append(Sorted(S), n)[i]
  <2>1. i \in 1..Cardinality(U) /\ (i = c + 1 \/ i \in 1..c)
    BY <1>2
  <2>2. CASE i = c + 1
    <3>1. n \in U /\ Cardinality(Lower(U, n)) = i - 1
      BY <2>2, <1>2, <1>3 DEF U
    <3>2. Sorted(U)[i] = n
      BY <3>1, <2>1, <1>7, SortedAt
    <3> QED BY <3>2, <2>2, <1>9
  <2>3. CASE i \in 1..c
    <3>1. Sorted(S)[i] \in S /\ Cardinality(Lower(S, Sorted(S)[i])) = i - 1
      BY <2>3, SortedAt
    <3>2. Sorted(S)[i] \in U /\ Cardinality(Lower(U, Sorted(S)[i])) = i - 1
      BY <3>1, <1>4 DEF U
    <3>3. Sorted(U)[i] = Sorted(S)[i]
      BY <3>2, <2>1, <1>7, SortedAt
    <3> QED BY <3>3, <2>3, <1>9
  <2> QED BY <2>1, <2>2, <2>3
<1>12. Sorted(U) = Append(Sorted(S), n)
  BY <1>8, <1>10, <1>11, <1>2
<1> QED BY <1>7, <1>12 DEF U

(* The first of the sequence is the extent before all others, and without it *)
(* the sequence is the tail.                                                 *)
LEMMA SortedTake ==
    ASSUME NEW S, Ranked(S), NEW f \in S, \A d \in S \ {f} : Place(f) < Place(d)
    PROVE  /\ Ranked(S \ {f})
           /\ Sorted(S) # <<>>
           /\ Head(Sorted(S)) = f
           /\ Sorted(S \ {f}) = Tail(Sorted(S))
<1> DEFINE U == S \ {f}
           c == Cardinality(S)
<1>1. IsFiniteSet(S) /\ S \in SUBSET ExtentSet /\ \A e \in S : Place(e) \in Nat
  BY DEF Ranked
<1>2. IsFiniteSet(U) /\ Cardinality(U) = c - 1 /\ c \in Nat /\ c - 1 \in Nat
  <2>1. IsFiniteSet(U) /\ Cardinality(U) = c - 1
    BY <1>1, FS_RemoveElement
  <2>2. c \in Nat /\ Cardinality(U) \in Nat
    BY <1>1, <2>1, FS_CardinalityType
  <2> QED BY <2>1, <2>2
<1>3. Lower(S, f) = {}
  BY <1>1 DEF Lower
<1>4. ASSUME NEW e \in U
      PROVE  Cardinality(Lower(U, e)) = Cardinality(Lower(S, e)) - 1
  <2>1. Lower(U, e) = Lower(S, e) \ {f}
    BY DEF Lower
  <2>2. f \in Lower(S, e)
    BY DEF Lower
  <2>3. IsFiniteSet(Lower(S, e))
    BY <1>1, LowerFinite
  <2> QED BY <2>1, <2>2, <2>3, FS_RemoveElement
<1>5. ASSUME NEW i \in 1..Cardinality(U)
      PROVE  \E e \in U : Cardinality(Lower(U, e)) = i - 1
  <2>1. i + 1 \in 1..c
    BY <1>2
  <2>2. PICK e \in S : Cardinality(Lower(S, e)) = (i + 1) - 1
    BY <2>1 DEF Ranked
  <2>3. e # f
    BY <2>2, <1>3, FS_EmptySet
  <2> QED BY <2>2, <2>3, <1>4
<1>6. \A d, e \in U : Place(d) = Place(e) => d = e
  BY DEF Ranked
<1>7. Ranked(U)
  BY <1>1, <1>2, <1>5, <1>6 DEF Ranked
<1> HIDE DEF U
<1>8. Sorted(U) \in Seq(U) /\ Len(Sorted(U)) = c - 1
  BY <1>2, <1>7, SortedSeq
<1>9. Sorted(S) \in Seq(S) /\ Len(Sorted(S)) = c
  BY SortedSeq
<1>10. Sorted(S) # <<>>
  BY <1>2, <1>9
<1>11. Head(Sorted(S)) = f
  <2>1. 1 \in 1..Cardinality(S) /\ Cardinality(Lower(S, f)) = 1 - 1
    BY <1>2, <1>3, FS_EmptySet
  <2>2. Sorted(S)[1] = f
    BY <2>1, SortedAt
  <2> QED BY <2>2, <1>9, <1>10
<1>12. /\ Tail(Sorted(S)) \in Seq(S) /\ Len(Tail(Sorted(S))) = c - 1
       /\ \A i \in 1..(c - 1) : Tail(Sorted(S))[i] = Sorted(S)[i + 1]
  BY <1>2, <1>9, <1>10
<1>13. ASSUME NEW i \in 1..(c - 1) PROVE Sorted(U)[i] = Sorted(S)[i + 1]
  <2>1. i \in 1..Cardinality(U) /\ i + 1 \in 1..Cardinality(S)
    BY <1>2
  <2>2. Sorted(U)[i] \in U /\ Cardinality(Lower(U, Sorted(U)[i])) = i - 1
    BY <2>1, <1>7, SortedAt
  <2>3. Sorted(U)[i] \in S
    BY <2>2 DEF U
  <2>4. Cardinality(Lower(S, Sorted(U)[i])) \in Nat
    BY <2>3, <1>1, LowerFinite
  <2>5. Cardinality(Lower(S, Sorted(U)[i])) = (i + 1) - 1
    BY <2>2, <2>4, <1>4
  <2> QED BY <2>1, <2>3, <2>5, SortedAt
<1>14. Sorted(U) = Tail(Sorted(S))
  <2>1. Sorted(U) \in Seq(ExtentSet) /\ Tail(Sorted(S)) \in Seq(ExtentSet)
    BY <1>1, <1>8, <1>12 DEF U
  <2> QED BY <2>1, <1>8, <1>12, <1>13, <1>2
<1> QED BY <1>7, <1>10, <1>11, <1>14 DEF U

-----------------------------------------------------------------------------
(* The frame queue. *)

(* The unread frames can be put in a sequence, which is the backlog. *)
Sequenced == Near => Ranked(Unread)

(* The backlog of the refinement mapping is the sequence of the unread frames. *)
LEMMA BacklogSorted == Backlog = Sorted(Unread)
BY DEF Backlog, Sorted, Lower

(* Nothing is unread at first. *)
LEMMA SequencedInit == Init => Sequenced
<1> SUFFICES ASSUME Init PROVE Ranked(Unread)
  BY DEF Sequenced
<1>1. Unread = {}
  BY DEF Init, Unread
<1> QED BY <1>1, SortedEmpty

(* Every step of the ring leaves the unread frames in sequence. *)
LEMMA SequencedStep ==
    ASSUME IInv, RingInv, Sequenced,
           (\E f \in Frame : Writes(f)) \/ Skips \/ (Get /\ Near) \/ Rests
    PROVE  Sequenced'
<1> SUFFICES ASSUME Near' PROVE Ranked(Unread')
  BY DEF Sequenced, Ranked, Lower, Place
<1>1. CASE \E f \in Frame : Writes(f)
  <2>1. PICK f \in Frame : Writes(f)
    BY <1>1
  <2>2. PICK n \in ExtentSet : /\ n \notin Unread
                               /\ Unread' = Unread \cup {n}
                               /\ \A d \in Unread : Place(d) < Place(n)
    BY <2>1, UnreadPut
  <2>3. Near
    BY <2>1, WriteSpares DEF Writes, RingInv
  <2>4. Place(n) \in Nat
    BY Sizes DEF ExtentSet, Place
  <2> QED BY <2>2, <2>3, <2>4, SortedPut DEF Sequenced
<1>2. CASE Skips
  BY <1>2, UnreadSkip, SortedEmpty
<1>3. CASE Get /\ Near
  <2>1. /\ out' \in Unread
        /\ Unread' = Unread \ {out'}
        /\ \A d \in Unread \ {out'} : Place(out') < Place(d)
    BY <1>3, UnreadTake
  <2>2. Ranked(Unread)
    BY <1>3 DEF Sequenced
  <2>3. Ranked(Unread \ {out'})
    BY <2>1, <2>2, SortedTake
  <2> QED BY <2>1, <2>3
<1>4. CASE Rests
  BY <1>4, UnreadRests DEF Sequenced, Rests, Near
<1> QED BY <1>1, <1>2, <1>3, <1>4

(* The overrun test is exact. *)
Exact == ~Overrun <=> Near

(* The queue the reader sees. *)
Queue == IF reader = "run" /\ ~Overrun THEN Backlog ELSE <<>>

(* A sequence is what an appended one begins with. *)
LEMMA LastPut ==
    ASSUME NEW S, NEW q \in Seq(S), NEW x \in S
    PROVE  /\ Append(q, x) # <<>>
           /\ q = SubSeq(Append(q, x), 1, Len(Append(q, x)) - 1)
<1>1. /\ Append(q, x) \in Seq(S) /\ Len(Append(q, x)) = Len(q) + 1 /\ Len(q) \in Nat
      /\ \A i \in 1..Len(q) : Append(q, x)[i] = q[i]
  OBVIOUS
<1>2. Append(q, x) # <<>>
  BY <1>1
<1> DEFINE r == Append(q, x)
<1> HIDE DEF r
<1>3. r \in Seq(S) /\ Len(r) = Len(q) + 1 /\ \A i \in 1..Len(q) : r[i] = q[i]
  BY <1>1 DEF r
<1>4. /\ SubSeq(r, 1, Len(q)) \in Seq(S) /\ Len(SubSeq(r, 1, Len(q))) = Len(q)
      /\ \A i \in 1..Len(q) : SubSeq(r, 1, Len(q))[i] = r[i]
  BY <1>3, <1>1
<1>5. q = SubSeq(r, 1, Len(q))
  BY <1>3, <1>4
<1> QED BY <1>1, <1>2, <1>5 DEF r

(* The moves of the queue: a write puts or, when it laps the      *)
(* reader, loses the backlog; get_simple takes; a reader that skips was       *)
(* lapped before, one that exits loses the backlog.                           *)
Grows == Queue' # <<>> /\ Queue = SubSeq(Queue', 1, Len(Queue') - 1) /\ out' = out

Shrinks == Queue # <<>> /\ out' = Head(Queue) /\ Queue' = Tail(Queue)

Stays == Queue' = Queue /\ out' = out

Lost == Queue' = <<>> /\ out' = out /\ (~Near' \/ reader' # "run")

(* Every step of the ring is one of these moves. *)
LEMMA QueueMoves ==
    ASSUME IInv, RingInv, Sequenced, Exact, Exact',
           \/ \E f \in Frame : Writes(f)
           \/ Skips
           \/ Get
           \/ Rests /\ (reader' = reader \/ ReaderExit)
    PROVE  Grows \/ Shrinks \/ Stays \/ Lost
<1>1. Queue = IF reader = "run" /\ Near THEN Sorted(Unread) ELSE <<>>
  BY BacklogSorted DEF Queue, Exact
<1>2. Queue' = IF reader' = "run" /\ Near' THEN Sorted(Unread') ELSE <<>>
  <2>1. Backlog' = Sorted(Unread')
    BY DEF Backlog, Sorted, Lower, Place
  <2> QED BY <2>1 DEF Queue, Exact
<1>3. CASE \E f \in Frame : Writes(f)
  <2>1. PICK f \in Frame : Writes(f)
    BY <1>3
  <2>2. reader' = reader /\ out' = out
    BY <2>1 DEF Writes
  <2>3. CASE reader = "run" /\ Near'
    <3>1. PICK n \in ExtentSet : /\ n \notin Unread
                                 /\ Unread' = Unread \cup {n}
                                 /\ \A d \in Unread : Place(d) < Place(n)
      BY <2>1, <2>3, UnreadPut
    <3>2. Near
      BY <2>1, <2>3, WriteSpares DEF Writes, RingInv
    <3>3. Place(n) \in Nat
      BY Sizes DEF ExtentSet, Place
    <3>4. Ranked(Unread)
      BY <3>2 DEF Sequenced
    <3>5. Sorted(Unread \cup {n}) = Append(Sorted(Unread), n)
      BY <3>1, <3>3, <3>4, SortedPut
    <3>6. Sorted(Unread) \in Seq(Unread) /\ Unread \in SUBSET ExtentSet
      BY <3>4, SortedSeq DEF Ranked
    <3>7. Sorted(Unread) \in Seq(ExtentSet)
      BY <3>6
    <3>8. Queue = Sorted(Unread) /\ Queue' = Append(Sorted(Unread), n)
      BY <1>1, <1>2, <2>2, <2>3, <3>1, <3>2, <3>5
    <3>9. /\ Append(Sorted(Unread), n) # <<>>
          /\ Sorted(Unread) = SubSeq(Append(Sorted(Unread), n), 1, Len(Append(Sorted(Unread), n)) - 1)
      BY <3>7, LastPut
    <3> QED BY <3>8, <3>9, <2>2 DEF Grows
  <2>4. CASE reader # "run"
    BY <2>2, <2>4, <1>1, <1>2 DEF Stays
  <2>5. CASE ~Near'
    BY <2>2, <2>5, <1>2 DEF Lost
  <2> QED BY <2>3, <2>4, <2>5
<1>4. CASE Skips
  <2>1. out' = out
    BY <1>4 DEF Skips, InitReadPos, Resync, Exact
  <2>2. Queue' = <<>>
    BY <1>2, <1>4, UnreadSkip, SortedEmpty
  <2>3. Queue = <<>>
    BY <1>1, <1>4 DEF Skips, InitReadPos, Resync, Exact
  <2> QED BY <2>1, <2>2, <2>3 DEF Stays
<1>5. CASE Get
  <2>1. Near /\ reader = "run" /\ reader' = "run"
    BY <1>5 DEF Get, Deliver, Exact
  <2>2. Near'
    BY <1>5, <2>1, GetChains DEF Get, Deliver, RingInv
  <2>3. /\ out' \in Unread
        /\ Unread' = Unread \ {out'}
        /\ \A d \in Unread \ {out'} : Place(out') < Place(d)
    BY <1>5, <2>1, UnreadTake
  <2>4. Ranked(Unread)
    BY <2>1 DEF Sequenced
  <2>5. /\ Sorted(Unread) # <<>> /\ Head(Sorted(Unread)) = out'
        /\ Sorted(Unread \ {out'}) = Tail(Sorted(Unread))
    BY <2>3, <2>4, SortedTake
  <2>6. Queue = Sorted(Unread) /\ Queue' = Tail(Sorted(Unread))
    BY <1>1, <1>2, <2>1, <2>2, <2>3, <2>5
  <2> QED BY <2>5, <2>6 DEF Shrinks
<1>6. CASE Rests /\ reader' = reader
  <2>1. Unread' = Unread /\ (Near' <=> Near) /\ out' = out
    BY <1>6, UnreadRests DEF Rests, Near
  <2> QED BY <2>1, <1>1, <1>2, <1>6 DEF Stays
<1>7. CASE Rests /\ ReaderExit
  <2>1. out' = out /\ reader' # "run"
    BY <1>7 DEF Rests, ReaderExit
  <2> QED BY <2>1, <1>2 DEF Lost
<1> QED BY <1>3, <1>4, <1>5, <1>6, <1>7

(* The moves are those of the abstract queue. *)
LEMMA MovesRefine ==
    ASSUME Grows \/ Shrinks \/ Stays \/ Lost
    PROVE  /\ [FQ!Next]_(FQ!qvars)
           /\ Near' /\ reader' = "run" => FQ!Put \/ FQ!Take \/ UNCHANGED FQ!qvars
<1> USE DEF FQ!Next, FQ!Put, FQ!Take, FQ!Flush, FQ!qvars, Queue
<1>1. CASE Grows
  BY <1>1 DEF Grows
<1>2. CASE Shrinks
  BY <1>2 DEF Shrinks
<1>3. CASE Stays
  BY <1>3 DEF Stays
<1>4. CASE Lost
  BY <1>4 DEF Lost
<1> QED BY <1>1, <1>2, <1>3, <1>4

(* The queue is empty at first. *)
LEMMA QueueInit == Init => FQ!Init
BY DEF Init, FQ!Init

(* Live view. *)
LEMMA LiveExact == LiveInv /\ WithinWord => Exact
BY NearPasses, FarFails DEF LiveInv, RingInv, Ordered, Exact

(* A step of the live view is a step of the frame queue. *)
LEMMA LiveMoves ==
    LiveInv /\ Sequenced /\ Exact /\ Exact' /\ [LiveNext]_vars
        => Sequenced' /\ [FQ!Next]_(FQ!qvars)
<1> SUFFICES ASSUME LiveInv, Sequenced, Exact, Exact', [LiveNext]_vars
             PROVE  Sequenced' /\ [FQ!Next]_(FQ!qvars)
  OBVIOUS
<1>1. IInv /\ RingInv
  BY DEF LiveInv
<1>2. \/ \E f \in Frame : Writes(f)
      \/ Skips
      \/ Get
      \/ Rests /\ (reader' = reader \/ ReaderExit)
  BY LiveKinds DEF Writes
<1>3. Get => Near
  BY DEF Get, Exact
<1>4. Sequenced'
  BY <1>1, <1>2, <1>3, SequencedStep
<1>5. [FQ!Next]_(FQ!qvars)
  BY <1>1, <1>2, QueueMoves, MovesRefine
<1> QED BY <1>4, <1>5

(* Live view: the ring implements the frame queue: frames come out in the     *)
(* order they went in, each once, and what is lost is lost as a whole.        *)
THEOREM LiveRefinesQueue == LiveSpec /\ []WithinWord => RefinesFrameQueue
<1>1. LiveInv /\ WithinWord /\ [LiveNext]_vars => LiveInv'
  BY LiveRing
<1>2. LiveSpec /\ []WithinWord => []LiveInv
  BY LiveRingInit, <1>1, PTL DEF LiveSpec
<1>3. LiveInv /\ WithinWord => Exact
  BY LiveExact
<1>4. LiveInv /\ Sequenced /\ Exact /\ Exact' /\ [LiveNext]_vars
        => Sequenced' /\ [FQ!Next]_(FQ!qvars)
  BY LiveMoves
<1>5. LiveSpec /\ []WithinWord => FQ!Init /\ [][FQ!Next]_(FQ!qvars)
  BY SequencedInit, QueueInit, <1>2, <1>3, <1>4, PTL DEF LiveSpec
<1> QED BY <1>5 DEF RefinesFrameQueue, FQ!Spec

(* Playback. *)
LEMMA PlaybackMoves ==
    ASSUME Roomy
    PROVE  IInv /\ RingInv /\ Near /\ Near' /\ Sequenced /\ Exact /\ Exact' /\ [PlaybackNext]_vars
              => /\ Sequenced'
                 /\ [FQ!Next]_(FQ!qvars)
                 /\ reader = "run" /\ reader' = "run" => FQ!Put \/ FQ!Take \/ UNCHANGED FQ!qvars
<1> SUFFICES ASSUME IInv, RingInv, Near, Near', Sequenced, Exact, Exact', [PlaybackNext]_vars
             PROVE  /\ Sequenced'
                    /\ [FQ!Next]_(FQ!qvars)
                    /\ reader = "run" /\ reader' = "run"
                          => FQ!Put \/ FQ!Take \/ UNCHANGED FQ!qvars
  OBVIOUS
<1>1. \/ \E f \in Frame : Writes(f)
      \/ Skips
      \/ Get
      \/ Rests /\ (reader' = reader \/ ReaderExit)
  BY PlaybackKinds DEF Writes
<1>2. Sequenced'
  BY <1>1, SequencedStep
<1>3. Grows \/ Shrinks \/ Stays \/ Lost
  BY <1>1, QueueMoves
<1> QED BY <1>2, <1>3, MovesRefine

(* The overrun test of the playback is exact. *)
LEMMA PlaybackExact == IInv /\ RingInv /\ Near => Exact
BY NearPasses DEF RingInv, Ordered, Exact

(* Playback: while the player runs, the only moves of the backlog are the     *)
(* admission of a frame and its delivery: nothing is lost.                    *)
THEOREM PlaybackLossless ==
    ASSUME Roomy
    PROVE  PlaybackSpec => LosslessWhileRunning
<1>1. IInv /\ RingInv /\ Near /\ [PlaybackNext]_vars => IInv' /\ RingInv' /\ Near'
  BY PlaybackNear
<1>2. PlaybackSpec => [](IInv /\ RingInv /\ Near)
  BY InitHolds, RingInit, <1>1, PTL DEF PlaybackSpec
<1>3. IInv /\ RingInv /\ Near => Exact
  BY PlaybackExact
<1>4. IInv /\ RingInv /\ Near /\ Near' /\ Sequenced /\ Exact /\ Exact' /\ [PlaybackNext]_vars
        => /\ Sequenced'
           /\ [reader = "run" /\ reader' = "run"
                => FQ!Put \/ FQ!Take \/ UNCHANGED FQ!qvars]_vars
  BY PlaybackMoves
<1>5. PlaybackSpec => [][reader = "run" /\ reader' = "run"
                          => FQ!Put \/ FQ!Take \/ UNCHANGED FQ!qvars]_vars
  BY SequencedInit, <1>2, <1>3, <1>4, PTL DEF PlaybackSpec
<1> QED BY <1>5 DEF LosslessWhileRunning

-----------------------------------------------------------------------------
(* Sums over a finite set.  The fold of the community modules is a recursive  *)
(* function that takes the elements in the order of a CHOOSE; what follows    *)
(* shows that it exists and that the order does not matter.                   *)

(* Induction over the natural numbers, from the well-foundedness of strict    *)
(* inclusion between finite sets.                                             *)
LEMMA Least ==
    ASSUME NEW Q, Q \subseteq Nat, Q # {}
    PROVE  \E m \in Q : \A n \in Q : m <= n
<1> DEFINE T == {1..n : n \in Q}
<1>1. T # {} /\ T \subseteq FiniteSubsetsOf(Nat)
  <2> SUFFICES ASSUME NEW n \in Q PROVE 1..n \in SUBSET Nat /\ IsFiniteSet(1..n)
    BY DEF FiniteSubsetsOf
  <2> QED BY FS_Interval
<1>2. PICK t \in T : \A s \in T : ~ (<<s, t>> \in StrictSubsetOrdering(Nat))
  <2> HIDE DEF T
  <2> QED BY <1>1, FS_StrictSubsetOrderingWellFounded, WFMin
<1>3. PICK m \in Q : t = 1..m
  OBVIOUS
<1>4. ASSUME NEW n \in Q, n < m PROVE FALSE
  <2>1. 1..n \subseteq 1..m /\ m \in 1..m /\ m \notin 1..n /\ 1..n \subseteq Nat /\ 1..m \subseteq Nat
    BY <1>4
  <2>2. <<1..n, 1..m>> \in StrictSubsetOrdering(Nat)
    BY <2>1 DEF StrictSubsetOrdering
  <2> QED BY <1>2, <1>3, <2>2
<1> QED BY <1>4

(* A set with 0 and every successor of its elements has all natural numbers. *)
LEMMA Induction ==
    ASSUME NEW S, 0 \in S, \A n \in Nat : n \in S => n + 1 \in S
    PROVE  Nat \subseteq S
<1> SUFFICES ASSUME NEW k \in Nat, k \notin S PROVE FALSE
  OBVIOUS
<1> DEFINE Q == {n \in Nat : n \notin S}
<1>1. PICK m \in Q : \A n \in Q : m <= n
  <2> HIDE DEF Q
  <2>1. Q \subseteq Nat /\ Q # {}
    BY DEF Q
  <2> QED BY <2>1, Least
<1>2. m # 0 /\ m - 1 \in Nat
  BY <1>1
<1>3. m - 1 \in S
  BY <1>1, <1>2
<1>4. (m - 1) + 1 = m
  BY <1>1
<1> QED BY <1>1, <1>2, <1>3, <1>4

(* The element the fold takes first, and what it computes from a function on  *)
(* smaller sets.                                                              *)
First(s) == CHOOSE x \in s : TRUE

Folded(g, s) == IF s = {} THEN 0 ELSE Bytes(First(s)) + g[s \ {First(s)}]

UpTo(S, n) == {s \in SUBSET S : Cardinality(s) <= n}

(* A fold over the subsets of S with at most n elements. *)
FoldUpTo(S, n) == {g \in [UpTo(S, n) -> Nat] : \A s \in UpTo(S, n) : g[s] = Folded(g, s)}

(* The first element is one of the set. *)
LEMMA FirstIn == ASSUME NEW s, s # {} PROVE First(s) \in s
BY DEF First

(* A set without one of its elements is smaller. *)
LEMMA Smaller ==
    ASSUME NEW S, IsFiniteSet(S), NEW s \in SUBSET S, NEW x \in s
    PROVE  /\ s \ {x} \in SUBSET S
           /\ IsFiniteSet(s) /\ Cardinality(s) \in Nat /\ Cardinality(s \ {x}) \in Nat
           /\ Cardinality(s \ {x}) = Cardinality(s) - 1
<1>1. IsFiniteSet(s)
  BY FS_Subset
<1>2. IsFiniteSet(s \ {x}) /\ Cardinality(s \ {x}) = Cardinality(s) - 1
  BY <1>1, FS_RemoveElement
<1> QED BY <1>1, <1>2, FS_CardinalityType

(* There is a fold up to every size. *)
LEMMA FoldsExist ==
    ASSUME NEW S \in SUBSET ExtentSet, IsFiniteSet(S)
    PROVE  \A n \in Nat : FoldUpTo(S, n) # {}
<1> DEFINE N == {n \in Nat : FoldUpTo(S, n) # {}}
<1>0. \A s \in SUBSET S : Cardinality(s) \in Nat /\ (Cardinality(s) = 0 <=> s = {})
  BY FS_Subset, FS_CardinalityType, FS_EmptySet
<1>1. \A x \in S : Bytes(x) \in Nat
  BY Sizes DEF ExtentSet, Bytes
<1>2. 0 \in N
  <2> DEFINE g == [s \in UpTo(S, 0) |-> 0]
  <2>1. \A s \in UpTo(S, 0) : s = {}
    BY <1>0 DEF UpTo
  <2>2. g \in [UpTo(S, 0) -> Nat] /\ \A s \in UpTo(S, 0) : g[s] = Folded(g, s)
    BY <2>1 DEF Folded
  <2>3. g \in FoldUpTo(S, 0)
    BY <2>2 DEF FoldUpTo
  <2> QED BY <2>3
<1>3. ASSUME NEW n \in Nat, n \in N PROVE n + 1 \in N
  <2>1. PICK g \in [UpTo(S, n) -> Nat] : \A s \in UpTo(S, n) : g[s] = Folded(g, s)
    BY <1>3 DEF FoldUpTo
  <2> DEFINE h == [s \in UpTo(S, n + 1) |-> Folded(g, s)]
  <2>2. ASSUME NEW s \in UpTo(S, n + 1), s # {}
        PROVE  First(s) \in S /\ s \ {First(s)} \in UpTo(S, n)
    <3>1. s \in SUBSET S /\ Cardinality(s) <= n + 1 /\ First(s) \in s
      BY <2>2, FirstIn DEF UpTo
    <3> QED BY <3>1, Smaller DEF UpTo
  <2>3. ASSUME NEW s \in UpTo(S, n + 1) PROVE Folded(g, s) \in Nat
    BY <2>2, <1>1 DEF Folded
  <2>4. h \in [UpTo(S, n + 1) -> Nat]
    BY <2>3
  <2>5. UpTo(S, n) \subseteq UpTo(S, n + 1)
    BY <1>0 DEF UpTo
  <2>6. \A s \in UpTo(S, n) : h[s] = g[s]
    BY <2>1, <2>5
  <2>7. ASSUME NEW s \in UpTo(S, n + 1) PROVE h[s] = Folded(h, s)
    <3>1. h[s] = Folded(g, s)
      OBVIOUS
    <3> HIDE DEF h
    <3> QED BY <3>1, <2>2, <2>6 DEF Folded
  <2> HIDE DEF h
  <2>8. h \in FoldUpTo(S, n + 1)
    BY <2>4, <2>7 DEF FoldUpTo
  <2> QED BY <2>8
<1> HIDE DEF N
<1>4. Nat \subseteq N
  BY <1>2, <1>3, Induction
<1> QED BY <1>4 DEF N

(* There is one fold: two of them agree where both are defined. *)
LEMMA FoldUnique ==
    ASSUME NEW S, IsFiniteSet(S), NEW T, NEW g, NEW h,
           \A s \in SUBSET S : g[s] = Folded(g, s),
           \A s \in SUBSET T : h[s] = Folded(h, s)
    PROVE  \A s \in SUBSET S : s \in SUBSET T => g[s] = h[s]
<1> DEFINE N == {n \in Nat : \A s \in SUBSET S : s \in SUBSET T /\ Cardinality(s) <= n => g[s] = h[s]}
<1>1. \A s \in SUBSET S : Cardinality(s) \in Nat /\ (Cardinality(s) = 0 <=> s = {})
  BY FS_Subset, FS_CardinalityType, FS_EmptySet
<1>2. 0 \in N
  <2> SUFFICES ASSUME NEW s \in SUBSET S, s \in SUBSET T, Cardinality(s) <= 0 PROVE g[s] = h[s]
    OBVIOUS
  <2>1. s = {}
    BY <1>1
  <2> QED BY <2>1 DEF Folded
<1>3. ASSUME NEW n \in Nat, n \in N PROVE n + 1 \in N
  <2> SUFFICES ASSUME NEW s \in SUBSET S, s \in SUBSET T, Cardinality(s) <= n + 1 PROVE g[s] = h[s]
    OBVIOUS
  <2>1. CASE s = {}
    BY <2>1 DEF Folded
  <2>2. CASE s # {}
    <3>1. First(s) \in s
      BY <2>2, FirstIn
    <3>2. s \ {First(s)} \in SUBSET S /\ s \ {First(s)} \in SUBSET T /\ Cardinality(s \ {First(s)}) <= n
      BY <3>1, Smaller
    <3>3. g[s \ {First(s)}] = h[s \ {First(s)}]
      BY <3>2, <1>3
    <3> QED BY <3>3 DEF Folded
  <2> QED BY <2>1, <2>2
<1>4. Nat \subseteq N
  <2> HIDE DEF N
  <2> QED BY <1>2, <1>3, Induction
<1> QED BY <1>1, <1>4

(* The recursive function of the fold. *)
Fold(S) == CHOOSE g : g = [s \in SUBSET S |-> Folded(g, s)]

(* The recursive function of the fold computes it. *)
LEMMA FoldWorks ==
    ASSUME NEW S \in SUBSET ExtentSet, IsFiniteSet(S)
    PROVE  /\ Fold(S) \in [SUBSET S -> Nat]
           /\ \A s \in SUBSET S : Fold(S)[s] = Folded(Fold(S), s)
<1>1. Cardinality(S) \in Nat
  BY FS_CardinalityType
<1>2. UpTo(S, Cardinality(S)) = SUBSET S
  BY FS_Subset DEF UpTo
<1>3. FoldUpTo(S, Cardinality(S)) # {}
  BY <1>1, FoldsExist
<1>4. PICK g \in [SUBSET S -> Nat] : \A s \in SUBSET S : g[s] = Folded(g, s)
  BY <1>2, <1>3 DEF FoldUpTo
<1>5. g = [s \in SUBSET S |-> Folded(g, s)]
  BY <1>4
<1>6. Fold(S) = [s \in SUBSET S |-> Folded(Fold(S), s)]
  BY <1>5 DEF Fold
<1>7. \A s \in SUBSET S : Fold(S)[s] = Folded(Fold(S), s)
  BY <1>6
<1>8. \A s \in SUBSET S : Fold(S)[s] = g[s]
  BY <1>4, <1>7, FoldUnique
<1>9. Fold(S) \in [SUBSET S -> Nat]
  BY <1>4, <1>6, <1>8
<1> QED BY <1>7, <1>9

(* Any element may be taken first. *)
LEMMA AnyFirst ==
    ASSUME NEW S \in SUBSET ExtentSet, IsFiniteSet(S)
    PROVE  \A s \in SUBSET S : \A x \in s : Fold(S)[s] = Bytes(x) + Fold(S)[s \ {x}]
<1> DEFINE F == Fold(S)
           N == {n \in Nat : \A s \in SUBSET S : \A x \in s :
                                Cardinality(s) <= n => F[s] = Bytes(x) + F[s \ {x}]}
<1>1. F \in [SUBSET S -> Nat] /\ \A s \in SUBSET S : F[s] = Folded(F, s)
  BY FoldWorks
<1>2. \A x \in S : Bytes(x) \in Nat
  BY Sizes DEF ExtentSet, Bytes
<1> HIDE DEF F
<1>3. 0 \in N
  <2> SUFFICES ASSUME NEW s \in SUBSET S, NEW x \in s, Cardinality(s) <= 0 PROVE FALSE
    OBVIOUS
  <2>1. /\ Cardinality(s) \in Nat /\ Cardinality(s \ {x}) \in Nat
        /\ Cardinality(s \ {x}) = Cardinality(s) - 1
    BY Smaller
  <2> QED BY <2>1
<1>4. ASSUME NEW n \in Nat, n \in N PROVE n + 1 \in N
  <2> SUFFICES ASSUME NEW s \in SUBSET S, NEW x \in s, Cardinality(s) <= n + 1
               PROVE  F[s] = Bytes(x) + F[s \ {x}]
    OBVIOUS
  <2> DEFINE c == First(s)
  <2>1. c \in s
    BY FirstIn
  <2> HIDE DEF c
  <2>2. F[s] = Bytes(c) + F[s \ {c}]
    BY <1>1 DEF Folded, c
  <2>3. CASE x = c
    BY <2>2, <2>3
  <2>4. CASE x # c
    <3> DEFINE sc == s \ {c}
               sx == s \ {x}
    <3>1. /\ sc \in SUBSET S /\ Cardinality(sc) <= n /\ x \in sc
          /\ sx \in SUBSET S /\ Cardinality(sx) <= n /\ c \in sx
      BY <2>1, <2>4, Smaller
    <3> HIDE DEF sc, sx
    <3>2. F[sc] = Bytes(x) + F[sc \ {x}]
      BY <3>1, <1>4
    <3>3. F[sx] = Bytes(c) + F[sx \ {c}]
      BY <3>1, <1>4
    <3>4. sc \ {x} = sx \ {c} /\ sc \ {x} \in SUBSET S
      BY <3>1 DEF sc, sx
    <3>5. F[sc \ {x}] \in Nat /\ F[sc] \in Nat /\ F[sx] \in Nat /\ Bytes(x) \in Nat /\ Bytes(c) \in Nat
      BY <3>1, <3>4, <1>1, <1>2, <2>1
    <3>6. F[s] = Bytes(c) + F[sc]
      BY <2>2 DEF sc
    <3>7. F[sx \ {c}] = F[sc \ {x}]
      BY <3>4
    <3>8. F[s] = Bytes(x) + F[sx]
      BY <3>2, <3>3, <3>5, <3>6, <3>7
    <3> QED BY <3>8 DEF sx
  <2> QED BY <2>3, <2>4
<1>5. Nat \subseteq N
  <2> HIDE DEF N
  <2> QED BY <1>3, <1>4, Induction
<1>6. \A s \in SUBSET S : Cardinality(s) \in Nat
  BY FS_Subset, FS_CardinalityType
<1>7. ASSUME NEW s \in SUBSET S, NEW x \in s PROVE F[s] = Bytes(x) + F[s \ {x}]
  <2>1. Cardinality(s) \in Nat /\ Cardinality(s) \in N
    BY <1>5, <1>6
  <2> QED BY <2>1
<1> QED BY <1>7 DEF F

(* The sum of the bytes of a set of extents. *)
Total(S) == MapThenSumSet(Bytes, S)

(* The sum is the fold. *)
LEMMA TotalFold ==
    ASSUME NEW S PROVE Total(S) = Fold(S)[S]
BY DEF Total, Fold, Folded, First, MapThenSumSet, MapThenFoldSet

(* The sum over nothing is 0. *)
LEMMA TotalEmpty == Total({}) = 0
<1>1. IsFiniteSet({}) /\ {} \in SUBSET ExtentSet
  BY FS_EmptySet
<1>2. Fold({})[{}] = Folded(Fold({}), {})
  BY <1>1, FoldWorks
<1> QED BY <1>2, TotalFold DEF Folded

(* An element taken away takes its bytes away. *)
LEMMA TotalRemove ==
    ASSUME NEW S \in SUBSET ExtentSet, IsFiniteSet(S), NEW x \in S
    PROVE  Total(S) = Bytes(x) + Total(S \ {x}) /\ Total(S \ {x}) \in Nat
<1> DEFINE U == S \ {x}
<1>1. U \in SUBSET ExtentSet /\ IsFiniteSet(U) /\ U \in SUBSET S
  BY FS_RemoveElement
<1>2. Fold(S)[S] = Bytes(x) + Fold(S)[U]
  BY AnyFirst
<1> HIDE DEF U
<1>3. Fold(S)[U] = Fold(U)[U] /\ Fold(U)[U] \in Nat
  <2>1. \A s \in SUBSET S : Fold(S)[s] = Folded(Fold(S), s)
    BY FoldWorks
  <2>2. \A s \in SUBSET U : Fold(U)[s] = Folded(Fold(U), s)
    BY <1>1, FoldWorks
  <2>3. \A s \in SUBSET U : s \in SUBSET S => Fold(U)[s] = Fold(S)[s]
    BY <1>1, <2>1, <2>2, FoldUnique
  <2> QED BY <1>1, <2>3, FoldWorks
<1>4. Total(S) = Fold(S)[S] /\ Total(U) = Fold(U)[U]
  BY TotalFold
<1> QED BY <1>2, <1>3, <1>4 DEF U

(* An element added adds its bytes. *)
LEMMA TotalAdd ==
    ASSUME NEW S \in SUBSET ExtentSet, IsFiniteSet(S), NEW x \in ExtentSet, x \notin S
    PROVE  Total(S \cup {x}) = Bytes(x) + Total(S) /\ Total(S) \in Nat
<1> DEFINE U == S \cup {x}
<1>1. U \in SUBSET ExtentSet /\ IsFiniteSet(U) /\ x \in U
  BY FS_AddElement
<1>2. U \ {x} = S
  OBVIOUS
<1> HIDE DEF U
<1>3. Total(U) = Bytes(x) + Total(S) /\ Total(S) \in Nat
  BY <1>1, <1>2, TotalRemove
<1> QED BY <1>3 DEF U

Videos(S) == {e \in S : Video(e.type)}

(* stream->len and stream->count are what the backlog holds. *)
Counted == Near => slen = Total(Unread) /\ count = Cardinality(Videos(Unread))

(* Nothing is counted at first. *)
LEMMA CountedInit == Init => Counted
<1> SUFFICES ASSUME Init PROVE slen = Total(Unread) /\ count = Cardinality(Videos(Unread))
  BY DEF Counted
<1>1. Unread = {} /\ slen = 0 /\ count = 0
  BY DEF Init, Unread
<1>2. Videos({}) = {}
  BY DEF Videos
<1> QED BY <1>1, <1>2, TotalEmpty, FS_EmptySet

(* Every step of the ring keeps the counters. *)
LEMMA CountedStep ==
    ASSUME IInv, RingInv, Sequenced, Counted,
           (\E f \in Frame : Writes(f)) \/ Skips \/ (Get /\ Near) \/ Rests
    PROVE  Counted'
<1> SUFFICES ASSUME Near' PROVE slen' = Total(Unread') /\ count' = Cardinality(Videos(Unread'))
  BY DEF Counted, Total, MapThenSumSet, MapThenFoldSet, Bytes, Videos, Video
<1>1. CASE \E f \in Frame : Writes(f)
  <2>1. PICK f \in Frame : Writes(f)
    BY <1>1
  <2>2. PICK n \in ExtentSet : /\ n \notin Unread
                               /\ Unread' = Unread \cup {n}
                               /\ n.type = f.type /\ Bytes(n) = Bytes(f)
    BY <2>1, UnreadPut
  <2>3. Near
    BY <2>1, WriteSpares DEF Writes, RingInv
  <2>4. IsFiniteSet(Unread) /\ Unread \in SUBSET ExtentSet
    BY <2>3 DEF Sequenced, Ranked
  <2>5. slen = Total(Unread) /\ count = Cardinality(Videos(Unread))
    BY <2>3 DEF Counted
  <2>6. slen' = Total(Unread')
    <3>1. slen' = slen + Bytes(f)
      BY <2>1, WriteSpans DEF Writes, RingInv
    <3>2. Total(Unread \cup {n}) = Bytes(n) + Total(Unread) /\ Total(Unread) \in Nat
      BY <2>2, <2>4, TotalAdd
    <3>3. Bytes(n) \in Nat
      BY Sizes DEF ExtentSet, Bytes
    <3> QED BY <3>1, <3>2, <3>3, <2>2, <2>5
  <2>7. count' = Cardinality(Videos(Unread'))
    <3>1. count' = IF Video(f.type) THEN count + 1 ELSE count
      BY <2>1 DEF Writes, Write
    <3>2. IsFiniteSet(Videos(Unread)) /\ n \notin Videos(Unread)
      BY <2>2, <2>4, FS_Subset DEF Videos
    <3>3. Videos(Unread') = IF Video(f.type) THEN Videos(Unread) \cup {n} ELSE Videos(Unread)
      BY <2>2 DEF Videos
    <3>4. Cardinality(Videos(Unread) \cup {n}) = Cardinality(Videos(Unread)) + 1
      BY <3>2, FS_AddElement
    <3> QED BY <3>1, <3>3, <3>4, <2>5
  <2> QED BY <2>6, <2>7
<1>2. CASE Skips
  <2>1. Unread' = {} /\ slen' = 0 /\ count' = 0
    BY <1>2, UnreadSkip DEF Skips, InitReadPos, Resync
  <2>2. Videos({}) = {}
    BY DEF Videos
  <2> QED BY <2>1, <2>2, TotalEmpty, FS_EmptySet
<1>3. CASE Get /\ Near
  <2> DEFINE e == out'
  <2>1. /\ e \in Unread
        /\ Unread' = Unread \ {e}
        /\ count' = IF Video(e.type) THEN count - 1 ELSE count
        /\ slen' = (slen - Bytes(e)) % Word
    BY <1>3, UnreadTake
  <2> HIDE DEF e
  <2>2. IsFiniteSet(Unread) /\ Unread \in SUBSET ExtentSet
    BY <1>3 DEF Sequenced, Ranked
  <2>3. slen = Total(Unread) /\ count = Cardinality(Videos(Unread))
    BY <1>3 DEF Counted
  <2>4. slen' = Total(Unread')
    <3>1. Total(Unread) = Bytes(e) + Total(Unread \ {e}) /\ Total(Unread \ {e}) \in Nat
      BY <2>1, <2>2, TotalRemove
    <3>2. Bytes(e) \in Nat /\ slen \in Nat /\ slen < Word /\ Word \in Nat
      BY <2>1, <2>2, Typed, Sizes DEF ExtentSet, Bytes
    <3>3. slen - Bytes(e) = Total(Unread \ {e}) /\ slen - Bytes(e) \in Nat /\ slen - Bytes(e) < Word
      BY <3>1, <3>2, <2>3
    <3> QED BY <3>3, <2>1, Small
  <2>5. count' = Cardinality(Videos(Unread'))
    <3>1. IsFiniteSet(Videos(Unread))
      BY <2>2, FS_Subset DEF Videos
    <3>2. Videos(Unread') = Videos(Unread) \ {e} /\ (e \in Videos(Unread) <=> Video(e.type))
      BY <2>1 DEF Videos
    <3>3. Cardinality(Videos(Unread) \ {e})
            = IF e \in Videos(Unread) THEN Cardinality(Videos(Unread)) - 1
                                      ELSE Cardinality(Videos(Unread))
      BY <3>1, FS_RemoveElement
    <3> QED BY <3>2, <3>3, <2>1, <2>3
  <2> QED BY <2>4, <2>5
<1>4. CASE Rests
  <2>1. Unread' = Unread /\ slen' = slen /\ count' = count /\ Near
    BY <1>4, UnreadRests DEF Rests, Near
  <2> QED BY <2>1 DEF Counted
<1> QED BY <1>1, <1>2, <1>3, <1>4

(* What the counters say, in the words of the runs. *)
LEMMA CountedShows == Counted /\ Exact => Accounting
BY DEF Counted, Exact, Accounting, Total, Videos

(* Live view: stream->len and stream->count are the bytes and video frames of *)
(* the backlog for as long as the reader is not lapped.                       *)
THEOREM LiveAccounting == LiveSpec /\ []WithinWord => []Accounting
<1>1. LiveInv /\ WithinWord /\ [LiveNext]_vars => LiveInv'
  BY LiveRing
<1>2. LiveInv /\ WithinWord => Exact
  BY LiveExact
<1>3. LiveInv /\ Sequenced /\ Exact /\ Exact' /\ [LiveNext]_vars => Sequenced'
  BY LiveMoves
<1>4. LiveInv /\ Sequenced /\ Exact /\ Counted /\ [LiveNext]_vars => Counted'
  <2> SUFFICES ASSUME LiveInv, Sequenced, Exact, Counted, [LiveNext]_vars PROVE Counted'
    OBVIOUS
  <2>1. \/ \E f \in Frame : Writes(f)
        \/ Skips
        \/ Get
        \/ Rests
    BY LiveKinds DEF Writes
  <2>2. Get => Near
    BY DEF Get, Exact
  <2> QED BY <2>1, <2>2, CountedStep DEF LiveInv
<1> QED BY LiveRingInit, SequencedInit, CountedInit, <1>1, <1>2, <1>3, <1>4, CountedShows, PTL
        DEF LiveSpec

(* Playback: they are always. *)
THEOREM PlaybackAccounting ==
    ASSUME Roomy
    PROVE  PlaybackSpec => []Accounting
<1>1. IInv /\ RingInv /\ Near /\ [PlaybackNext]_vars => IInv' /\ RingInv' /\ Near'
  BY PlaybackNear
<1>2. IInv /\ RingInv /\ Near => Exact
  BY PlaybackExact
<1>3. IInv /\ RingInv /\ Near /\ Sequenced /\ Counted /\ [PlaybackNext]_vars
        => Sequenced' /\ Counted'
  <2> SUFFICES ASSUME IInv, RingInv, Near, Sequenced, Counted, [PlaybackNext]_vars
               PROVE  Sequenced' /\ Counted'
    OBVIOUS
  <2>1. \/ \E f \in Frame : Writes(f)
        \/ Skips
        \/ Get
        \/ Rests
    BY PlaybackKinds DEF Writes
  <2> QED BY <2>1, SequencedStep, CountedStep
<1> QED BY InitHolds, RingInit, SequencedInit, CountedInit, <1>1, <1>2, <1>3, CountedShows, PTL
        DEF PlaybackSpec
=============================================================================
