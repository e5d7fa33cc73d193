------------------------- MODULE PtcXmFrames_proofs -------------------------
(***************************************************************************)
(* Proofs about the reassembly of the XiongMai stream, for every stream of *)
(* frames, every way to cut it into messages, every size of buffer and any *)
(* number of connections.                                                  *)
(***************************************************************************)
EXTENDS PtcXmFrames, TLAPS, FiniteSetTheorems, WellFoundedInduction

-----------------------------------------------------------------------------
(* The frames of the stream.                                               *)

(* Induction over the natural numbers, from the well-foundedness of strict    *)
(* inclusion between finite sets.                                             *)
LEMMA Least ==
    ASSUME NEW Q, Q \subseteq Nat, Q # {}
    PROVE  \E m \in Q : \A n \in Q : m <= n
<1> DEFINE T == {1..n : n \in Q}
<1>1. T # {} /\ T \subseteq FiniteSubsetsOf(Nat)
  <2> SUFFICES ASSUME NEW n \in Q PROVE 1..n \in SUBSET Nat /\ IsFiniteSet(1..n)
    BY DEF FiniteSubsetsOf
  <2> QED BY FS_Interval
<1>2. PICK t \in T : \A s \in T : ~ (<<s, t>> \in StrictSubsetOrdering(Nat))
  <2> HIDE DEF T
  <2> QED BY <1>1, FS_StrictSubsetOrderingWellFounded, WFMin
<1>3. PICK m \in Q : t = 1..m
  OBVIOUS
<1>4. ASSUME NEW n \in Q, n < m PROVE FALSE
  <2>1. 1..n \subseteq 1..m /\ m \in 1..m /\ m \notin 1..n /\ 1..n \subseteq Nat /\ 1..m \subseteq Nat
    BY <1>4
  <2>2. <<1..n, 1..m>> \in StrictSubsetOrdering(Nat)
    BY <2>1 DEF StrictSubsetOrdering
  <2> QED BY <1>2, <1>3, <2>2
<1> QED BY <1>4

(* A set with 0 and every successor of its elements has all natural numbers. *)
LEMMA Induction ==
    ASSUME NEW S, 0 \in S, \A n \in Nat : n \in S => n + 1 \in S
    PROVE  Nat \subseteq S
<1> SUFFICES ASSUME NEW k \in Nat, k \notin S PROVE FALSE
  OBVIOUS
<1> DEFINE Q == {n \in Nat : n \notin S}
<1>1. PICK m \in Q : \A n \in Q : m <= n
  <2> HIDE DEF Q
  <2>1. Q \subseteq Nat /\ Q # {}
    BY DEF Q
  <2> QED BY <2>1, Least
<1>2. m # 0 /\ m - 1 \in Nat
  BY <1>1
<1>3. m - 1 \in S
  BY <1>1, <1>2
<1>4. (m - 1) + 1 = m
  BY <1>1
<1> QED BY <1>1, <1>2, <1>3, <1>4

(* One past the last frame. *)
End == Len(Frames) + 1

(* The constants, and the frames one by one. *)
LEMMA Sizes ==
    /\ HeadLen \in Nat /\ 0 < HeadLen /\ Size \in Nat /\ MsgMax \in Nat
    /\ ConnBound \in Nat /\ 0 < ConnBound
    /\ Len(Frames) \in Nat
    /\ \A f \in Frame : Frames[f].len \in Nat /\ HeadLen <= Frames[f].len
<1> DEFINE T == [type : Media \cup {"PIC", "INFO"}, len : Nat]
<1>1. Frames \in Seq(T) /\ \A e \in T : e.len \in Nat
  BY PtcXmAssumption
<1> HIDE DEF T
<1>2. Len(Frames) \in Nat /\ \A f \in 1..Len(Frames) : Frames[f].len \in Nat
  BY <1>1
<1> QED BY <1>2, PtcXmAssumption DEF Frame

(* h follows the recursive definition of FirstOf up to frame n. *)
Rec(h, f) == IF f = 1 THEN 1 ELSE h[f-1] + Frames[f-1].len

Solves(h, n) == h \in [1..End -> Nat] /\ \A f \in 1..End : f <= n => h[f] = Rec(h, f)

(* The recursive definition has a solution, and FirstOf is it. *)
LEMMA Starts ==
    /\ FirstOf \in [1..End -> Nat]
    /\ FirstOf[1] = 1
    /\ \A f \in Frame : FirstOf[f + 1] = FirstOf[f] + Frames[f].len
<1> DEFINE S == {n \in Nat : \E h : Solves(h, n + 1)}
<1>0. Len(Frames) \in Nat /\ End = Len(Frames) + 1
  BY Sizes DEF End
<1>1. 0 \in S
  <2> DEFINE h == [f \in 1..End |-> 1]
  <2>1. Solves(h, 1)
    BY <1>0 DEF Solves, Rec
  <2> QED BY <2>1
<1>2. ASSUME NEW n \in Nat, n \in S PROVE n + 1 \in S
  <2>1. PICK h : Solves(h, n + 1)
    BY <1>2
  <2>2. h \in [1..End -> Nat] /\ \A f \in 1..End : f <= n + 1 => h[f] = Rec(h, f)
    BY <2>1 DEF Solves
  <2>3. CASE n + 2 \notin 1..End
    <3>1. \A f \in 1..End : f <= n + 2 => f <= n + 1
      BY <1>0, <2>3
    <3>2. Solves(h, n + 2)
      BY <2>2, <3>1 DEF Solves
    <3> QED BY <3>2
  <2>4. CASE n + 2 \in 1..End
    <3> DEFINE v == h[n + 1] + Frames[n + 1].len
               k == [h EXCEPT ![n + 2] = v]
    <3>1. n + 1 \in Frame /\ n + 1 \in 1..End
      BY <1>0, <2>4 DEF Frame
    <3>2. v \in Nat
      BY <3>1, <2>2, Sizes
    <3>3. k \in [1..End -> Nat]
      BY <3>2, <2>2
    <3>4. ASSUME NEW f \in 1..End, f <= n + 2 PROVE k[f] = Rec(k, f)
      <4>1. CASE f = n + 2
        <5>1. k[f] = v /\ k[f - 1] = h[n + 1] /\ f - 1 = n + 1 /\ f # 1
          BY <4>1, <2>2, <2>4, <3>1
        <5> QED BY <5>1 DEF Rec
      <4>2. CASE f # n + 2
        <5>1. f <= n + 1 /\ (f # 1 => f - 1 \in 1..End /\ f - 1 # n + 2)
          BY <4>2, <3>4, <1>0
        <5>2. k[f] = h[f] /\ (f # 1 => k[f - 1] = h[f - 1])
          BY <5>1, <4>2, <2>2
        <5>3. h[f] = Rec(h, f)
          BY <5>1, <2>2
        <5> QED BY <5>2, <5>3 DEF Rec
      <4> QED BY <4>1, <4>2
    <3> HIDE DEF k
    <3>5. Solves(k, n + 2)
      BY <3>3, <3>4 DEF Solves
    <3> QED BY <3>5
  <2> QED BY <2>3, <2>4
<1>3. Len(Frames) \in S
  <2> HIDE DEF S
  <2> QED BY <1>0, <1>1, <1>2, Induction
<1>4. PICK h : Solves(h, End)
  BY <1>0, <1>3
<1>5. h \in [1..End -> Nat] /\ \A f \in 1..End : h[f] = Rec(h, f)
  BY <1>0, <1>4 DEF Solves
<1>6. h = [f \in 1..End |-> Rec(h, f)]
  BY <1>5
<1>7. FirstOf = CHOOSE g : g = [f \in 1..End |-> Rec(g, f)]
  BY DEF FirstOf, End, Rec
<1>8. FirstOf = [f \in 1..End |-> Rec(FirstOf, f)]
  BY <1>6, <1>7
<1>9. \A f \in 1..End : FirstOf[f] = Rec(FirstOf, f)
  BY <1>8
<1>10. FirstOf[1] = 1
  BY <1>9, <1>0 DEF Rec
<1>11. \A f \in Frame : FirstOf[f + 1] = FirstOf[f] + Frames[f].len
  <2> SUFFICES ASSUME NEW f \in Frame PROVE FirstOf[f + 1] = FirstOf[f] + Frames[f].len
    OBVIOUS
  <2>1. f + 1 \in 1..End /\ f + 1 # 1 /\ (f + 1) - 1 = f
    BY <1>0 DEF Frame
  <2>2. FirstOf[f + 1] = Rec(FirstOf, f + 1)
    BY <2>1, <1>9
  <2> QED BY <2>1, <2>2 DEF Rec
<1>12. \A f \in 1..End : FirstOf[f] \in Nat
  <2> DEFINE Q == {n \in Nat : n + 1 \in 1..End => FirstOf[n + 1] \in Nat}
  <2>1. 0 \in Q
    BY <1>10
  <2>2. ASSUME NEW n \in Nat, n \in Q PROVE n + 1 \in Q
    <3> SUFFICES ASSUME (n + 1) + 1 \in 1..End PROVE FirstOf[(n + 1) + 1] \in Nat
      OBVIOUS
    <3>1. n + 1 \in Frame /\ n + 1 \in 1..End
      BY <1>0 DEF Frame
    <3> QED BY <3>1, <2>2, <1>11, Sizes
  <2>3. Nat \subseteq Q
    <3> HIDE DEF Q
    <3> QED BY <2>1, <2>2, Induction
  <2>4. ASSUME NEW f \in 1..End PROVE FirstOf[f] \in Nat
    <3>1. f - 1 \in Nat /\ (f - 1) + 1 = f
      BY <1>0
    <3> QED BY <3>1, <2>3
  <2> QED BY <2>4
<1>13. FirstOf \in [1..End -> Nat]
  <2> DEFINE h2 == [f \in 1..End |-> Rec(FirstOf, f)]
  <2>1. DOMAIN h2 = 1..End /\ h2 = [f \in 1..End |-> h2[f]]
    OBVIOUS
  <2> HIDE DEF h2
  <2>2. FirstOf = h2
    BY <1>8 DEF h2
  <2> QED BY <1>12, <2>1, <2>2
<1> QED BY <1>10, <1>11, <1>13

(* Where frames begin and end, without the recursion. *)
LEMMA Frontiers ==
    /\ End = Len(Frames) + 1 /\ End \in Nat /\ Frame \subseteq 1..End
    /\ \A f \in 1..End : FirstOf[f] \in Nat /\ 0 < FirstOf[f]
    /\ \A f \in Frame : /\ f + 1 \in 1..End
                        /\ FirstOf[f + 1] = FirstOf[f] + Frames[f].len
                        /\ LastOf(f) = FirstOf[f + 1] - 1
                        /\ LastOf(f) \in Nat
    /\ Total = FirstOf[End] - 1
<1>1. Len(Frames) \in Nat /\ End = Len(Frames) + 1
  BY Sizes DEF End
<1>2. \A f \in 1..End : FirstOf[f] \in Nat
  BY Starts
<1>3. \A f \in Frame : f \in 1..End /\ f + 1 \in 1..End
  BY <1>1 DEF Frame
<1>4. \A f \in Frame : LastOf(f) = FirstOf[f + 1] - 1
  BY <1>2, <1>3, Starts, Sizes DEF LastOf
<1>5. \A f \in 1..End : 0 < FirstOf[f]
  <2> SUFFICES ASSUME NEW f \in 1..End PROVE 0 < FirstOf[f]
    OBVIOUS
  <2>1. CASE f = 1
    BY <2>1, Starts
  <2>2. CASE f # 1
    <3>1. f - 1 \in Frame /\ (f - 1) + 1 = f
      BY <2>2, <1>1 DEF Frame
    <3>2. FirstOf[f] = FirstOf[f - 1] + Frames[f - 1].len
      BY <3>1, Starts
    <3>3. FirstOf[f - 1] \in Nat /\ Frames[f - 1].len \in Nat /\ 0 < Frames[f - 1].len
      BY <3>1, <1>2, <1>3, Sizes
    <3> QED BY <3>2, <3>3
  <2> QED BY <2>1, <2>2
<1>6. \A f \in Frame : LastOf(f) \in Nat
  BY <1>2, <1>3, <1>4, <1>5
<1>7. Total = FirstOf[End] - 1
  BY DEF Total, End
<1> QED BY <1>1, <1>2, <1>3, <1>4, <1>5, <1>6, <1>7, Starts

(* A later frame begins behind the last piece of an earlier one. *)
LEMMA Increasing ==
    /\ \A f, g \in 1..End : f <= g => FirstOf[f] <= FirstOf[g]
    /\ \A f \in Frame, g \in 1..End : f < g <=> LastOf(f) < FirstOf[g]
    /\ \A f \in Frame : FirstOf[f] <= LastOf(f)
<1> DEFINE S == {n \in Nat : \A f \in 1..End : f + n \in 1..End => FirstOf[f] <= FirstOf[f + n]}
<1>1. 0 \in S
  BY Frontiers
<1>2. ASSUME NEW n \in Nat, n \in S PROVE n + 1 \in S
  <2> SUFFICES ASSUME NEW f \in 1..End, f + (n + 1) \in 1..End
               PROVE  FirstOf[f] <= FirstOf[f + (n + 1)]
    OBVIOUS
  <2>1. f + n \in Frame /\ f + n \in 1..End /\ (f + n) + 1 = f + (n + 1)
    BY Frontiers, Sizes DEF Frame
  <2>2. FirstOf[f] <= FirstOf[f + n]
    BY <1>2, <2>1
  <2>3. FirstOf[f + (n + 1)] = FirstOf[f + n] + Frames[f + n].len
    BY <2>1, Frontiers
  <2>4. FirstOf[f] \in Nat /\ FirstOf[f + n] \in Nat /\ Frames[f + n].len \in Nat
    BY <2>1, Frontiers, Sizes
  <2> QED BY <2>2, <2>3, <2>4
<1>3. Nat \subseteq S
  <2> HIDE DEF S
  <2> QED BY <1>1, <1>2, Induction
<1>4. ASSUME NEW f \in 1..End, NEW g \in 1..End, f <= g PROVE FirstOf[f] <= FirstOf[g]
  <2>1. g - f \in Nat /\ f + (g - f) = g
    BY <1>4, Frontiers
  <2> QED BY <2>1, <1>3
<1> HIDE DEF S
<1>5. ASSUME NEW f \in Frame PROVE FirstOf[f] <= LastOf(f)
  <2>1. FirstOf[f] \in Nat /\ Frames[f].len \in Nat /\ 0 < Frames[f].len
    BY Frontiers, Sizes
  <2> QED BY <2>1 DEF LastOf
<1>6. ASSUME NEW f \in Frame, NEW g \in 1..End PROVE f < g <=> LastOf(f) < FirstOf[g]
  <2>1. f \in 1..End /\ f + 1 \in 1..End /\ LastOf(f) = FirstOf[f + 1] - 1
        /\ FirstOf[f + 1] \in Nat /\ FirstOf[f] \in Nat /\ FirstOf[g] \in Nat
    BY Frontiers
  <2>2. CASE f < g
    <3>1. f + 1 <= g
      BY <2>2, Frontiers
    <3>2. FirstOf[f + 1] <= FirstOf[g]
      BY <3>1, <2>1, <1>4
    <3> QED BY <2>1, <2>2, <3>2
  <2>3. CASE ~(f < g)
    <3>1. g <= f
      BY <2>3, <2>1, Frontiers
    <3>2. FirstOf[g] <= FirstOf[f]
      BY <3>1, <2>1, <1>4
    <3> QED BY <3>2, <2>1, <2>3, <1>5
  <2> QED BY <2>2, <2>3
<1> QED BY <1>4, <1>5, <1>6

(* A piece of a frame is the head of that frame or of none. *)
LEMMA HeadOf ==
    ASSUME NEW f \in Frame, NEW p \in Nat, FirstOf[f] <= p, p <= LastOf(f)
    PROVE  p \in Heads <=> p = FirstOf[f]
<1>1. ASSUME NEW g \in Frame, FirstOf[g] = p PROVE g = f
  <2>1. f \in 1..End /\ g \in 1..End /\ FirstOf[f] \in Nat /\ FirstOf[g] \in Nat
        /\ FirstOf[g] <= LastOf(g) /\ LastOf(g) \in Nat /\ LastOf(f) \in Nat
    BY Frontiers, Increasing
  <2>2. ~(f < g)
    BY <1>1, <2>1, Increasing
  <2>3. ~(g < f)
    BY <1>1, <2>1, Increasing
  <2> QED BY <2>1, <2>2, <2>3
<1> QED BY <1>1 DEF Heads

(* The frame a head names is the one that begins there. *)
LEMMA Named ==
    ASSUME NEW f \in Frame
    PROVE  /\ FirstOf[f] \in Heads
           /\ (CHOOSE g \in Frame : FirstOf[g] = FirstOf[f]) = f
           /\ TypeAt(FirstOf[f]) = Frames[f].type
<1>1. ASSUME NEW g \in Frame, FirstOf[g] = FirstOf[f] PROVE g = f
  <2>1. f \in 1..End /\ g \in 1..End /\ FirstOf[f] \in Nat
        /\ FirstOf[g] <= LastOf(g) /\ FirstOf[f] <= LastOf(f) /\ LastOf(g) \in Nat /\ LastOf(f) \in Nat
    BY Frontiers, Increasing
  <2>2. ~(f < g) /\ ~(g < f)
    BY <1>1, <2>1, Increasing
  <2> QED BY <2>1, <2>2
<1>2. (CHOOSE g \in Frame : FirstOf[g] = FirstOf[f]) = f
  BY <1>1
<1> QED BY <1>2 DEF Heads, TypeAt

-----------------------------------------------------------------------------
(* The buffer never overflows.                                             *)

Buffer  == [buf : [1..Size -> Nat], len : 0..Size, at : 0..Size, left : 0..Size]
Message == [from : Nat, n : Nat]

(* Both regions of a buffer lie within it. *)
Inside(b) == b \in Buffer /\ b.at + b.left <= Size

IInv ==
    /\ sent \in 0..Total /\ conn \in 1..ConnBound /\ key \in {0, 1}
    /\ begin \in Nat /\ mark \in Nat /\ alive \in BOOLEAN
    /\ Inside(box)
    /\ inbox \in Seq(Message)
    /\ \A j \in 1..Len(inbox) : inbox[j].from + inbox[j].n - 1 <= sent

(* A buffer is its four fields. *)
Made(w, l, a, r) == [buf |-> w, len |-> l, at |-> a, left |-> r]

Loose == [buf : [1..Size -> Nat], len : Int, at : Int, left : Int]

(* A record with the fields of a buffer is made of them.                    *)
LEMMA Remade == ASSUME NEW b \in Loose PROVE b = Made(b.buf, b.len, b.at, b.left)
BY DEF Made, Loose

(* What the model's updates of a buffer make: a frame cut off,              *)
LEMMA EditCut ==
    ASSUME NEW b \in Buffer, NEW a \in Int, NEW r \in Int
    PROVE  [b EXCEPT !.at = a, !.left = r, !.len = 0] = Made(b.buf, 0, a, r)
<1> DEFINE z == 0
<1>0. z \in Int
  OBVIOUS
<1> HIDE DEF z
<1> DEFINE d == [b EXCEPT !.at = a, !.left = r, !.len = z]
<1>1. b \in Loose
  BY DEF Buffer, Loose
<1>2. d \in Loose
  BY <1>0, <1>1 DEF Loose
<1>3. d.buf = b.buf /\ d.len = z /\ d.at = a /\ d.left = r
  BY <1>1 DEF Loose
<1> HIDE DEF d
<1>4. d = Made(b.buf, z, a, r)
  BY <1>2, <1>3, Remade
<1> QED BY <1>4 DEF d, z

(* both regions emptied,                                                    *)
LEMMA EditEmpty ==
    ASSUME NEW b \in Buffer
    PROVE  [b EXCEPT !.left = 0, !.len = 0] = Made(b.buf, 0, b.at, 0)
<1> DEFINE z == 0
<1>0. z \in Int
  OBVIOUS
<1> HIDE DEF z
<1> DEFINE d == [b EXCEPT !.left = z, !.len = z]
<1>1. b \in Loose
  BY DEF Buffer, Loose
<1>2. d \in Loose
  BY <1>0, <1>1 DEF Loose
<1>3. d.buf = b.buf /\ d.len = z /\ d.at = b.at /\ d.left = z
  BY <1>1 DEF Loose
<1> HIDE DEF d
<1>4. d = Made(b.buf, z, b.at, z)
  BY <1>2, <1>3, Remade
<1> QED BY <1>4 DEF d, z

(* the rest at the front,                                                   *)
LEMMA EditFront ==
    ASSUME NEW b \in Buffer, NEW w \in [1..Size -> Nat]
    PROVE  [b EXCEPT !.buf = w, !.len = b.left, !.left = 0] = Made(w, b.left, b.at, 0)
<1> DEFINE z == 0
<1>0. z \in Int
  OBVIOUS
<1> HIDE DEF z
<1> DEFINE d == [b EXCEPT !.buf = w, !.len = b.left, !.left = z]
<1>1. b \in Loose
  BY DEF Buffer, Loose
<1>2. d \in Loose
  BY <1>0, <1>1 DEF Loose
<1>3. d.buf = w /\ d.len = b.left /\ d.at = b.at /\ d.left = z
  BY <1>1 DEF Loose
<1> HIDE DEF d
<1>4. d = Made(w, b.left, b.at, z)
  BY <1>2, <1>3, Remade
<1> QED BY <1>4 DEF d, z

(* a message behind the front,                                              *)
LEMMA EditRecv ==
    ASSUME NEW b \in Buffer, NEW w \in [1..Size -> Nat], NEW l \in Int
    PROVE  [b EXCEPT !.buf = w, !.len = l] = Made(w, l, b.at, b.left)
<1> DEFINE d == [b EXCEPT !.buf = w, !.len = l]
<1>1. b \in Loose
  BY DEF Buffer, Loose
<1>2. d \in Loose
  BY <1>1 DEF Loose
<1>3. d.buf = w /\ d.len = l /\ d.at = b.at /\ d.left = b.left
  BY <1>1 DEF Loose
<1> HIDE DEF d
<1>4. d = Made(w, l, b.at, b.left)
  BY <1>2, <1>3, Remade
<1> QED BY <1>4 DEF d

(* and what no length reaches forgotten.                                    *)
LEMMA EditTrim ==
    ASSUME NEW b \in Buffer, NEW w \in [1..Size -> Nat], NEW a \in Int
    PROVE  [b EXCEPT !.at = a, !.buf = w] = Made(w, b.len, a, b.left)
<1> DEFINE d == [b EXCEPT !.at = a, !.buf = w]
<1>1. b \in Loose
  BY DEF Buffer, Loose
<1>2. d \in Loose
  BY <1>1 DEF Loose
<1>3. d.buf = w /\ d.len = b.len /\ d.at = a /\ d.left = b.left
  BY <1>1 DEF Loose
<1> HIDE DEF d
<1>4. d = Made(w, b.len, a, b.left)
  BY <1>2, <1>3, Remade
<1> QED BY <1>4 DEF d

(* Fields within the bounds make a buffer within its bounds.                *)
LEMMA MadeInside ==
    ASSUME NEW w \in [1..Size -> Nat], NEW l \in 0..Size, NEW a \in 0..Size, NEW r \in 0..Size,
           a + r <= Size
    PROVE  Inside(Made(w, l, a, r))
BY DEF Inside, Buffer, Made

(* The fields a buffer was made of.                                         *)
LEMMA MadeFields ==
    ASSUME NEW w, NEW l, NEW a, NEW r
    PROVE  /\ Made(w, l, a, r).buf = w /\ Made(w, l, a, r).len = l
           /\ Made(w, l, a, r).at = a /\ Made(w, l, a, r).left = r
BY DEF Made

(* The fields of a buffer are numbers and pieces. *)
LEMMA Fields ==
    ASSUME NEW b, Inside(b)
    PROVE  /\ b \in Buffer
           /\ b.buf \in [1..Size -> Nat] /\ b.len \in 0..Size /\ b.at \in 0..Size /\ b.left \in 0..Size
           /\ b.at + b.left <= Size
           /\ b.len \in Nat /\ b.at \in Nat /\ b.left \in Nat
BY Sizes DEF Inside, Buffer

(* The empty buffer.                                                        *)
LEMMA EmptyInside == Inside(Empty) /\ Empty.len = 0 /\ Empty.left = 0
BY Sizes DEF Inside, Buffer, Empty

(* What the head at the front states is a number. *)
LEMMA LengthsTyped ==
    ASSUME NEW b, b.buf[1] \in Heads, NEW n \in Lengths(b)
    PROVE  n \in Nat /\ 0 < n
<1> DEFINE f == CHOOSE g \in Frame : FirstOf[g] = b.buf[1]
<1>1. f \in Frame
  BY DEF Heads
<1> HIDE DEF f
<1>2. n = Frames[f].len \/ n \in HeadLen..(Size + 1)
  BY DEF Lengths, f
<1> QED BY <1>1, <1>2, Sizes

(* What checkBuf leaves: the buffer as it was, the buffer emptied, or a      *)
(* frame of n pieces cut off the front.                                     *)
Cut(b, n) == Made(b.buf, 0, n, b.len - n)

Emptied(b) == Made(b.buf, 0, b.at, 0)

(* checkBuf does one of these.                                              *)
LEMMA CheckCases ==
    ASSUME NEW b \in Buffer, NEW c \in CheckBuf(b)
    PROVE  \/ /\ c = [box |-> b, ret |-> 0]
              /\ b.len < HeadLen \/ (b.buf[1] \in Heads /\ \E n \in Lengths(b) : b.len < n)
           \/ /\ b.len # 0 /\ b.buf[1] \notin Heads
              /\ c = [box |-> Emptied(b), ret |-> 0]
           \/ /\ b.len # 0 /\ b.buf[1] \in Heads /\ ~(b.len < HeadLen)
              /\ \E n \in Lengths(b) :
                    /\ ~(b.len < n)
                    /\ c = [box |-> Cut(b, n), ret |-> IF TypeAt(b.buf[1]) \in Media THEN 1 ELSE 0]
<1>1. CASE b.len = 0
  BY <1>1, Sizes DEF CheckBuf, Nothing
<1>2. CASE b.len # 0 /\ b.buf[1] \notin Heads
  <2>1. [b EXCEPT !.left = 0, !.len = 0] = Emptied(b)
    BY EditEmpty DEF Emptied
  <2> QED BY <1>2, <2>1 DEF CheckBuf, Nothing
<1>3. CASE b.len # 0 /\ b.buf[1] \in Heads /\ b.len < HeadLen
  BY <1>3 DEF CheckBuf, Nothing
<1>4. CASE b.len # 0 /\ b.buf[1] \in Heads /\ ~(b.len < HeadLen)
  <2>0. ASSUME NEW n \in Lengths(b)
        PROVE  [b EXCEPT !.at = n, !.left = b.len - n, !.len = 0] = Cut(b, n)
    <3> DEFINE r == b.len - n
    <3>0. n \in Int /\ r \in Int
      BY <1>4, LengthsTyped DEF Buffer
    <3> HIDE DEF r
    <3>1. [b EXCEPT !.at = n, !.left = r, !.len = 0] = Made(b.buf, 0, n, r)
      BY <3>0, EditCut
    <3> QED BY <3>1 DEF Cut, r
  <2>1. PICK n \in Lengths(b) :
            c \in IF b.len < n THEN Nothing(b)
                  ELSE {[box |-> Cut(b, n), ret |-> IF TypeAt(b.buf[1]) \in Media THEN 1 ELSE 0]}
    BY <1>4, <2>0 DEF CheckBuf
  <2> QED BY <1>4, <2>1 DEF Nothing
<1> QED BY <1>1, <1>2, <1>3, <1>4

(* Nothing checkBuf does reaches outside the buffer,                        *)
LEMMA CheckInside ==
    ASSUME NEW b, Inside(b), NEW c \in CheckBuf(b)
    PROVE  Inside(c.box) /\ c.box.buf = b.buf /\ c.ret \in {0, 1}
<1>1. CASE c = [box |-> b, ret |-> 0]
  BY <1>1
<1>2. CASE c = [box |-> Emptied(b), ret |-> 0]
  <2>1. Inside(Emptied(b)) /\ Emptied(b).buf = b.buf
    BY Fields, MadeInside, MadeFields, Sizes DEF Emptied
  <2> QED BY <1>2, <2>1
<1>3. ASSUME b.buf[1] \in Heads, NEW n \in Lengths(b), ~(b.len < n),
             c = [box |-> Cut(b, n), ret |-> IF TypeAt(b.buf[1]) \in Media THEN 1 ELSE 0]
      PROVE  Inside(c.box) /\ c.box.buf = b.buf /\ c.ret \in {0, 1}
  <2>1. n \in Nat
    BY <1>3, LengthsTyped
  <2>2. n \in 0..Size /\ b.len - n \in 0..Size /\ n + (b.len - n) <= Size /\ 0 \in 0..Size
    BY <2>1, <1>3, Fields, Sizes
  <2>3. Inside(Cut(b, n)) /\ Cut(b, n).buf = b.buf
    <3> DEFINE r == b.len - n
    <3>1. r \in 0..Size /\ n + r <= Size
      BY <2>2
    <3> HIDE DEF r
    <3>2. b.buf \in [1..Size -> Nat]
      BY Fields
    <3>3. Inside(Made(b.buf, 0, n, r))
      BY <2>2, <3>1, <3>2, MadeInside
    <3>4. Made(b.buf, 0, n, r).buf = b.buf
      BY MadeFields
    <3> QED BY <3>3, <3>4 DEF Cut, r
  <2> QED BY <1>3, <2>3
<1> QED BY <1>1, <1>2, <1>3, CheckCases, Fields

(* nor does moving the rest to the front,                                   *)
LEMMA RestoreInside ==
    ASSUME NEW b, Inside(b)
    PROVE  Inside(Restore(b))
<1>1. CASE b.left = 0
  BY <1>1 DEF Restore
<1>2. CASE b.left # 0
  <2> DEFINE w == [i \in DOMAIN b.buf |-> IF i <= b.left THEN b.buf[b.at + i] ELSE b.buf[i]]
  <2>1. w \in [1..Size -> Nat]
    <3> SUFFICES ASSUME NEW i \in 1..Size
                 PROVE  (IF i <= b.left THEN b.buf[b.at + i] ELSE b.buf[i]) \in Nat
      BY Fields
    <3>1. i <= b.left => b.at + i \in 1..Size
      BY Fields, Sizes
    <3> QED BY <3>1, Fields
  <2> HIDE DEF w
  <2>2. Restore(b) = [b EXCEPT !.buf = w, !.len = b.left, !.left = 0]
    BY <1>2 DEF Restore, w
  <2>3. [b EXCEPT !.buf = w, !.len = b.left, !.left = 0] = Made(w, b.left, b.at, 0)
    BY <2>1, EditFront, Fields
  <2>4. Inside(Made(w, b.left, b.at, 0))
    BY <2>1, MadeInside, Fields, Sizes
  <2> QED BY <2>2, <2>3, <2>4
<1> QED BY <1>1, <1>2

(* nor forgetting what no length reaches.                                   *)
LEMMA TrimInside ==
    ASSUME NEW b, Inside(b)
    PROVE  Inside(Trim(b))
<1> DEFINE w == [i \in 1..Size |-> IF i <= b.len \/ (i > b.at /\ i <= b.at + b.left) THEN b.buf[i] ELSE 0]
           a == IF b.left = 0 THEN 0 ELSE b.at
<1>1. w \in [1..Size -> Nat]
  BY Fields
<1>2. a \in 0..Size /\ a + b.left <= Size
  BY Fields, Sizes
<1> HIDE DEF w, a
<1>3. Trim(b) = [b EXCEPT !.at = a, !.buf = w]
  BY DEF Trim, w, a
<1>4. Trim(b) = Made(w, b.len, a, b.left)
  <2>1. a \in Int /\ b \in Buffer
    BY <1>2, Fields
  <2> QED BY <1>1, <1>3, <2>1, EditTrim
<1> QED BY <1>1, <1>2, <1>4, MadeInside, Fields

(* A message that is not too long ends within the buffer. *)
LEMMA RecvInside ==
    ASSUME NEW b, Inside(b), NEW m \in Message, ~TooLong(b, m)
    PROVE  Inside(RecvBuf(b, m))
<1> DEFINE k == IF m.from \in Heads /\ TypeAt(m.from) \in Media THEN 0 ELSE b.len
           w == [i \in DOMAIN b.buf \cup 1..(k + m.n) |->
                    IF i \in (k+1)..(k + m.n) THEN m.from + i - k - 1 ELSE b.buf[i]]
<1>1. m.n \in Nat /\ m.from \in Nat
  BY DEF Message
<1>2. k \in 0..b.len /\ k \in Nat
  BY Fields
<1> HIDE DEF k
<1>3. k + m.n \in 0..Size
  BY <1>1, <1>2, Fields, Sizes DEF TooLong
<1>4. DOMAIN b.buf \cup 1..(k + m.n) = 1..Size
  BY <1>3, Fields, Sizes
<1>5. w \in [1..Size -> Nat]
  <2>1. ASSUME NEW i \in 1..Size
        PROVE  (IF i \in (k+1)..(k + m.n) THEN m.from + i - k - 1 ELSE b.buf[i]) \in Nat
    <3>1. CASE i \in (k+1)..(k + m.n)
      <4>1. m.from + i - k - 1 \in Nat
        BY <3>1, <1>1, <1>2
      <4> QED BY <3>1, <4>1
    <3>2. CASE i \notin (k+1)..(k + m.n)
      BY <3>2, Fields
    <3> QED BY <3>1, <3>2
  <2> QED BY <1>4, <2>1
<1> HIDE DEF w
<1>6. RecvBuf(b, m) = IF m.n = 0 THEN b ELSE [b EXCEPT !.buf = w, !.len = k + m.n]
  BY DEF RecvBuf, w, k
<1>7. [b EXCEPT !.buf = w, !.len = k + m.n] = Made(w, k + m.n, b.at, b.left)
  <2>1. k + m.n \in Int /\ b \in Buffer
    BY <1>1, <1>2, Fields
  <2> DEFINE l == k + m.n
  <2> HIDE DEF l
  <2>2. [b EXCEPT !.buf = w, !.len = l] = Made(w, l, b.at, b.left)
    BY <1>5, <2>1, EditRecv DEF l
  <2> QED BY <2>2 DEF l
<1>8. Inside(Made(w, k + m.n, b.at, b.left))
  BY <1>3, <1>5, MadeInside, Fields
<1> QED BY <1>6, <1>7, <1>8

(* The first message in the socket. *)
LEMMA HeadTyped ==
    ASSUME IInv, inbox # <<>>
    PROVE  /\ Head(inbox) \in Message /\ Head(inbox) = inbox[1]
           /\ 1 \in 1..Len(inbox) /\ Len(inbox) \in Nat
           /\ Tail(inbox) \in Seq(Message) /\ Len(Tail(inbox)) = Len(inbox) - 1
           /\ \A j \in 1..Len(Tail(inbox)) : Tail(inbox)[j] = inbox[j + 1] /\ j + 1 \in 1..Len(inbox)
BY DEF IInv

(* A frame begins within the stream. *)
LEMMA Within ==
    /\ Total \in Nat
    /\ \A f \in 1..End : FirstOf[f] - 1 \in 0..Total /\ FirstOf[f] <= Total + 1
<1>1. End \in 1..End /\ Total = FirstOf[End] - 1 /\ FirstOf[End] \in Nat /\ 0 < FirstOf[End]
  BY Frontiers, Sizes
<1>2. ASSUME NEW f \in 1..End PROVE FirstOf[f] \in Nat /\ 0 < FirstOf[f] /\ FirstOf[f] <= FirstOf[End]
  BY <1>1, Increasing, Frontiers
<1> QED BY <1>1, <1>2

(* What reading a message leaves of the socket and the buffer. *)
LEMMA ReadKeeps ==
    ASSUME IInv, inbox # <<>>, NEW b, Inside(b), ~TooLong(b, Head(inbox)),
           NEW d \in CheckBuf(RecvBuf(b, Head(inbox)))
    PROVE  Inside(d.box) /\ Inside(Trim(d.box)) /\ d.ret \in {0, 1}
<1>1. Head(inbox) \in Message
  BY HeadTyped
<1>2. Inside(RecvBuf(b, Head(inbox)))
  BY <1>1, RecvInside
<1>3. Inside(d.box) /\ d.ret \in {0, 1}
  BY <1>2, CheckInside
<1> QED BY <1>3, TrimInside

(* The buffer is within its bounds at the start,                            *)
LEMMA InitInside == Init => IInv
<1> SUFFICES ASSUME Init PROVE IInv
  OBVIOUS
<1>1. Total \in Nat /\ 0 \in 0..Total
  BY Within
<1>2. sent \in 0..Total /\ begin \in Nat /\ mark \in Nat /\ alive \in BOOLEAN
  BY <1>1 DEF Init
<1>3. conn \in 1..ConnBound
  BY Sizes DEF Init
<1>4. inbox \in Seq(Message) /\ Len(inbox) = 0
  BY DEF Init
<1>5. Inside(box) /\ key \in {0, 1}
  BY EmptyInside DEF Init
<1> QED BY <1>2, <1>3, <1>4, <1>5 DEF IInv

(* after every step,                                                        *)
LEMMA StepInside == IInv /\ [Next]_vars => IInv'
<1> SUFFICES ASSUME IInv, [Next]_vars PROVE IInv'
  OBVIOUS
<1>1. CASE Send
  <2>1. PICK n \in 0..MsgMax : /\ sent + n <= Total
                               /\ inbox' = Append(inbox, [from |-> sent + 1, n |-> n])
                               /\ sent' = sent + n
    BY <1>1 DEF Send
  <2>2. Total \in Nat /\ sent \in 0..Total /\ n \in Nat /\ sent' \in 0..Total
    BY <2>1, Within, Sizes DEF IInv
  <2> DEFINE m == [from |-> sent + 1, n |-> n]
  <2>3. m \in Message /\ m.from + m.n - 1 = sent'
    BY <2>1, <2>2 DEF Message
  <2> HIDE DEF m
  <2>4. inbox' = Append(inbox, m) /\ inbox \in Seq(Message)
    BY <2>1 DEF IInv, m
  <2>5. inbox' \in Seq(Message)
    BY <2>3, <2>4
  <2>6. ASSUME NEW j \in 1..Len(inbox') PROVE inbox'[j].from + inbox'[j].n - 1 <= sent'
    <3>1. Len(inbox') = Len(inbox) + 1 /\ Len(inbox) \in Nat
      BY <2>3, <2>4
    <3>2. CASE j = Len(inbox) + 1
      <4>1. inbox'[j] = m
        BY <2>3, <2>4, <3>2
      <4> QED BY <4>1, <2>2, <2>3
    <3>3. CASE j # Len(inbox) + 1
      <4>1. j \in 1..Len(inbox) /\ inbox'[j] = inbox[j]
        BY <2>3, <2>4, <3>1, <3>3
      <4>2. inbox[j] \in Message /\ inbox[j].from + inbox[j].n - 1 <= sent
        BY <4>1 DEF IInv
      <4>3. inbox[j].from \in Nat /\ inbox[j].n \in Nat
        BY <4>2 DEF Message
      <4> QED BY <4>1, <4>2, <4>3, <2>1, <2>2
    <3> QED BY <3>2, <3>3
  <2> QED BY <1>1, <2>2, <2>5, <2>6 DEF IInv, Send
<1>2. CASE Failed
  <2>1. Inside(box')
    BY <1>2, EmptyInside DEF Failed
  <2> QED BY <1>2, <2>1 DEF IInv, Failed
<1>3. CASE Reconnect
  <2>1. PICK f \in Frame : sent' = FirstOf[f] - 1 /\ begin' = FirstOf[f] /\ mark' = FirstOf[f]
    BY <1>3 DEF Reconnect
  <2>2. f \in 1..End /\ sent' \in 0..Total /\ begin' \in Nat /\ mark' \in Nat
    BY <2>1, Frontiers, Within
  <2>3. conn' \in 1..ConnBound
    BY <1>3, Sizes DEF IInv, Reconnect
  <2>4. inbox' \in Seq(Message) /\ Len(inbox') = 0
    BY <1>3 DEF Reconnect
  <2>5. Inside(box') /\ key' \in {0, 1} /\ alive' \in BOOLEAN
    BY <1>3, EmptyInside DEF Reconnect
  <2> QED BY <2>2, <2>3, <2>4, <2>5 DEF IInv
<1>4. CASE RecvRts
  <2>1. PICK c \in CheckBuf(Restore(box)) :
            \/ /\ c.ret = 1
               /\ Deliver(c)
               /\ UNCHANGED <<sent, inbox, alive, conn, begin, mark, overlaid>>
            \/ c.ret = 0 /\ ReadMessage(c.box)
    BY <1>4 DEF RecvRts
  <2>2. Inside(c.box) /\ Inside(Trim(c.box)) /\ inbox # <<>>
    <3>1. Inside(Restore(box))
      BY RestoreInside DEF IInv
    <3>2. Inside(c.box)
      BY <3>1, CheckInside
    <3> QED BY <3>2, <1>4, TrimInside DEF RecvRts
  <2>3. CASE c.ret = 1 /\ Deliver(c) /\ UNCHANGED <<sent, inbox, alive, conn, begin, mark, overlaid>>
    <3>1. Inside(box') /\ key' \in {0, 1}
      BY <2>2, <2>3 DEF Deliver
    <3> QED BY <2>3, <3>1 DEF IInv
  <2>4. CASE ReadMessage(c.box)
    <3> DEFINE m == Head(inbox)
    <3>1. CASE TooLong(c.box, m) /\ Failed
      BY <1>2, <3>1
    <3>2. CASE ~(TooLong(c.box, m) /\ Failed)
      <4>1. PICK d \in CheckBuf(RecvBuf(c.box, m)) :
                IF d.ret = 1 THEN Deliver(d) ELSE box' = Trim(d.box) /\ UNCHANGED <<key, ring>>
        BY <2>4, <3>2 DEF ReadMessage
      <4>2. ~TooLong(c.box, m) /\ inbox' = Tail(inbox) /\ UNCHANGED <<sent, alive, conn, begin>>
        BY <2>4, <3>2 DEF ReadMessage
      <4>3. mark' = IF m.n > 0 THEN m.from ELSE mark
        BY <2>4, <3>2 DEF ReadMessage
      <4>4. Inside(Trim(d.box))
        BY <2>2, <4>2, ReadKeeps
      <4>5. Inside(box') /\ key' \in {0, 1}
        <5>1. CASE d.ret = 1
          BY <4>1, <4>4, <5>1 DEF Deliver
        <5>2. CASE d.ret # 1
          BY <4>1, <4>4, <5>2 DEF IInv
        <5> QED BY <5>1, <5>2
      <4>6. m \in Message /\ Tail(inbox) \in Seq(Message)
        BY <2>2, HeadTyped
      <4>7. mark' \in Nat
        BY <4>3, <4>6 DEF Message, IInv
      <4>8. \A j \in 1..Len(inbox') : inbox'[j].from + inbox'[j].n - 1 <= sent'
        BY <2>2, <4>2, HeadTyped DEF IInv
      <4> QED BY <4>2, <4>5, <4>6, <4>7, <4>8 DEF IInv
    <3> QED BY <3>1, <3>2
  <2> QED BY <2>1, <2>3, <2>4
<1>5. CASE UNCHANGED vars
  BY <1>5 DEF IInv, vars
<1> QED BY <1>1, <1>2, <1>3, <1>4, <1>5 DEF Next, Break

(* and always.                                                              *)
LEMMA AlwaysInside == Spec => []IInv
<1>1. Init => IInv
  BY InitInside
<1>2. IInv /\ [Next]_vars => IInv'
  BY StepInside
<1> QED BY <1>1, <1>2, PTL DEF Spec

(* No message and no restored rest reaches past the end of the receive       *)
(* buffer, because tool_ptc_xm_recvBuf counts what the buffer holds before   *)
(* it takes a message.                                                       *)
THEOREM BufferSafety == Spec => []BufferOK
<1>1. IInv => BufferOK
  <2> SUFFICES ASSUME IInv PROVE BufferOK
    OBVIOUS
  <2>1. box.len \in 0..Size /\ box.left \in 0..Size /\ box.at + box.left <= Size
    BY Fields DEF IInv
  <2>2. \A m \in ToSet(inbox) : m.from + m.n - 1 <= sent
    BY DEF IInv, ToSet
  <2> QED BY <2>1, <2>2 DEF IInv, BufferOK
<1> QED BY <1>1, AlwaysInside, PTL

-----------------------------------------------------------------------------
(* Sets of frames in the order of the stream.                              *)

(* How many frames of S come up to f. *)
Rank(S, f) == Cardinality({g \in S : g <= f})

(* The i-th frame of S. *)
Nth(S, i) == CHOOSE f \in S : Rank(S, f) = i

(* A set of frames in order is a sequence of as many.                       *)
LEMMA OrderShape ==
    ASSUME NEW S \in SUBSET Frame
    PROVE  /\ IsFiniteSet(S) /\ Cardinality(S) \in Nat
           /\ InOrder(S) \in Seq({Pieces(Nth(S, i)) : i \in 1..Cardinality(S)})
           /\ Len(InOrder(S)) = Cardinality(S)
           /\ \A i \in 1..Cardinality(S) : InOrder(S)[i] = Pieces(Nth(S, i))
<1>1. IsFiniteSet(Frame)
  BY Sizes, FS_Interval DEF Frame
<1>2. IsFiniteSet(S) /\ Cardinality(S) \in Nat
  BY <1>1, FS_Subset, FS_CardinalityType
<1>3. InOrder(S) = [i \in 1..Cardinality(S) |-> Pieces(Nth(S, i))]
  BY DEF InOrder, Nth, Rank
<1> QED BY <1>2, <1>3

(* Behind the frames of S, further ones do not change the order of S. *)
LEMMA OrderGrows ==
    ASSUME NEW T \in SUBSET Frame, NEW S \in SUBSET T,
           \A s \in S : \A t \in T \ S : s < t
    PROVE  /\ Cardinality(S) <= Cardinality(T)
           /\ \A i \in 1..Cardinality(S) : Nth(T, i) = Nth(S, i)
<1>1. /\ IsFiniteSet(S) /\ Cardinality(S) \in Nat
      /\ IsFiniteSet(T) /\ Cardinality(T) \in Nat
      /\ Cardinality(S) <= Cardinality(T)
  BY OrderShape, FS_Subset
<1>2. \A f \in S : Rank(T, f) = Rank(S, f)
  <2> SUFFICES ASSUME NEW f \in S PROVE {g \in T : g <= f} = {g \in S : g <= f}
    BY DEF Rank
  <2>1. \A g \in T : g <= f => g \in S
    <3> SUFFICES ASSUME NEW g \in T, g <= f, g \notin S PROVE FALSE
      OBVIOUS
    <3>1. f < g /\ f \in Int /\ g \in Int
      BY DEF Frame
    <3> QED BY <3>1
  <2> QED BY <2>1
<1>3. ASSUME NEW t \in T \ S PROVE Cardinality(S) < Rank(T, t)
  <2> DEFINE B == {g \in T : g <= t}
  <2>1. S \cup {t} \subseteq B
    <3>1. \A s \in S \cup {t} : s \in Int /\ s <= t /\ s \in T
      BY DEF Frame
    <3> QED BY <3>1
  <2>2. IsFiniteSet(B)
    BY <1>1, FS_Subset
  <2>3. Cardinality(S \cup {t}) = Cardinality(S) + 1
    BY <1>1, FS_AddElement
  <2>4. Cardinality(S \cup {t}) <= Cardinality(B) /\ Cardinality(B) \in Nat
    BY <2>1, <2>2, FS_Subset, FS_CardinalityType
  <2> QED BY <1>1, <2>3, <2>4 DEF Rank
<1>4. ASSUME NEW i \in 1..Cardinality(S) PROVE Nth(T, i) = Nth(S, i)
  <2>1. \A f : (f \in T /\ Rank(T, f) = i) <=> (f \in S /\ Rank(S, f) = i)
    <3>1. ASSUME NEW f \in T \ S PROVE Rank(T, f) # i
      <4>1. Cardinality(S) < Rank(T, f) /\ Rank(T, f) \in Nat
        <5>1. IsFiniteSet({g \in T : g <= f})
          BY <1>1, FS_Subset
        <5> QED BY <1>3, <5>1, FS_CardinalityType DEF Rank
      <4> QED BY <4>1, <1>1
    <3> QED BY <1>2, <3>1
  <2> QED BY <2>1, Zenon DEF Nth
<1> QED BY <1>1, <1>4

(* A set of frames in order begins with those that come first.              *)
LEMMA OrderPrefix ==
    ASSUME NEW T \in SUBSET Frame, NEW S \in SUBSET T,
           \A s \in S : \A t \in T \ S : s < t
    PROVE  IsPrefix(InOrder(S), InOrder(T))
<1> DEFINE n == Cardinality(S)
           s == InOrder(S)
           t == InOrder(T)
<1>1. n <= Cardinality(T) /\ \A i \in 1..n : Nth(T, i) = Nth(S, i)
  BY OrderGrows
<1>2. /\ n \in Nat /\ Cardinality(T) \in Nat
      /\ Len(s) = n /\ Len(t) = Cardinality(T)
      /\ \A i \in 1..n : s[i] = Pieces(Nth(S, i))
      /\ \A i \in 1..Cardinality(T) : t[i] = Pieces(Nth(T, i))
  BY OrderShape
<1>3. \A i \in 1..n : i \in 1..Cardinality(T) /\ s[i] = t[i]
  BY <1>1, <1>2
<1> HIDE DEF s, t, n
<1>4. SubSeq(s, 1, Len(s)) = SubSeq(t, 1, Len(s))
  BY <1>2, <1>3
<1> QED BY <1>1, <1>2, <1>4 DEF IsPrefix, s, t

(* A frame behind all of S is the last in order. *)
LEMMA OrderPut ==
    ASSUME NEW S \in SUBSET Frame, NEW f \in Frame, \A s \in S : s < f
    PROVE  InOrder(S \cup {f}) = Append(InOrder(S), Pieces(f))
<1> DEFINE T == S \cup {f}
           n == Cardinality(S)
<1>1. f \notin S /\ T \in SUBSET Frame /\ S \in SUBSET T
  BY DEF Frame
<1>2. IsFiniteSet(S) /\ n \in Nat
  BY OrderShape
<1>3. IsFiniteSet(T) /\ Cardinality(T) = n + 1
  BY <1>1, <1>2, FS_AddElement
<1>4. \A i \in 1..n : Nth(T, i) = Nth(S, i)
  BY <1>1, OrderGrows
<1>5. Nth(T, n + 1) = f
  <2>1. Rank(T, f) = n + 1
    <3>1. \A g \in T : g \in Int /\ f \in Int /\ g <= f
      BY DEF Frame
    <3>2. {g \in T : g <= f} = T
      BY <3>1
    <3> QED BY <1>3, <3>2 DEF Rank
  <2>2. ASSUME NEW g \in S PROVE Rank(T, g) <= n /\ Rank(T, g) \in Nat
    <3>1. {h \in T : h <= g} \in SUBSET S
      BY DEF Frame
    <3> QED BY <1>2, <3>1, FS_Subset, FS_CardinalityType DEF Rank
  <2>3. \A g \in T : Rank(T, g) = n + 1 <=> g = f
    <3>1. \A g \in T : g = f \/ g \in S
      OBVIOUS
    <3> HIDE DEF T, n
    <3> QED BY <1>1, <1>2, <2>1, <2>2, <3>1
  <2>4. f \in T
    OBVIOUS
  <2> HIDE DEF T, n
  <2> QED BY <2>3, <2>4 DEF Nth
<1> HIDE DEF T
<1> DEFINE u == InOrder(T)
           s == InOrder(S)
<1>6. /\ Len(u) = n + 1 /\ u \in Seq({Pieces(Nth(T, i)) : i \in 1..Cardinality(T)})
      /\ \A i \in 1..(n + 1) : u[i] = Pieces(Nth(T, i))
  BY <1>1, <1>3, OrderShape
<1>7. /\ Len(s) = n /\ s \in Seq({Pieces(Nth(S, i)) : i \in 1..n})
      /\ \A i \in 1..n : s[i] = Pieces(Nth(S, i))
  BY OrderShape
<1> HIDE DEF u, s, n
<1>8. \A i \in 1..(n + 1) : u[i] = Append(s, Pieces(f))[i]
  <2> SUFFICES ASSUME NEW i \in 1..(n + 1) PROVE u[i] = Append(s, Pieces(f))[i]
    OBVIOUS
  <2>1. CASE i = n + 1
    BY <2>1, <1>2, <1>5, <1>6, <1>7
  <2>2. CASE i # n + 1
    <3>1. i \in 1..n
      BY <2>2, <1>2
    <3> QED BY <3>1, <1>2, <1>4, <1>6, <1>7
  <2> QED BY <2>1, <2>2
<1>9. u = Append(s, Pieces(f))
  BY <1>2, <1>6, <1>7, <1>8
<1> QED BY <1>9 DEF u, s, T

-----------------------------------------------------------------------------
(* What is due of a connection that began with piece b, by frames.         *)

Got(b, p) == {f \in Frame : b <= FirstOf[f] /\ LastOf(f) < p}

Ok(b, p) == {f \in Got(b, p) :
                /\ Frames[f].type \in Media
                /\ \E i \in Got(b, p) : Frames[i].type = "VI" /\ i <= f}

DueFrom(b, p) == InOrder(Ok(b, p))

(* Due is what is due from the connection's first piece on.                 *)
LEMMA DueIs ==
    ASSUME begin \in Nat
    PROVE  \A p : Due(p) = DueFrom(begin, p)
<1> SUFFICES ASSUME NEW p PROVE Due(p) = DueFrom(begin, p)
  OBVIOUS
<1> DEFINE got == {f \in Frame : FirstOf[f] >= begin /\ LastOf(f) < p}
           is  == {f \in got : Frames[f].type = "VI"}
           ok  == {f \in got : Frames[f].type \in Media /\ \E i \in is : i <= f}
<1>1. Due(p) = InOrder(ok)
  BY DEF Due
<1>2. \A f \in Frame : FirstOf[f] \in Nat
  BY Frontiers
<1>3. got = Got(begin, p)
  BY <1>2 DEF Got
<1> HIDE DEF got
<1>4. ok = Ok(begin, p)
  BY <1>3 DEF Ok
<1> QED BY <1>1, <1>4 DEF DueFrom

(* What is due is of frames.                                                *)
LEMMA OkFrames == ASSUME NEW b, NEW p PROVE Ok(b, p) \in SUBSET Frame
BY DEF Ok, Got

(* Frames end in their order. *)
LEMMA Ends ==
    ASSUME NEW f \in Frame, NEW g \in Frame, f <= g
    PROVE  LastOf(f) <= LastOf(g)
<1>1. f + 1 \in 1..End /\ g + 1 \in 1..End /\ f + 1 <= g + 1
  BY Frontiers DEF Frame
<1>2. FirstOf[f + 1] <= FirstOf[g + 1]
  BY <1>1, Increasing
<1>3. FirstOf[f + 1] \in Nat /\ FirstOf[g + 1] \in Nat
      /\ LastOf(f) = FirstOf[f + 1] - 1 /\ LastOf(g) = FirstOf[g + 1] - 1
  BY <1>1, Frontiers
<1> QED BY <1>2, <1>3

(* What is due by some piece is where what is due by a later one begins. *)
LEMMA DuePrefix ==
    ASSUME NEW b, NEW p \in Int, NEW q \in Int, p <= q
    PROVE  IsPrefix(DueFrom(b, p), DueFrom(b, q))
<1>0. \A f \in Frame : LastOf(f) \in Nat /\ f \in Int
  BY Frontiers DEF Frame
<1>1. Got(b, p) \subseteq Got(b, q)
  BY <1>0 DEF Got
<1>2. Ok(b, p) \in SUBSET Ok(b, q)
  BY <1>1 DEF Ok
<1>3. ASSUME NEW s \in Ok(b, p), NEW t \in Ok(b, q) \ Ok(b, p) PROVE s < t
  <2> SUFFICES ASSUME t <= s PROVE FALSE
    BY <1>0, OkFrames
  <2>1. s \in Frame /\ LastOf(s) < p /\ t \in Got(b, q) /\ t \in Frame
    BY DEF Ok, Got
  <2>2. \A i \in Frame : i <= t => LastOf(i) < p
    <3> SUFFICES ASSUME NEW i \in Frame, i <= t PROVE LastOf(i) < p
      OBVIOUS
    <3>1. i <= s
      BY <1>0, <2>1
    <3>2. LastOf(i) <= LastOf(s)
      BY <3>1, <2>1, Ends
    <3> QED BY <3>2, <2>1, <1>0
  <2>3. \A i \in Got(b, q) : i <= t => i \in Got(b, p)
    BY <2>2 DEF Got
  <2>4. t \in Got(b, p)
    BY <2>1, <2>3, <1>0
  <2>5. t \in Ok(b, p)
    BY <2>3, <2>4 DEF Ok
  <2> QED BY <2>5
<1>4. IsPrefix(InOrder(Ok(b, p)), InOrder(Ok(b, q)))
  BY <1>2, <1>3, OkFrames, OrderPrefix
<1> QED BY <1>4 DEF DueFrom

(* What is due where a frame begins: the frames before it. *)
LEMMA GotAt ==
    ASSUME NEW b, NEW f \in 1..End
    PROVE  Got(b, FirstOf[f]) = {g \in Frame : b <= FirstOf[g] /\ g < f}
<1>1. \A g \in Frame : LastOf(g) < FirstOf[f] <=> g < f
  BY Increasing
<1> QED BY <1>1 DEF Got

(* The connection has got no frame where it begins. *)
LEMMA DueStart ==
    ASSUME NEW f \in 1..End
    PROVE  DueFrom(FirstOf[f], FirstOf[f]) = <<>>
<1>1. ASSUME NEW g \in Got(FirstOf[f], FirstOf[f]) PROVE FALSE
  <2>1. g \in Frame /\ FirstOf[f] <= FirstOf[g] /\ LastOf(g) < FirstOf[f]
    BY DEF Got
  <2>2. FirstOf[g] <= LastOf(g) /\ FirstOf[g] \in Nat /\ LastOf(g) \in Nat /\ FirstOf[f] \in Nat
    BY <2>1, Frontiers, Increasing
  <2> QED BY <2>1, <2>2
<1>2. Ok(FirstOf[f], FirstOf[f]) = {}
  BY <1>1 DEF Ok
<1>3. Cardinality({}) = 0
  BY FS_EmptySet
<1>4. InOrder({}) \in Seq({Pieces(Nth({}, i)) : i \in 1..Cardinality({})}) /\ Len(InOrder({})) = 0
  BY <1>3, OrderShape
<1>5. InOrder({}) = <<>>
  BY <1>4
<1> QED BY <1>2, <1>5 DEF DueFrom

(* The connection has had an I frame before frame f. *)
Started(b, f) == \E g \in Frame : b <= FirstOf[g] /\ g < f /\ Frames[g].type = "VI"

(* One frame more. *)
LEMMA DueStep ==
    ASSUME NEW b, NEW f \in Frame, b <= FirstOf[f]
    PROVE  DueFrom(b, FirstOf[f + 1]) =
               IF Frames[f].type \in Media /\ Started(b, f + 1)
               THEN Append(DueFrom(b, FirstOf[f]), Pieces(f))
               ELSE DueFrom(b, FirstOf[f])
<1> DEFINE G == Got(b, FirstOf[f])
           H == Got(b, FirstOf[f + 1])
           S == Ok(b, FirstOf[f])
           T == Ok(b, FirstOf[f + 1])
<1>1. f \in 1..End /\ f + 1 \in 1..End /\ f \in Int /\ \A g \in Frame : g \in Int
  BY Frontiers DEF Frame
<1>2. G = {g \in Frame : b <= FirstOf[g] /\ g < f}
  BY <1>1, GotAt
<1>3. H = {g \in Frame : b <= FirstOf[g] /\ g < f + 1}
  BY <1>1, GotAt
<1>4. S = {g \in G : Frames[g].type \in Media /\ \E i \in G : Frames[i].type = "VI" /\ i <= g}
  BY DEF Ok
<1>5. T = {g \in H : Frames[g].type \in Media /\ \E i \in H : Frames[i].type = "VI" /\ i <= g}
  BY DEF Ok
<1> HIDE DEF G, H, S, T
<1>6. H = G \cup {f} /\ G \in SUBSET Frame /\ \A g \in G : g < f /\ g \in Int
  <2>1. \A g \in Frame : g < f + 1 <=> (g < f \/ g = f)
    BY <1>1
  <2>2. f \in H
    BY <1>1, <1>3
  <2> QED BY <1>1, <1>2, <1>3, <2>1, <2>2
<1>7. \A g \in G : g \in T <=> g \in S
  <2>1. \A g \in G : \A i \in H : i <= g => i \in G
    BY <1>1, <1>6
  <2> QED BY <2>1, <1>4, <1>5, <1>6
<1>8. f \in T <=> Frames[f].type \in Media /\ Started(b, f + 1)
  <2>1. Started(b, f + 1) <=> \E i \in H : Frames[i].type = "VI" /\ i <= f
    <3>1. \A i \in H : i <= f
      BY <1>1, <1>6
    <3> QED BY <3>1, <1>3 DEF Started
  <2>2. f \in H
    BY <1>6
  <2> QED BY <2>1, <2>2, <1>5
<1>9. S \subseteq G /\ T \subseteq G \cup {f} /\ f \notin G
  BY <1>1, <1>4, <1>5, <1>6
<1>10. CASE f \in T
  <2>1. T = S \cup {f}
    BY <1>7, <1>9, <1>10
  <2>2. S \in SUBSET Frame /\ \A s \in S : s < f
    BY <1>6, <1>9
  <2>3. InOrder(T) = Append(InOrder(S), Pieces(f))
    BY <2>1, <2>2, OrderPut
  <2> QED BY <2>3, <1>8, <1>10 DEF DueFrom, S, T
<1>11. CASE f \notin T
  <2>1. T = S
    BY <1>7, <1>9, <1>11
  <2> QED BY <2>1, <1>8, <1>11 DEF DueFrom, S, T
<1> QED BY <1>10, <1>11

-----------------------------------------------------------------------------
(* The buffer as a place in the stream.                                    *)

(* Buffer b holds the pieces of the stream from q on, in one of its regions. *)
Holds(b, q) ==
    /\ b.len = 0 \/ b.left = 0
    /\ \A i \in 1..b.len : b.buf[i] = q + i - 1
    /\ \A i \in 1..b.left : b.buf[b.at + i] = q + i - 1

(* The front of b is no whole frame f yet. *)
Short(b, f) == b.len > 0 => f \in Frame /\ b.len < Frames[f].len

(* Moving the rest to the front moves the place of nothing in the stream,   *)
LEMMA RestoreHolds ==
    ASSUME NEW b, Inside(b), NEW q, Holds(b, q)
    PROVE  /\ Holds(Restore(b), q)
           /\ Restore(b).left = 0 /\ Restore(b).len = b.len + b.left
<1>1. CASE b.left = 0
  BY <1>1, Fields DEF Restore
<1>2. CASE b.left # 0
  <2> DEFINE w == [i \in DOMAIN b.buf |-> IF i <= b.left THEN b.buf[b.at + i] ELSE b.buf[i]]
  <2>0. b.len = 0 /\ b \in Buffer /\ b.left \in 0..Size /\ DOMAIN b.buf = 1..Size
    BY <1>2, Fields DEF Holds
  <2>1. \A i \in 1..b.left : w[i] = q + i - 1
    <3>1. \A i \in 1..b.left : i \in 1..Size
      BY <2>0, Sizes
    <3> QED BY <2>0, <3>1 DEF Holds
  <2>2. w \in [1..Size -> Nat]
    <3> SUFFICES ASSUME NEW i \in 1..Size
                 PROVE  (IF i <= b.left THEN b.buf[b.at + i] ELSE b.buf[i]) \in Nat
      BY <2>0
    <3>1. i <= b.left => b.at + i \in 1..Size
      BY Fields, Sizes
    <3> QED BY <3>1, Fields
  <2> HIDE DEF w
  <2>3. Restore(b) = [b EXCEPT !.buf = w, !.len = b.left, !.left = 0]
    BY <1>2 DEF Restore, w
  <2>4. [b EXCEPT !.buf = w, !.len = b.left, !.left = 0] = Made(w, b.left, b.at, 0)
    BY <2>0, <2>2, EditFront
  <2>5. Restore(b).buf = w /\ Restore(b).len = b.left /\ Restore(b).left = 0
    BY <2>3, <2>4, MadeFields
  <2>6. b.len + b.left = b.left
    BY <2>0
  <2> QED BY <2>1, <2>5, <2>6 DEF Holds
<1> QED BY <1>1, <1>2

(* nor does forgetting what no length reaches.                              *)
LEMMA TrimHolds ==
    ASSUME NEW b, Inside(b)
    PROVE  /\ Trim(b).len = b.len /\ Trim(b).left = b.left
           /\ \A q : Holds(b, q) => Holds(Trim(b), q)
<1> DEFINE w == [i \in 1..Size |-> IF i <= b.len \/ (i > b.at /\ i <= b.at + b.left) THEN b.buf[i] ELSE 0]
           a == IF b.left = 0 THEN 0 ELSE b.at
<1>0. b \in Buffer /\ b.len \in 0..Size /\ b.at \in 0..Size /\ b.left \in 0..Size /\ b.at + b.left <= Size
  BY Fields
<1>1. w \in [1..Size -> Nat] /\ a \in Int
  <2>1. w \in [1..Size -> Nat]
    BY Fields
  <2>2. a \in Int
    BY <1>0
  <2> QED BY <2>1, <2>2
<1>2. \A i \in 1..b.len : w[i] = b.buf[i]
  BY <1>0, Sizes
<1>3. \A i \in 1..b.left : w[b.at + i] = b.buf[b.at + i] /\ a = b.at
  <2> SUFFICES ASSUME NEW i \in 1..b.left PROVE w[b.at + i] = b.buf[b.at + i] /\ a = b.at
    OBVIOUS
  <2>1. b.left # 0 /\ b.at + i \in 1..Size /\ b.at + i > b.at /\ b.at + i <= b.at + b.left
    BY <1>0, Sizes
  <2> QED BY <2>1
<1> HIDE DEF w, a
<1>4. Trim(b) = [b EXCEPT !.at = a, !.buf = w]
  BY DEF Trim, w, a
<1>5. Trim(b) = Made(w, b.len, a, b.left)
  BY <1>0, <1>1, <1>4, EditTrim
<1>6. Trim(b).buf = w /\ Trim(b).len = b.len /\ Trim(b).at = a /\ Trim(b).left = b.left
  BY <1>5, MadeFields
<1>7. ASSUME NEW q, Holds(b, q) PROVE Holds(Trim(b), q)
  BY <1>2, <1>3, <1>6, <1>7 DEF Holds
<1> QED BY <1>6, <1>7

(* A message that goes on where the buffer ends, onto an empty left region. *)
LEMMA RecvHolds ==
    ASSUME NEW b, Inside(b), NEW f \in 1..End, Holds(b, FirstOf[f]), Short(b, f), b.left = 0,
           NEW m \in Message, ~TooLong(b, m), m.n # 0, m.from = FirstOf[f] + b.len
    PROVE  /\ Holds(RecvBuf(b, m), FirstOf[f])
           /\ RecvBuf(b, m).len = b.len + m.n /\ RecvBuf(b, m).left = 0
<1> DEFINE k == IF m.from \in Heads /\ TypeAt(m.from) \in Media THEN 0 ELSE b.len
           q == FirstOf[f]
<1>0. /\ m.n \in Nat /\ m.from \in Nat /\ q \in Nat
      /\ b \in Buffer /\ b.buf \in [1..Size -> Nat] /\ b.len \in Nat
  BY Fields, Frontiers DEF Message
<1>1. k = b.len
  <2>1. CASE b.len = 0
    BY <2>1
  <2>2. CASE b.len # 0
    <3>1. f \in Frame /\ b.len < Frames[f].len /\ Frames[f].len \in Nat
      BY <1>0, <2>2, Sizes DEF Short
    <3>2. FirstOf[f] <= m.from /\ m.from <= LastOf(f) /\ m.from # FirstOf[f]
      BY <1>0, <2>2, <3>1 DEF LastOf
    <3>3. m.from \notin Heads
      BY <1>0, <3>1, <3>2, HeadOf
    <3> QED BY <3>3
  <2> QED BY <2>1, <2>2
<1> HIDE DEF k, q
<1> DEFINE w == [i \in DOMAIN b.buf \cup 1..(k + m.n) |->
                    IF i \in (k+1)..(k + m.n) THEN m.from + i - k - 1 ELSE b.buf[i]]
<1>2. k + m.n \in 0..Size
  BY <1>0, <1>1, Sizes DEF TooLong
<1>3. DOMAIN b.buf \cup 1..(k + m.n) = 1..Size
  BY <1>0, <1>2, Sizes
<1>4. \A i \in 1..(b.len + m.n) : w[i] = q + i - 1
  <2> SUFFICES ASSUME NEW i \in 1..(b.len + m.n) PROVE w[i] = q + i - 1
    OBVIOUS
  <2>0. i \in 1..Size
    BY <1>0, <1>1, <1>2, Sizes
  <2>1. CASE i \in (k+1)..(k + m.n)
    <3>1. w[i] = m.from + i - k - 1
      BY <1>3, <2>0, <2>1
    <3> QED BY <1>0, <1>1, <3>1 DEF q
  <2>2. CASE i \notin (k+1)..(k + m.n)
    <3>1. w[i] = b.buf[i]
      BY <1>3, <2>0, <2>2
    <3>2. i \in 1..b.len
      BY <1>0, <1>1, <2>2
    <3> QED BY <3>1, <3>2 DEF q, Holds
  <2> QED BY <2>1, <2>2
<1>5. w \in [1..Size -> Nat]
  <2>1. ASSUME NEW i \in 1..Size
        PROVE  (IF i \in (k+1)..(k + m.n) THEN m.from + i - k - 1 ELSE b.buf[i]) \in Nat
    <3>1. CASE i \in (k+1)..(k + m.n)
      <4>1. m.from + i - k - 1 \in Nat
        BY <3>1, <1>0, <1>1
      <4> QED BY <3>1, <4>1
    <3>2. CASE i \notin (k+1)..(k + m.n)
      BY <3>2, <1>0
    <3> QED BY <3>1, <3>2
  <2> QED BY <1>3, <2>1
<1> HIDE DEF w
<1>6. RecvBuf(b, m) = [b EXCEPT !.buf = w, !.len = k + m.n]
  BY DEF RecvBuf, w, k
<1>7. RecvBuf(b, m) = Made(w, k + m.n, b.at, b.left)
  <2> DEFINE l == k + m.n
  <2>1. l \in Int
    BY <1>2
  <2> HIDE DEF l
  <2>2. [b EXCEPT !.buf = w, !.len = l] = Made(w, l, b.at, b.left)
    BY <1>0, <1>5, <2>1, EditRecv
  <2> QED BY <1>6, <2>2 DEF l
<1>8. /\ RecvBuf(b, m).buf = w /\ RecvBuf(b, m).len = b.len + m.n /\ RecvBuf(b, m).left = 0
  BY <1>1, <1>7, MadeFields
<1> QED BY <1>4, <1>8 DEF Holds, q

(* What the head at the front states, when it is whole. *)
LEMMA HeadStates ==
    ASSUME NEW b, Inside(b), NEW f \in Frame, Holds(b, FirstOf[f]), HeadLen <= b.len
    PROVE  Lengths(b) = {Frames[f].len}
<1> DEFINE s == b.buf
           t == Pieces(f)
<1>0. /\ b.len \in 0..Size /\ HeadLen \in Nat /\ 0 < HeadLen /\ Size \in Nat
      /\ s \in [1..Size -> Nat] /\ Frames[f].len \in Nat /\ HeadLen <= Frames[f].len
      /\ FirstOf[f] \in Nat
  BY Fields, Sizes, Frontiers
<1>1. s \in Seq(Nat) /\ Len(s) = Size
  BY <1>0
<1>2. t \in [1..Frames[f].len -> Int]
  BY <1>0 DEF Pieces
<1>3. t \in Seq(Int) /\ Len(t) = Frames[f].len
  BY <1>0, <1>2
<1>4. \A i \in 1..HeadLen : s[i] = t[i]
  <2> SUFFICES ASSUME NEW i \in 1..HeadLen PROVE s[i] = t[i]
    OBVIOUS
  <2>1. i \in 1..b.len /\ i \in 1..Frames[f].len
    BY <1>0
  <2> QED BY <2>1 DEF Holds, Pieces
<1>5. s[1] = FirstOf[f]
  <2>1. 1 \in 1..b.len /\ FirstOf[f] + 1 - 1 = FirstOf[f]
    BY <1>0
  <2> QED BY <2>1 DEF Holds
<1> HIDE DEF s, t
<1>6. SubSeq(s, 1, HeadLen) = SubSeq(t, 1, HeadLen)
  BY <1>0, <1>1, <1>3, <1>4
<1>7. (CHOOSE g \in Frame : FirstOf[g] = b.buf[1]) = f
  BY <1>5, Named DEF s
<1> QED BY <1>6, <1>7 DEF Lengths, s, t

(* checkBuf on a buffer that holds the stream from frame f on: it leaves the *)
(* buffer alone if the frame is not whole, and cuts off just the frame if it *)
(* is.                                                                       *)
LEMMA CheckHolds ==
    ASSUME NEW b, Inside(b), NEW f \in 1..End, Holds(b, FirstOf[f]),
           FirstOf[f] + b.len <= Total + 1, NEW c \in CheckBuf(b)
    PROVE  \/ c = [box |-> b, ret |-> 0] /\ Short(b, f)
           \/ /\ f \in Frame /\ b.left = 0 /\ Frames[f].len <= b.len
              /\ c.box = Cut(b, Frames[f].len)
              /\ c.ret = 1 <=> Frames[f].type \in Media
<1>0. /\ b \in Buffer /\ b.len \in 0..Size /\ b.len \in Nat /\ FirstOf[f] \in Nat
      /\ HeadLen \in Nat /\ 0 < HeadLen
  BY Fields, Frontiers, Sizes
<1>1. CASE b.len = 0
  <2>1. c = [box |-> b, ret |-> 0]
    BY <1>0, <1>1, CheckCases
  <2> QED BY <1>1, <2>1 DEF Short
<1>2. CASE b.len # 0
  <2>1. f \in Frame
    <3>1. FirstOf[f] # FirstOf[End]
      <4>1. Total = FirstOf[End] - 1 /\ FirstOf[End] \in Nat
        BY Frontiers, Sizes
      <4> QED BY <1>0, <1>2, <4>1
    <3>2. f # End
      BY <3>1
    <3> QED BY <3>2, Frontiers, Sizes DEF Frame
  <2>2. b.left = 0 /\ b.buf[1] = FirstOf[f]
    <3>1. 1 \in 1..b.len /\ FirstOf[f] + 1 - 1 = FirstOf[f]
      BY <1>0, <1>2
    <3> QED BY <1>2, <3>1 DEF Holds
  <2>3. b.buf[1] \in Heads /\ TypeAt(b.buf[1]) = Frames[f].type
    BY <2>1, <2>2, Named
  <2>4. Frames[f].len \in Nat /\ HeadLen <= Frames[f].len
    BY <2>1, Sizes
  <2>5. CASE b.len < HeadLen
    <3>1. c = [box |-> b, ret |-> 0]
      BY <1>0, <2>3, <2>5, CheckCases
    <3>2. b.len < Frames[f].len
      BY <1>0, <2>4, <2>5
    <3> QED BY <2>1, <3>1, <3>2 DEF Short
  <2>6. CASE ~(b.len < HeadLen)
    <3>1. HeadLen <= b.len
      BY <1>0, <2>6
    <3>2. Lengths(b) = {Frames[f].len}
      BY <2>1, <3>1, HeadStates
    <3>3. \/ c = [box |-> b, ret |-> 0] /\ b.len < Frames[f].len
          \/ /\ ~(b.len < Frames[f].len)
             /\ c = [box |-> Cut(b, Frames[f].len),
                     ret |-> IF TypeAt(b.buf[1]) \in Media THEN 1 ELSE 0]
      BY <1>0, <2>3, <2>6, <3>2, CheckCases
    <3>4. CASE c = [box |-> b, ret |-> 0] /\ b.len < Frames[f].len
      BY <2>1, <3>4 DEF Short
    <3>5. CASE /\ ~(b.len < Frames[f].len)
               /\ c = [box |-> Cut(b, Frames[f].len),
                       ret |-> IF TypeAt(b.buf[1]) \in Media THEN 1 ELSE 0]
      <4>1. c.box = Cut(b, Frames[f].len) /\ (c.ret = 1 <=> Frames[f].type \in Media)
        BY <2>3, <3>5
      <4>2. Frames[f].len <= b.len
        BY <1>0, <2>4, <3>5
      <4> QED BY <2>1, <2>2, <4>1, <4>2
    <3> QED BY <3>3, <3>4, <3>5
  <2> QED BY <2>5, <2>6
<1> QED BY <1>1, <1>2

(* Behind the frame that was cut off the buffer holds the next one. *)
LEMMA CutHolds ==
    ASSUME NEW b, Inside(b), NEW f \in Frame, Holds(b, FirstOf[f]), Frames[f].len <= b.len
    PROVE  LET d == Cut(b, Frames[f].len) IN
           /\ Holds(d, FirstOf[f + 1])
           /\ d.len = 0 /\ d.left = b.len - Frames[f].len /\ d.at = Frames[f].len
           /\ d.buf[1] = FirstOf[f]
           /\ SubSeq(d.buf, 1, d.at) = Pieces(f)
<1> DEFINE n == Frames[f].len
           d == Cut(b, n)
<1>0. /\ b.len \in 0..Size /\ n \in Nat /\ 0 < n /\ n <= b.len /\ Size \in Nat
      /\ b.buf \in [1..Size -> Nat]
      /\ FirstOf[f] \in Nat /\ FirstOf[f + 1] = FirstOf[f] + n
  <2>1. b.len \in 0..Size /\ b.buf \in [1..Size -> Nat]
    BY Fields
  <2>2. n \in Nat /\ HeadLen <= n /\ HeadLen \in Nat /\ 0 < HeadLen /\ Size \in Nat
    BY Sizes
  <2>3. FirstOf[f] \in Nat /\ FirstOf[f + 1] = FirstOf[f] + n
    BY Frontiers
  <2> HIDE DEF n
  <2>4. 0 < n
    BY <2>2
  <2>5. n <= b.len
    BY DEF n
  <2> QED BY <2>1, <2>2, <2>3, <2>4, <2>5
<1>1. d.buf = b.buf /\ d.len = 0 /\ d.at = n /\ d.left = b.len - n
  BY MadeFields DEF Cut
<1>2. \A i \in 1..b.len : b.buf[i] = FirstOf[f] + i - 1
  BY DEF Holds
<1> HIDE DEF n, d
<1>3. \A i \in 1..d.left : d.buf[d.at + i] = FirstOf[f + 1] + i - 1
  <2> SUFFICES ASSUME NEW i \in 1..(b.len - n) PROVE b.buf[n + i] = FirstOf[f + 1] + i - 1
    BY <1>1
  <2>1. n + i \in 1..b.len
    BY <1>0
  <2>2. b.buf[n + i] = FirstOf[f] + (n + i) - 1
    BY <2>1, <1>2
  <2> QED BY <2>2, <1>0
<1>4. Holds(d, FirstOf[f + 1])
  BY <1>1, <1>3 DEF Holds
<1>5. d.buf[1] = FirstOf[f]
  <2>1. 1 \in 1..b.len /\ FirstOf[f] + 1 - 1 = FirstOf[f]
    BY <1>0
  <2> QED BY <2>1, <1>1, <1>2
<1>6. SubSeq(b.buf, 1, n) = Pieces(f)
  <2> DEFINE s == b.buf
             t == Pieces(f)
  <2>1. s \in Seq(Nat) /\ Len(s) = Size
    BY <1>0
  <2>2. t \in [1..n -> Int]
    BY <1>0 DEF Pieces, n
  <2>3. t \in Seq(Int) /\ Len(t) = n
    BY <1>0, <2>2
  <2>4. \A i \in 1..n : s[i] = t[i]
    <3>1. \A i \in 1..n : i \in 1..b.len
      BY <1>0
    <3> QED BY <3>1, <1>2 DEF Pieces, n
  <2> HIDE DEF s, t
  <2>5. SubSeq(s, 1, n) = t
    BY <1>0, <2>1, <2>3, <2>4
  <2> QED BY <2>5 DEF s, t
<1> QED BY <1>1, <1>4, <1>5, <1>6 DEF n, d

-----------------------------------------------------------------------------
(* The receiver at frame f: what is in the buffer and in the socket is the   *)
(* stream from f on, and what is before f was handed on as it was due.       *)

(* The messages of queue in go on from piece q to the last that was sent. *)
Feed(in, q) ==
    /\ in = <<>> => q = sent + 1
    /\ in # <<>> => in[1].from = q /\ in[Len(in)].from + in[Len(in)].n = sent + 1
    /\ \A j \in 1..Len(in) : j + 1 \in 1..Len(in) => in[j + 1].from = in[j].from + in[j].n

Stand(f, b, in, mk, k, r) ==
    /\ Holds(b, FirstOf[f])
    /\ Feed(in, FirstOf[f] + b.len + b.left)
    /\ begin <= FirstOf[f]
    /\ \A g \in Frame : LastOf(g) < mk => g < f
    /\ k = 1 <=> Started(begin, f)
    /\ r = DueFrom(begin, FirstOf[f])

Parsed(f) == Stand(f, box, inbox, mark, key, ring) /\ Short(box, f)

(* What is left of it when the connection has ended. *)
InStep == /\ IsPrefix(ring, DueFrom(begin, Total + 1))
          /\ IsPrefix(DueFrom(begin, mark), ring)

PInv == ~overlaid => IF alive THEN \E f \in 1..End : Parsed(f) ELSE InStep

(* Every message ends with what was sent. *)
Sane(in) == in \in Seq(Message) /\ \A j \in 1..Len(in) : in[j].from + in[j].n - 1 <= sent

(* What the buffer holds was sent. *)
LEMMA FeedWithin ==
    ASSUME IInv, NEW in, Sane(in), NEW q \in Int, Feed(in, q)
    PROVE  q <= Total + 1
<1>0. sent \in 0..Total /\ Total \in Nat
  BY Within DEF IInv
<1>1. CASE in = <<>>
  BY <1>0, <1>1 DEF Feed
<1>2. CASE in # <<>>
  <2>1. 1 \in 1..Len(in) /\ in[1] \in Message /\ in[1].from + in[1].n - 1 <= sent
    BY <1>2 DEF Sane
  <2>2. in[1].from = q /\ in[1].from \in Nat /\ in[1].n \in Nat
    BY <1>2, <2>1 DEF Feed, Message
  <2> QED BY <1>0, <2>1, <2>2
<1> QED BY <1>1, <1>2

(* The receiver at a frame is in step with what is due. *)
LEMMA StandInStep ==
    ASSUME IInv, NEW f \in 1..End, NEW b, NEW in, NEW k, Stand(f, b, in, mark, k, ring)
    PROVE  InStep
<1>0. FirstOf[f] \in Nat /\ FirstOf[f] <= Total + 1 /\ Total \in Nat /\ mark \in Nat
  BY Frontiers, Within DEF IInv
<1>1. ring = DueFrom(begin, FirstOf[f]) /\ \A g \in Frame : LastOf(g) < mark => g < f
  BY DEF Stand
<1>2. IsPrefix(ring, DueFrom(begin, Total + 1))
  BY <1>0, <1>1, DuePrefix
<1>3. CASE mark <= FirstOf[f]
  <2>1. IsPrefix(DueFrom(begin, mark), ring)
    BY <1>0, <1>1, <1>3, DuePrefix
  <2> QED BY <1>2, <2>1 DEF InStep
<1>4. CASE FirstOf[f] < mark
  <2>1. \A g \in Frame : LastOf(g) < mark <=> LastOf(g) < FirstOf[f]
    <3> SUFFICES ASSUME NEW g \in Frame PROVE LastOf(g) < mark <=> LastOf(g) < FirstOf[f]
      OBVIOUS
    <3>1. LastOf(g) \in Nat /\ (g < f <=> LastOf(g) < FirstOf[f])
      BY Frontiers, Increasing
    <3> QED BY <3>1, <1>0, <1>1, <1>4
  <2>2. Got(begin, mark) = Got(begin, FirstOf[f])
    BY <2>1 DEF Got
  <2>3. DueFrom(begin, mark) = ring
    BY <1>1, <2>2 DEF DueFrom, Ok
  <2>4. IsPrefix(ring, ring)
    BY <1>0, <1>1, DuePrefix
  <2> QED BY <1>2, <2>3, <2>4 DEF InStep
<1> QED BY <1>0, <1>3, <1>4

(* Restoring the rest, and forgetting what no length reaches. *)
LEMMA RestoreStands ==
    ASSUME NEW f \in 1..End, NEW b, Inside(b), NEW in, NEW mk, NEW k, NEW r,
           Stand(f, b, in, mk, k, r)
    PROVE  Stand(f, Restore(b), in, mk, k, r) /\ Restore(b).left = 0
<1>1. Holds(Restore(b), FirstOf[f]) /\ Restore(b).left = 0 /\ Restore(b).len = b.len + b.left
  BY RestoreHolds DEF Stand
<1>2. FirstOf[f] + Restore(b).len + Restore(b).left = FirstOf[f] + b.len + b.left
  BY <1>1, Fields, Frontiers
<1> QED BY <1>1, <1>2 DEF Stand

(* The same for the buffer once it is trimmed.                              *)
LEMMA TrimStands ==
    ASSUME NEW f \in 1..End, NEW b, Inside(b), NEW in, NEW mk, NEW k, NEW r,
           Stand(f, b, in, mk, k, r), Short(b, f)
    PROVE  Stand(f, Trim(b), in, mk, k, r) /\ Short(Trim(b), f)
BY TrimHolds DEF Stand, Short

(* checkBuf leaves the receiver where it is, or brings it one frame on. *)
LEMMA CheckStands ==
    ASSUME IInv, NEW f \in 1..End, NEW b, Inside(b), NEW in, Sane(in), NEW mk, NEW k, NEW r,
           Stand(f, b, in, mk, k, r), NEW c \in CheckBuf(b)
    PROVE  \/ c = [box |-> b, ret |-> 0] /\ Short(b, f)
           \/ /\ f \in Frame /\ c.box.len = 0
              /\ TypeAt(c.box.buf[1]) = Frames[f].type
              /\ SubSeq(c.box.buf, 1, c.box.at) = Pieces(f)
              /\ c.ret = 1 <=> Frames[f].type \in Media
              /\ Holds(c.box, FirstOf[f + 1])
              /\ Feed(in, FirstOf[f + 1] + c.box.len + c.box.left)
<1>0. /\ Holds(b, FirstOf[f]) /\ Feed(in, FirstOf[f] + b.len + b.left)
      /\ FirstOf[f] \in Nat /\ b.len \in Nat /\ b.left \in Nat /\ Total \in Nat
  BY Fields, Frontiers, Within DEF Stand
<1>1. FirstOf[f] + b.len + b.left <= Total + 1
  BY <1>0, FeedWithin
<1>2. FirstOf[f] + b.len <= Total + 1
  BY <1>0, <1>1
<1>3. \/ c = [box |-> b, ret |-> 0] /\ Short(b, f)
      \/ /\ f \in Frame /\ b.left = 0 /\ Frames[f].len <= b.len
         /\ c.box = Cut(b, Frames[f].len)
         /\ c.ret = 1 <=> Frames[f].type \in Media
  BY <1>0, <1>2, CheckHolds
<1>4. CASE /\ f \in Frame /\ b.left = 0 /\ Frames[f].len <= b.len
           /\ c.box = Cut(b, Frames[f].len)
           /\ c.ret = 1 <=> Frames[f].type \in Media
  <2>1. /\ Holds(c.box, FirstOf[f + 1])
        /\ c.box.len = 0 /\ c.box.left = b.len - Frames[f].len
        /\ c.box.buf[1] = FirstOf[f]
        /\ SubSeq(c.box.buf, 1, c.box.at) = Pieces(f)
    BY <1>0, <1>4, CutHolds
  <2>2. Frames[f].len \in Nat /\ FirstOf[f + 1] = FirstOf[f] + Frames[f].len
    BY <1>4, Frontiers, Sizes
  <2>3. FirstOf[f + 1] + c.box.len + c.box.left = FirstOf[f] + b.len + b.left
    BY <1>0, <1>4, <2>1, <2>2
  <2>4. TypeAt(c.box.buf[1]) = Frames[f].type
    BY <1>4, <2>1, Named
  <2> QED BY <1>0, <1>4, <2>1, <2>3, <2>4
<1> QED BY <1>3, <1>4

(* A media frame cut off the front is handed on as it is due, *)
LEMMA DeliverStands ==
    ASSUME NEW f \in Frame, NEW b, NEW in, NEW mk, NEW k, k \in {0, 1}, NEW r,
           NEW c, begin \in Nat,
           begin <= FirstOf[f], k = 1 <=> Started(begin, f), r = DueFrom(begin, FirstOf[f]),
           \A g \in Frame : LastOf(g) < mk => g < f,
           Holds(c, FirstOf[f + 1]), Feed(in, FirstOf[f + 1] + c.len + c.left),
           Frames[f].type \in Media,
           NEW k2, k2 = IF k = 1 \/ Frames[f].type = "VI" THEN 1 ELSE 0,
           NEW r2, r2 = IF k2 = 1 THEN Append(r, Pieces(f)) ELSE r
    PROVE  Stand(f + 1, c, in, mk, k2, r2)
<1>0. /\ \A g \in Frame : g \in Int
      /\ FirstOf[f] \in Nat /\ FirstOf[f + 1] \in Nat /\ FirstOf[f] <= FirstOf[f + 1]
  <2>1. f \in 1..End /\ f + 1 \in 1..End /\ f <= f + 1 /\ \A g \in Frame : g \in Int
    BY Frontiers DEF Frame
  <2> QED BY <2>1, Frontiers, Increasing
<1>1. Started(begin, f + 1) <=> (Started(begin, f) \/ Frames[f].type = "VI")
  <2>1. \A g \in Frame : g < f + 1 <=> (g < f \/ g = f)
    BY <1>0
  <2> QED BY <2>1 DEF Started
<1>2. k2 = 1 <=> Started(begin, f + 1)
  BY <1>1
<1>3. r2 = DueFrom(begin, FirstOf[f + 1])
  BY <1>2, DueStep
<1>4. \A g \in Frame : LastOf(g) < mk => g < f + 1
  BY <1>0
<1>5. begin <= FirstOf[f + 1]
  BY <1>0
<1> QED BY <1>2, <1>3, <1>4, <1>5 DEF Stand

(* and a picture or info frame is not due. *)
LEMMA SkipStands ==
    ASSUME NEW f \in Frame, NEW in, NEW mk, NEW k, NEW r, NEW c, begin \in Nat,
           begin <= FirstOf[f], k = 1 <=> Started(begin, f), r = DueFrom(begin, FirstOf[f]),
           \A g \in Frame : LastOf(g) < mk => g < f,
           Holds(c, FirstOf[f + 1]), Feed(in, FirstOf[f + 1] + c.len + c.left),
           Frames[f].type \notin Media
    PROVE  Stand(f + 1, c, in, mk, k, r)
<1>0. /\ \A g \in Frame : g \in Int
      /\ FirstOf[f] \in Nat /\ FirstOf[f + 1] \in Nat /\ FirstOf[f] <= FirstOf[f + 1]
  <2>1. f \in 1..End /\ f + 1 \in 1..End /\ f <= f + 1 /\ \A g \in Frame : g \in Int
    BY Frontiers DEF Frame
  <2> QED BY <2>1, Frontiers, Increasing
<1>1. Started(begin, f + 1) <=> Started(begin, f)
  <2>1. \A g \in Frame : g < f + 1 <=> (g < f \/ g = f)
    BY <1>0
  <2>2. Frames[f].type # "VI"
    BY DEF Media
  <2> QED BY <2>1, <2>2 DEF Started
<1>2. r = DueFrom(begin, FirstOf[f + 1])
  BY DueStep
<1>3. \A g \in Frame : LastOf(g) < mk => g < f + 1
  BY <1>0
<1>4. begin <= FirstOf[f + 1]
  BY <1>0
<1> QED BY <1>1, <1>2, <1>3, <1>4 DEF Stand

(* Reading a message takes it from the socket to the end of the buffer. *)
LEMMA ReadStands ==
    ASSUME IInv, inbox # <<>>, NEW f \in 1..End, NEW b, Inside(b), NEW k, NEW r,
           Stand(f, b, inbox, mark, k, r), Short(b, f),
           ~TooLong(b, Head(inbox)), Head(inbox).n = 0 \/ b.left = 0
    PROVE  Stand(f, RecvBuf(b, Head(inbox)), Tail(inbox),
                 IF Head(inbox).n > 0 THEN Head(inbox).from ELSE mark, k, r)
<1> DEFINE m == Head(inbox)
           q == FirstOf[f] + b.len + b.left
           c == RecvBuf(b, m)
<1>0. /\ m \in Message /\ m = inbox[1] /\ m.from \in Nat /\ m.n \in Nat
      /\ FirstOf[f] \in Nat /\ b.len \in Nat /\ b.left \in Nat /\ Len(inbox) \in Nat /\ 1 \in 1..Len(inbox)
      /\ inbox \in Seq(Message)
  BY Fields, Frontiers, HeadTyped DEF Message, IInv
<1>1. m.from = q
  BY <1>0 DEF Stand, Feed
<1>2. Holds(c, FirstOf[f]) /\ FirstOf[f] + c.len + c.left = q + m.n
  <2>1. CASE m.n = 0
    <3>1. c = b
      BY <2>1 DEF RecvBuf
    <3> QED BY <1>0, <2>1, <3>1 DEF Stand
  <2>2. CASE m.n # 0
    <3>1. b.left = 0 /\ m.from = FirstOf[f] + b.len
      BY <1>0, <1>1, <2>2
    <3>2. Holds(c, FirstOf[f]) /\ c.len = b.len + m.n /\ c.left = 0
      <4> HIDE DEF m, c
      <4>1. ~TooLong(b, m) /\ Holds(b, FirstOf[f])
        BY DEF Stand, m
      <4> QED BY <1>0, <2>2, <3>1, <4>1, RecvHolds DEF c
    <3> HIDE DEF c
    <3> QED BY <1>0, <3>1, <3>2
  <2> QED BY <2>1, <2>2
<1>3. Feed(Tail(inbox), q + m.n)
  <2> DEFINE t == Tail(inbox)
  <2>1. /\ t \in Seq(Message) /\ Len(t) = Len(inbox) - 1
        /\ \A j \in 1..Len(t) : t[j] = inbox[j + 1] /\ j + 1 \in 1..Len(inbox)
    BY HeadTyped
  <2> HIDE DEF t
  <2>2. inbox[Len(inbox)].from + inbox[Len(inbox)].n = sent + 1
    BY DEF Stand, Feed
  <2>3. \A j \in 1..Len(inbox) : j + 1 \in 1..Len(inbox) => inbox[j + 1].from = inbox[j].from + inbox[j].n
    BY DEF Stand, Feed
  <2>4. CASE t = <<>>
    <3>1. Len(inbox) = 1
      BY <1>0, <2>1, <2>4
    <3>2. q + m.n = sent + 1
      BY <1>0, <1>1, <2>2, <3>1
    <3>3. \A j \in 1..Len(t) : FALSE
      BY <1>0, <2>1, <3>1
    <3>4. Feed(t, q + m.n)
      <4> HIDE DEF q, m
      <4> QED BY <2>4, <3>2, <3>3 DEF Feed
    <3> QED BY <3>4 DEF t
  <2>5. CASE t # <<>>
    <3>1. Len(t) \in Nat /\ 1 \in 1..Len(t) /\ Len(t) \in 1..Len(t)
      BY <2>1, <2>5
    <3>2. t[1] = inbox[2] /\ 2 \in 1..Len(inbox)
      BY <2>1, <3>1
    <3>3. t[1].from = q + m.n
      <4>1. inbox[1 + 1].from = inbox[1].from + inbox[1].n
        BY <1>0, <2>3, <3>2
      <4> QED BY <1>0, <1>1, <3>2, <4>1
    <3>4. t[Len(t)] = inbox[Len(inbox)]
      BY <1>0, <2>1, <3>1
    <3>5. \A j \in 1..Len(t) : j + 1 \in 1..Len(t) => t[j + 1].from = t[j].from + t[j].n
      <4> SUFFICES ASSUME NEW j \in 1..Len(t), j + 1 \in 1..Len(t)
                   PROVE  t[j + 1].from = t[j].from + t[j].n
        OBVIOUS
      <4>1. t[j] = inbox[j + 1] /\ t[j + 1] = inbox[(j + 1) + 1]
            /\ j + 1 \in 1..Len(inbox) /\ (j + 1) + 1 \in 1..Len(inbox)
        BY <2>1
      <4> QED BY <2>3, <4>1
    <3> QED BY <2>2, <2>5, <3>3, <3>4, <3>5 DEF Feed, t
  <2> QED BY <2>4, <2>5
<1>4. \A g \in Frame : LastOf(g) < (IF m.n > 0 THEN m.from ELSE mark) => g < f
  <2>1. CASE m.n > 0
    <3> SUFFICES ASSUME NEW g \in Frame, LastOf(g) < m.from, ~(g < f) PROVE FALSE
      BY <2>1
    <3>1. f \in Frame /\ f <= g /\ f \in Int /\ g \in Int
      BY Frontiers, Sizes DEF Frame
    <3>2. LastOf(f) <= LastOf(g) /\ LastOf(f) \in Nat /\ LastOf(g) \in Nat
      BY <3>1, Ends, Frontiers
    <3>3. m.from = FirstOf[f] + b.len
      BY <1>0, <1>1, <2>1
    <3>4. Frames[f].len \in Nat /\ 0 < Frames[f].len /\ (b.len > 0 => b.len < Frames[f].len)
      BY <3>1, Sizes DEF Short
    <3>5. m.from <= LastOf(f)
      BY <1>0, <3>3, <3>4 DEF LastOf
    <3> QED BY <1>0, <3>2, <3>5
  <2>2. CASE ~(m.n > 0)
    BY <2>2 DEF Stand
  <2> QED BY <2>1, <2>2
<1> HIDE DEF c, q, m
<1>5. Feed(Tail(inbox), FirstOf[f] + c.len + c.left)
  BY <1>2, <1>3
<1> QED BY <1>2, <1>4, <1>5 DEF Stand, c, m

(* A pass that handed a frame on, or did not, stands at some frame. *)
Delivered(c, k, r, k2, r2) ==
    /\ k2 = IF k = 1 \/ TypeAt(c.box.buf[1]) = "VI" THEN 1 ELSE 0
    /\ r2 = IF k2 = 1 THEN Append(r, SubSeq(c.box.buf, 1, c.box.at)) ELSE r

(* After checkBuf, and the delivery if it found a media frame, the receiver *)
(* stands at some frame.                                                    *)
LEMMA PassStands ==
    ASSUME IInv, NEW f \in 1..End, NEW b, Inside(b), NEW in, Sane(in), NEW mk,
           Stand(f, b, in, mk, key, ring), NEW c \in CheckBuf(b), NEW k2, NEW r2,
           IF c.ret = 1 THEN Delivered(c, key, ring, k2, r2) ELSE k2 = key /\ r2 = ring
    PROVE  \E g \in 1..End : Stand(g, c.box, in, mk, k2, r2) /\ Short(c.box, g)
<1>0. key \in {0, 1} /\ begin \in Nat
  BY DEF IInv
<1>1. CASE c = [box |-> b, ret |-> 0] /\ Short(b, f)
  <2>1. c.box = b /\ c.ret # 1
    BY <1>1
  <2> QED BY <1>1, <2>1
<1>2. CASE /\ f \in Frame /\ c.box.len = 0
           /\ TypeAt(c.box.buf[1]) = Frames[f].type
           /\ SubSeq(c.box.buf, 1, c.box.at) = Pieces(f)
           /\ c.ret = 1 <=> Frames[f].type \in Media
           /\ Holds(c.box, FirstOf[f + 1])
           /\ Feed(in, FirstOf[f + 1] + c.box.len + c.box.left)
  <2>1. f + 1 \in 1..End /\ Short(c.box, f + 1)
    BY <1>2, Frontiers DEF Short
  <2>2. /\ begin <= FirstOf[f] /\ (key = 1 <=> Started(begin, f))
        /\ ring = DueFrom(begin, FirstOf[f])
        /\ \A g \in Frame : LastOf(g) < mk => g < f
    BY DEF Stand
  <2>3. CASE c.ret = 1
    <3>1. /\ Frames[f].type \in Media
          /\ k2 = IF key = 1 \/ Frames[f].type = "VI" THEN 1 ELSE 0
          /\ r2 = IF k2 = 1 THEN Append(ring, Pieces(f)) ELSE ring
      BY <1>2, <2>3 DEF Delivered
    <3>2. Stand(f + 1, c.box, in, mk, k2, r2)
      BY <1>0, <1>2, <2>2, <3>1, DeliverStands
    <3> QED BY <2>1, <3>2
  <2>4. CASE c.ret # 1
    <3>1. Frames[f].type \notin Media /\ k2 = key /\ r2 = ring
      BY <1>2, <2>4
    <3>2. Stand(f + 1, c.box, in, mk, key, ring)
      BY <1>0, <1>2, <2>2, <3>1, SkipStands
    <3> QED BY <2>1, <3>1, <3>2
  <2> QED BY <2>3, <2>4
<1> QED BY <1>1, <1>2, CheckStands

-----------------------------------------------------------------------------
(* Every step keeps the receiver at a frame.                               *)

(* A receiver that stands at a frame after a step that leaves the device    *)
(* alone.                                                                   *)
LEMMA Standing ==
    ASSUME NEW g \in 1..End, Stand(g, box', inbox', mark', key', ring'), Short(box', g),
           sent' = sent, begin' = begin
    PROVE  Parsed(g)'
BY DEF Parsed, Stand, Feed

(* The receiver stands at the first frame at the start,                     *)
LEMMA InitStands == Init => PInv
<1> SUFFICES ASSUME Init PROVE PInv
  OBVIOUS
<1>1. /\ sent = 0 /\ inbox = <<>> /\ box = Empty /\ key = 0 /\ alive = TRUE
      /\ begin = 1 /\ ring = <<>> /\ mark = 1
  BY DEF Init
<1>2. 1 \in 1..End /\ FirstOf[1] = 1
  BY Frontiers, Starts, Sizes
<1>3. Holds(box, 1) /\ Short(box, 1) /\ box.len = 0 /\ box.left = 0
  BY <1>1, EmptyInside DEF Holds, Short
<1>4. Feed(inbox, FirstOf[1] + box.len + box.left)
  BY <1>1, <1>2, <1>3 DEF Feed
<1>5. ring = DueFrom(begin, FirstOf[1])
  BY <1>1, <1>2, DueStart
<1>6. \A g \in Frame : LastOf(g) < mark => g < 1
  <2> SUFFICES ASSUME NEW g \in Frame PROVE ~(LastOf(g) < 1)
    BY <1>1
  <2>1. 0 < FirstOf[g] /\ FirstOf[g] <= LastOf(g) /\ FirstOf[g] \in Nat /\ LastOf(g) \in Nat
    BY Frontiers, Increasing
  <2> QED BY <2>1
<1>7. ~Started(begin, 1) /\ key # 1
  BY <1>1 DEF Started, Frame
<1>8. begin <= FirstOf[1]
  BY <1>1, <1>2
<1>9. Stand(1, box, inbox, mark, key, ring)
  BY <1>2, <1>3, <1>4, <1>5, <1>6, <1>7, <1>8 DEF Stand
<1> QED BY <1>1, <1>2, <1>3, <1>9 DEF PInv, Parsed

(* where it was when the device sends,                                      *)
LEMMA SendStands ==
    ASSUME IInv, NEW f \in 1..End, Parsed(f), Send
    PROVE  Parsed(f)'
<1>1. PICK n \in 0..MsgMax : inbox' = Append(inbox, [from |-> sent + 1, n |-> n]) /\ sent' = sent + n
  BY DEF Send
<1> DEFINE m == [from |-> sent + 1, n |-> n]
           q == FirstOf[f] + box.len + box.left
<1>2. /\ n \in Nat /\ sent \in Nat /\ m \in Message /\ m.from = sent + 1 /\ m.n = n
      /\ inbox \in Seq(Message) /\ Len(inbox) \in Nat
  BY Sizes, Within DEF IInv, Message
<1>3. Feed(inbox, q)
  BY DEF Parsed, Stand
<1> HIDE DEF m, q
<1>4. inbox' = Append(inbox, m)
  BY <1>1 DEF m
<1>5. /\ Len(inbox') = Len(inbox) + 1 /\ inbox'[Len(inbox) + 1] = m
      /\ \A j \in 1..Len(inbox) : inbox'[j] = inbox[j]
      /\ inbox' # <<>>
  BY <1>2, <1>4
<1>6. inbox'[Len(inbox')].from + inbox'[Len(inbox')].n = sent' + 1
  <2>1. inbox'[Len(inbox')] = m
    BY <1>5
  <2> QED BY <1>1, <1>2, <2>1
<1>7. inbox'[1].from = q
  <2>1. CASE inbox = <<>>
    <3>1. Len(inbox) = 0 /\ inbox'[1] = m
      BY <1>5, <2>1
    <3> QED BY <1>2, <1>3, <2>1, <3>1 DEF Feed
  <2>2. CASE inbox # <<>>
    <3>1. 1 \in 1..Len(inbox)
      BY <1>2, <2>2
    <3> QED BY <1>3, <1>5, <2>2, <3>1 DEF Feed
  <2> QED BY <2>1, <2>2
<1>8. ASSUME NEW j \in 1..Len(inbox'), j + 1 \in 1..Len(inbox')
      PROVE  inbox'[j + 1].from = inbox'[j].from + inbox'[j].n
  <2>1. j \in 1..Len(inbox) /\ (j + 1 \in 1..Len(inbox) \/ j = Len(inbox)) /\ inbox'[j] = inbox[j]
    BY <1>2, <1>5, <1>8
  <2>2. CASE j + 1 \in 1..Len(inbox)
    BY <1>3, <1>5, <2>1, <2>2 DEF Feed
  <2>3. CASE j = Len(inbox)
    <3>1. inbox # <<>> /\ inbox[j].from + inbox[j].n = sent + 1
      BY <1>2, <1>3, <2>1, <2>3 DEF Feed
    <3>2. inbox'[j + 1] = m
      BY <1>5, <2>3
    <3> QED BY <1>2, <2>1, <3>1, <3>2
  <2> QED BY <2>1, <2>2, <2>3
<1>9. Feed(inbox, q)'
  <2>1. q' = q
    BY DEF Send, q
  <2> QED BY <1>5, <1>6, <1>7, <1>8, <2>1 DEF Feed
<1>10. UNCHANGED <<box, key, begin, ring, mark>>
  BY DEF Send
<1> QED BY <1>9, <1>10 DEF Parsed, Stand, q

(* at the frame a new connection begins with,                               *)
LEMMA ReconnectStands ==
    ASSUME IInv, Reconnect
    PROVE  \E f \in 1..End : Parsed(f)'
<1>1. PICK f \in Frame : sent' = FirstOf[f] - 1 /\ begin' = FirstOf[f] /\ mark' = FirstOf[f]
  BY DEF Reconnect
<1>2. inbox' = <<>> /\ ring' = <<>> /\ box' = Empty /\ key' = 0
  BY DEF Reconnect
<1>3. f \in 1..End /\ FirstOf[f] \in Nat
  BY Frontiers
<1>4. Holds(box', FirstOf[f]) /\ Short(box', f) /\ box'.len = 0 /\ box'.left = 0
  BY <1>2, EmptyInside DEF Holds, Short
<1>5. FirstOf[f] + box'.len + box'.left = sent' + 1
  BY <1>1, <1>3, <1>4
<1>6. Len(inbox') = 0
  BY <1>2
<1>7. Feed(inbox, FirstOf[f] + box.len + box.left)'
  BY <1>2, <1>5, <1>6 DEF Feed
<1>8. ring' = DueFrom(begin', FirstOf[f])
  BY <1>1, <1>2, <1>3, DueStart
<1>9. \A g \in Frame : LastOf(g) < mark' => g < f
  BY <1>1, <1>3, Increasing
<1>10. ~Started(begin', f) /\ key' # 1
  <2>1. \A g \in Frame : g < f => FirstOf[g] < FirstOf[f]
    <3> SUFFICES ASSUME NEW g \in Frame, g < f PROVE FirstOf[g] < FirstOf[f]
      OBVIOUS
    <3>1. FirstOf[g] <= LastOf(g) /\ LastOf(g) < FirstOf[f] /\ FirstOf[g] \in Nat /\ LastOf(g) \in Nat
      BY <1>3, Frontiers, Increasing
    <3> QED BY <1>3, <3>1
  <2>2. \A g \in Frame : FirstOf[g] \in Nat
    BY Frontiers
  <2>3. \A g \in Frame : g < f => ~(FirstOf[f] <= FirstOf[g])
    BY <1>3, <2>1, <2>2
  <2>4. ~Started(FirstOf[f], f)
    BY <2>3 DEF Started
  <2> QED BY <1>1, <1>2, <2>4
<1>11. begin' <= FirstOf[f]
  BY <1>1, <1>3
<1>12. Parsed(f)'
  BY <1>4, <1>7, <1>8, <1>9, <1>10, <1>11 DEF Parsed, Stand
<1> QED BY <1>3, <1>12

(* The connection ends with what is due so far in the ring. *)
LEMMA FailedStands ==
    ASSUME IInv, alive, PInv, Failed
    PROVE  PInv'
<1> SUFFICES ASSUME ~overlaid PROVE InStep'
  BY DEF PInv, Failed
<1>1. PICK f \in 1..End : Parsed(f)
  BY DEF PInv
<1>2. InStep
  BY <1>1, StandInStep DEF Parsed
<1> QED BY <1>2 DEF InStep, Failed

(* and at some frame after a pass with bytes in the socket.                 *)
LEMMA RecvStands ==
    ASSUME IInv, PInv, RecvRts
    PROVE  PInv'
<1>0. alive /\ inbox # <<>> /\ Inside(box) /\ Sane(inbox) /\ key \in {0, 1}
  BY DEF RecvRts, IInv, Sane
<1>1. PICK c \in CheckBuf(Restore(box)) :
          \/ /\ c.ret = 1
             /\ Deliver(c)
             /\ UNCHANGED <<sent, inbox, alive, conn, begin, mark, overlaid>>
          \/ c.ret = 0 /\ ReadMessage(c.box)
  BY DEF RecvRts
<1>2. Inside(Restore(box)) /\ Inside(c.box)
  BY <1>0, RestoreInside, CheckInside
<1>3. CASE /\ c.ret = 1
           /\ Deliver(c)
           /\ UNCHANGED <<sent, inbox, alive, conn, begin, mark, overlaid>>
  <2> SUFFICES ASSUME ~overlaid PROVE \E g \in 1..End : Parsed(g)'
    BY <1>0, <1>3 DEF PInv
  <2>1. PICK f \in 1..End : Stand(f, box, inbox, mark, key, ring)
    BY <1>0 DEF PInv, Parsed
  <2>2. Stand(f, Restore(box), inbox, mark, key, ring)
    BY <1>0, <2>1, RestoreStands
  <2>3. Delivered(c, key, ring, key', ring') /\ box' = Trim(c.box)
    BY <1>3 DEF Deliver, Delivered
  <2>4. PICK g \in 1..End : Stand(g, c.box, inbox, mark, key', ring') /\ Short(c.box, g)
    BY <1>0, <1>2, <1>3, <2>2, <2>3, PassStands
  <2>5. Stand(g, Trim(c.box), inbox, mark, key', ring') /\ Short(Trim(c.box), g)
    BY <1>2, <2>4, TrimStands
  <2>6. Parsed(g)'
    BY <1>3, <2>3, <2>5, Standing
  <2> QED BY <2>6
<1>4. CASE c.ret = 0 /\ ReadMessage(c.box)
  <2> DEFINE m == Head(inbox)
             r == RecvBuf(c.box, m)
  <2>1. CASE TooLong(c.box, m) /\ Failed
    BY <1>0, <2>1, FailedStands
  <2>2. CASE ~(TooLong(c.box, m) /\ Failed)
    <3>1. /\ ~TooLong(c.box, m)
          /\ inbox' = Tail(inbox)
          /\ mark' = IF m.n > 0 THEN m.from ELSE mark
          /\ overlaid' = (overlaid \/ (m.n > 0 /\ c.box.left > 0))
          /\ UNCHANGED <<sent, alive, conn, begin>>
      BY <1>4, <2>2 DEF ReadMessage
    <3>2. PICK d \in CheckBuf(r) :
              IF d.ret = 1 THEN Deliver(d) ELSE box' = Trim(d.box) /\ UNCHANGED <<key, ring>>
      BY <1>4, <2>2 DEF ReadMessage
    <3>3. m \in Message /\ m.n \in Nat /\ c.box.left \in Nat
      BY <1>0, <1>2, HeadTyped, Fields DEF Message
    <3> SUFFICES ASSUME ~overlaid, ~(m.n > 0 /\ c.box.left > 0)
                 PROVE  \E g \in 1..End : Parsed(g)'
      BY <1>0, <3>1 DEF PInv
    <3>4. PICK e \in 1..End : Stand(e, box, inbox, mark, key, ring)
      BY <1>0 DEF PInv, Parsed
    <3>5. Stand(e, Restore(box), inbox, mark, key, ring)
      BY <1>0, <3>4, RestoreStands
    <3>6. PICK f \in 1..End : Stand(f, c.box, inbox, mark, key, ring) /\ Short(c.box, f)
      BY <1>0, <1>2, <1>4, <3>5, PassStands
    <3>7. m.n = 0 \/ c.box.left = 0
      BY <3>3
    <3>8. Stand(f, r, inbox', mark', key, ring)
      BY <1>0, <1>2, <3>1, <3>6, <3>7, ReadStands
    <3>9. Inside(r) /\ Inside(d.box)
      BY <1>0, <1>2, <3>1, <3>3, RecvInside, CheckInside
    <3>10. Sane(inbox')
      BY <1>0, <3>1, HeadTyped DEF Sane
    <3>11. /\ box' = Trim(d.box)
           /\ IF d.ret = 1 THEN Delivered(d, key, ring, key', ring') ELSE key' = key /\ ring' = ring
      BY <3>2 DEF Deliver, Delivered
    <3> HIDE DEF r, m
    <3>12. PICK g \in 1..End : Stand(g, d.box, inbox', mark', key', ring') /\ Short(d.box, g)
      BY <3>8, <3>9, <3>10, <3>11, PassStands
    <3>13. Stand(g, Trim(d.box), inbox', mark', key', ring') /\ Short(Trim(d.box), g)
      BY <3>9, <3>12, TrimStands
    <3>14. Parsed(g)'
      BY <3>1, <3>11, <3>13, Standing
    <3> QED BY <3>14
  <2> QED BY <2>1, <2>2
<1> QED BY <1>1, <1>3, <1>4

(* So it does after every step,                                             *)
LEMMA StepStands == IInv /\ PInv /\ [Next]_vars => PInv'
<1> SUFFICES ASSUME IInv, PInv, [Next]_vars PROVE PInv'
  OBVIOUS
<1>1. CASE Send
  <2>1. alive /\ alive' /\ overlaid' = overlaid
    BY <1>1 DEF Send
  <2> SUFFICES ASSUME ~overlaid PROVE \E f \in 1..End : Parsed(f)'
    BY <2>1 DEF PInv
  <2>2. PICK f \in 1..End : Parsed(f)
    BY <2>1 DEF PInv
  <2> QED BY <1>1, <2>2, SendStands
<1>2. CASE Break
  BY <1>2, FailedStands DEF Break
<1>3. CASE Reconnect
  <2>1. PICK f \in 1..End : Parsed(f)'
    BY <1>3, ReconnectStands
  <2>2. alive'
    BY <1>3 DEF Reconnect
  <2> QED BY <2>1, <2>2 DEF PInv
<1>4. CASE RecvRts
  BY <1>4, RecvStands
<1>5. CASE UNCHANGED vars
  <2>1. UNCHANGED <<sent, inbox, box, key, alive, begin, ring, mark, overlaid>>
    BY <1>5 DEF vars
  <2> QED BY <2>1 DEF PInv, InStep, Parsed, Stand, Feed
<1> QED BY <1>1, <1>2, <1>3, <1>4, <1>5 DEF Next

(* and always.                                                              *)
LEMMA AlwaysStands == Spec => [](IInv /\ PInv)
<1>1. Init => IInv /\ PInv
  BY InitInside, InitStands
<1>2. IInv /\ PInv /\ [Next]_vars => IInv' /\ PInv'
  BY StepInside, StepStands
<1> QED BY <1>1, <1>2, PTL DEF Spec

(* A receiver at a frame, or in step when its connection has ended, is what *)
(* the properties say.                                                      *)
LEMMA PInvShows == IInv /\ PInv => Reassembled /\ OnlyLastMessageHeld
<1> SUFFICES ASSUME IInv, PInv, ~overlaid
             PROVE  IsPrefix(ring, Due(Total + 1)) /\ IsPrefix(Due(mark), ring)
  BY DEF Reassembled, OnlyLastMessageHeld
<1>1. InStep
  <2>1. CASE alive
    <3>1. PICK f \in 1..End : Parsed(f)
      BY <2>1 DEF PInv
    <3> QED BY <3>1, StandInStep DEF Parsed
  <2>2. CASE ~alive
    BY <2>2 DEF PInv
  <2> QED BY <2>1, <2>2
<1>2. \A p : Due(p) = DueFrom(begin, p)
  BY DueIs DEF IInv
<1> QED BY <1>1, <1>2 DEF InStep

(* However the device cuts its stream into messages and wherever connections *)
(* end, nc_xm_rts_runRecv puts whole media frames into the ring, in order    *)
(* and with none left out from the first I frame on, as long as no message   *)
(* is laid over bytes that tool_ptc_xm_recvRts has still to look at.         *)
THEOREM FramesWhole == Spec => []Reassembled
BY AlwaysStands, PInvShows, PTL

(* What ended before the last message began is in the ring: the receiver     *)
(* never keeps a frame for longer than one message that brings anything.     *)
THEOREM NothingHeldLonger == Spec => []OnlyLastMessageHeld
BY AlwaysStands, PInvShows, PTL
=============================================================================
