------------------------- MODULE DisplayUpdateProofs -------------------------
(***************************************************************************)
(* Proof that guac_rdp_disp_set_size stores a valid display size for every *)
(* request of positive dimensions that the fit's int arithmetic can hold:  *)
(* the two passes of guac_rdp_disp_fit bring both dimensions into          *)
(* [MinSize, MaxSize] whatever the aspect ratio, and making the width even *)
(* keeps it there.                                                         *)
(***************************************************************************)
EXTENDS DisplayUpdate, SequenceTheorems, TLAPS

USE DisplayUpdateAssumption

(* Half the range of int: INT_MAX + 1.                                     *)
Half == 2^(IntBits - 1)

(***************************************************************************)
(* The requests the theorem is about, and the bound the code relies on:    *)
(* the client sends positive sizes whose products with the bounds fit in   *)
(* int (beyond that, display_update_overflow shows the fit wrapping), and  *)
(* MinSize is even, as GUAC_RDP_DISP_MIN_SIZE = 200 is.  MaxSize * MaxSize *)
(* fitting in int (8192 * 8192 < 2^31) keeps the second fit's products in  *)
(* range.                                                                  *)
(***************************************************************************)
SaneSizes ==
  /\ MinSize % 2 = 0
  /\ Dims \subseteq Nat \ {0}
  /\ \A d \in Dims : d * MaxSize < Half
  /\ MaxSize * MaxSize < Half

LEMMA HalfFacts == Half \in Nat \ {0} /\ 2^IntBits = 2 * Half
BY DEF Half

(* The wrap leaves an int product that is in range as it is.               *)
LEMMA WrapInRange ==
  ASSUME NEW x \in Nat, x < Half
  PROVE  IntWrap(x) = x
<1>1. x + Half \in Half .. 2 * Half - 1
  BY HalfFacts
<1>2. (x + Half) % (2 * Half) = x + Half
  BY <1>1, HalfFacts
<1>. QED  BY <1>2, HalfFacts DEF IntWrap, Half

(* C division of naturals by a positive divisor is \div.                  *)
LEMMA CDivNat ==
  ASSUME NEW x \in Nat, NEW y \in Nat \ {0}
  PROVE  CDiv(x, y) = x \div y
BY DEF CDiv, AbsVal

(* The bounds on a quotient that the fit relies on.                       *)
LEMMA DivLower ==
  ASSUME NEW x \in Nat, NEW y \in Nat \ {0}, NEW k \in Nat, k * y <= x
  PROVE  k <= x \div y
OBVIOUS

LEMMA DivUpper ==
  ASSUME NEW x \in Nat, NEW y \in Nat \ {0}, NEW k \in Nat, x <= k * y
  PROVE  x \div y <= k
OBVIOUS

(***************************************************************************)
(* The first pass, fit(&width, &height), on a sane request: the width is   *)
(* brought into bounds and the height stays positive.                      *)
(***************************************************************************)
LEMMA FirstFit ==
  ASSUME SaneSizes, NEW w \in Dims, NEW h \in Dims
  PROVE  /\ Fit(w, h).a \in MinSize .. MaxSize
         /\ Fit(w, h).b \in Nat \ {0}
<1>1. w \in Nat \ {0} /\ h \in Nat \ {0} /\ h * MaxSize < Half
  BY DEF SaneSizes
<1>2. h * MinSize \in Nat /\ h * MinSize < Half /\ h * MaxSize \in Nat
  <2>1. h * MinSize <= h * MaxSize
    BY <1>1
  <2>. QED  BY <1>1, <2>1, HalfFacts
<1>3. CASE w < MinSize
  <2>1. IntWrap(h * MinSize) = h * MinSize
    BY <1>2, WrapInRange
  <2>2. CDiv(h * MinSize, w) = (h * MinSize) \div w
    BY <1>1, <1>2, CDivNat
  <2>3. 1 <= (h * MinSize) \div w
    <3>1. 1 * w <= h * MinSize
      BY <1>1, <1>3
    <3>. QED  BY <1>1, <1>2, <3>1, DivLower
  <2>4. Fit(w, h) = [a |-> MinSize,
                      b |-> IF CDiv(IntWrap(h * MinSize), w) > MaxSize THEN MaxSize
                            ELSE CDiv(IntWrap(h * MinSize), w)]
    BY <1>3 DEF Fit
  <2>. QED  BY <1>1, <2>1, <2>2, <2>3, <2>4
<1>4. CASE w > MaxSize
  <2>1. IntWrap(h * MaxSize) = h * MaxSize
    BY <1>1, <1>2, WrapInRange
  <2>2. CDiv(h * MaxSize, w) \in Int
    BY <1>1, <1>2, CDivNat
  <2>3. Fit(w, h) = [a |-> MaxSize,
                      b |-> IF CDiv(IntWrap(h * MaxSize), w) < MinSize THEN MinSize
                            ELSE CDiv(IntWrap(h * MaxSize), w)]
    BY <1>4 DEF Fit
  <2>. QED  BY <1>1, <2>1, <2>2, <2>3
<1>5. CASE w \in MinSize .. MaxSize
  BY <1>1, <1>5 DEF Fit
<1>. QED  BY <1>1, <1>3, <1>4, <1>5

(***************************************************************************)
(* The second pass, fit(&height, &width), on a positive height and a width *)
(* the first pass put in bounds: both end in bounds.  Scaling the width by *)
(* MinSize / height never shrinks it, and by MaxSize / height never grows  *)
(* it, so the clamp on the side the scaling moved it is the only one       *)
(* needed.                                                                 *)
(***************************************************************************)
LEMMA SecondFit ==
  ASSUME SaneSizes, NEW a \in Nat \ {0}, NEW b \in MinSize .. MaxSize
  PROVE  /\ Fit(a, b).a \in MinSize .. MaxSize
         /\ Fit(a, b).b \in MinSize .. MaxSize
<1>1. /\ b * MinSize \in Nat /\ b * MinSize < Half
      /\ b * MaxSize \in Nat /\ b * MaxSize < Half
  <2>1. b * MinSize <= b * MaxSize /\ b * MaxSize <= MaxSize * MaxSize
    OBVIOUS
  <2>2. MaxSize * MaxSize < Half
    BY DEF SaneSizes
  <2>. QED  BY <2>1, <2>2, HalfFacts
<1>2. CASE a < MinSize
  <2>1. Fit(a, b).b = IF (b * MinSize) \div a > MaxSize THEN MaxSize
                      ELSE (b * MinSize) \div a
    <3>1. Fit(a, b) = [a |-> MinSize,
                       b |-> IF CDiv(IntWrap(b * MinSize), a) > MaxSize THEN MaxSize
                             ELSE CDiv(IntWrap(b * MinSize), a)]
      BY <1>2 DEF Fit
    <3>2. CDiv(IntWrap(b * MinSize), a) = (b * MinSize) \div a
      BY <1>1, WrapInRange, CDivNat
    <3>. QED  BY <3>1, <3>2
  <2>2. b <= (b * MinSize) \div a
    <3>1. b * a <= b * MinSize
      BY <1>2
    <3>. QED  BY <1>1, <3>1, DivLower
  <2>. QED  BY <1>2, <2>1, <2>2 DEF Fit
<1>3. CASE a > MaxSize
  <2>1. Fit(a, b).b = IF (b * MaxSize) \div a < MinSize THEN MinSize
                      ELSE (b * MaxSize) \div a
    <3>1. Fit(a, b) = [a |-> MaxSize,
                       b |-> IF CDiv(IntWrap(b * MaxSize), a) < MinSize THEN MinSize
                             ELSE CDiv(IntWrap(b * MaxSize), a)]
      BY <1>3 DEF Fit
    <3>2. CDiv(IntWrap(b * MaxSize), a) = (b * MaxSize) \div a
      BY <1>1, WrapInRange, CDivNat
    <3>. QED  BY <3>1, <3>2
  <2>2. (b * MaxSize) \div a <= b
    <3>1. b * MaxSize <= b * a
      BY <1>3
    <3>. QED  BY <1>1, <3>1, DivUpper
  <2>. QED  BY <1>3, <2>1, <2>2 DEF Fit
<1>4. CASE a \in MinSize .. MaxSize
  BY <1>4 DEF Fit
<1>. QED  BY <1>2, <1>3, <1>4

(* Making a width in bounds even keeps it in bounds when MinSize is even.  *)
LEMMA MakeEvenInBounds ==
  ASSUME SaneSizes, NEW w \in MinSize .. MaxSize
  PROVE  MakeEven(w) \in MinSize .. MaxSize /\ MakeEven(w) % 2 = 0
BY DEF SaneSizes, MakeEven

(* RequestedInBounds is inductive once the count of requests is a number.  *)
IInv == resizes \in Nat /\ RequestedInBounds

LEMMA InitIInv == Init => IInv
BY DEF Init, IInv, RequestedInBounds

LEMMA SetSizeIInv ==
  ASSUME SaneSizes, IInv, NEW w \in Dims, NEW h \in Dims, SetSize(w, h)
  PROVE  IInv'
<1> DEFINE f1 == Fit(w, h)
           f2 == Fit(f1.b, f1.a)
<1>1. f1.a \in MinSize .. MaxSize /\ f1.b \in Nat \ {0}
  BY FirstFit
<1>2. f2.a \in MinSize .. MaxSize /\ f2.b \in MinSize .. MaxSize
  BY <1>1, SecondFit
<1>3. MakeEven(f2.b) \in MinSize .. MaxSize /\ MakeEven(f2.b) % 2 = 0
  BY <1>2, MakeEvenInBounds
<1>4. w # 0 /\ f1.b # 0
  BY <1>1 DEF SaneSizes
<1>5. /\ crashed' = crashed
      /\ requested_width' = MakeEven(f2.b)
      /\ requested_height' = f2.a
      /\ resizes' = resizes + 1
  BY <1>4 DEF SetSize
<1>. QED  BY <1>3, <1>2, <1>5 DEF IInv, RequestedInBounds, InBounds

LEMMA NextIInv ==
  ASSUME SaneSizes
  PROVE  IInv /\ [Next]_vars => IInv'
<1>. SUFFICES ASSUME IInv, [Next]_vars PROVE IInv'
  OBVIOUS
<1>1. CASE \E w, h \in Dims : SetSize(w, h)
  BY <1>1, SetSizeIInv
<1>2. CASE UpdateSize
  BY <1>2 DEF UpdateSize, IInv, RequestedInBounds
<1>3. CASE Connect
  BY <1>3 DEF Connect, IInv, RequestedInBounds
<1>4. CASE ServerApply
  BY <1>4 DEF ServerApply, IInv, RequestedInBounds
<1>5. CASE Tick
  BY <1>5 DEF Tick, IInv, RequestedInBounds
<1>6. CASE UNCHANGED vars
  BY <1>6 DEF vars, IInv, RequestedInBounds
<1>. QED  BY <1>1, <1>2, <1>3, <1>4, <1>5, <1>6 DEF Next

(***************************************************************************)
(* For every pair of bounds, interval and int width, and every sequence of *)
(* size requests with positive dimensions whose products with the bounds   *)
(* fit in int, set_size never divides by zero and the stored request is a  *)
(* valid display size: both dimensions in [MinSize, MaxSize] and the width *)
(* even, whatever the aspect ratio (rdp_disp.c lines 80-131).              *)
(***************************************************************************)
THEOREM RequestedInBoundsHolds ==
  ASSUME SaneSizes
  PROVE  Spec => []RequestedInBounds
<1>1. IInv => RequestedInBounds
  BY DEF IInv
<1>2. IInv /\ [Next]_vars => IInv'
  BY NextIInv
<1>. QED  BY <1>1, <1>2, InitIInv, PTL DEF Spec

=============================================================================
