--------------------------- MODULE TruncateProofs ---------------------------
(***************************************************************************)
(* Proofs about Truncate: a text of any length, cut to any limit, fits and *)
(* is balanced.                                                             *)
(*                                                                         *)
(* Visible, VisibleLen and Nesting are recursive functions over the units  *)
(* of a text.  What they yield for a text that is one unit longer is shown *)
(* once for each; inductions take the least element of a set of numbers.   *)
(***************************************************************************)
EXTENDS Truncate, WellFoundedInduction, TLAPS

-----------------------------------------------------------------------------
(* Recursive functions.                                                    *)

\* A set of numbers that is not empty has a least one.
LEMMA Least ==
  ASSUME NEW T, T \subseteq Nat, T # {}
  PROVE  \E x \in T : \A y \in T : x <= y
<1> DEFINE R == OpToRel(<, Nat)
<1>1. IsWellFoundedOn(R, Nat)
  BY NatLessThanWellFounded
<1> HIDE DEF R
<1>2. PICK x \in T : \A y \in T : <<y, x>> \notin R
  BY <1>1, WFMin
<1>3. \A y \in T : y < x => <<y, x>> \in R
  BY DEF R, OpToRel
<1>4. \A y \in T : ~(y < x)
  BY <1>2, <1>3, Zenon
<1> QED BY <1>4

\* What holds of 0 and is handed on by every number holds up to len.
LEMMA UpTo ==
  ASSUME NEW len \in Nat, NEW T \in SUBSET (0 .. len), 0 \in T,
         \A k \in 1 .. len : k - 1 \in T => k \in T
  PROVE  T = 0 .. len
<1> DEFINE U == (0 .. len) \ T
<1>1. SUFFICES ASSUME U # {} PROVE FALSE
  OBVIOUS
<1>2. PICK x \in U : \A y \in U : x <= y
  <2>1. U \subseteq Nat
    OBVIOUS
  <2> HIDE DEF U
  <2> QED BY <1>1, <2>1, Least
<1>3. x \in 1 .. len /\ x - 1 \in 0 .. len
  OBVIOUS
<1>4. x - 1 \notin U
  BY <1>2, <1>3
<1> QED BY <1>2, <1>3, <1>4

\* A function that takes a step from each value to the next.
Steps(f, len, base, step) ==
  f[0] = base /\ \A k \in 1 .. len : f[k] = step[<<k, f[k - 1]>>]

LEMMA StepsExist ==
  ASSUME NEW len \in Nat, NEW A, NEW base \in A, NEW step \in [(1 .. len) \X A -> A]
  PROVE  \E f \in [0 .. len -> A] : Steps(f, len, base, step)
<1> DEFINE T == {m \in 0 .. len : \E f \in [0 .. m -> A] : Steps(f, m, base, step)}
<1>1. 0 \in T
  <2> DEFINE f == [k \in 0 .. 0 |-> base]
  <2>1. f \in [0 .. 0 -> A] /\ Steps(f, 0, base, step)
    BY DEF Steps
  <2> QED BY <2>1
<1>2. ASSUME NEW m \in 1 .. len, m - 1 \in T PROVE m \in T
  <2>1. PICK f \in [0 .. m - 1 -> A] : Steps(f, m - 1, base, step)
    BY <1>2
  <2> DEFINE next == step[<<m, f[m - 1]>>]
             g == [k \in 0 .. m |-> IF k = m THEN next ELSE f[k]]
  <2>2. next \in A
    <3>1. m - 1 \in 0 .. m - 1
      OBVIOUS
    <3>2. f[m - 1] \in A
      BY <3>1
    <3> QED BY <3>2
  <2>3. g \in [0 .. m -> A] /\ g[m] = next /\ \A k \in 0 .. m - 1 : g[k] = f[k]
    <3> HIDE DEF next
    <3> QED BY <2>2
  <2>4. ASSUME NEW k \in 1 .. m PROVE g[k] = step[<<k, g[k - 1]>>]
    <3>1. k - 1 \in 0 .. m - 1
      OBVIOUS
    <3>2. g[k - 1] = f[k - 1]
      BY <2>3, <3>1
    <3>3. CASE k = m
      <4> HIDE DEF g
      <4> QED BY <2>3, <3>2, <3>3
    <3>4. CASE k # m
      <4>1. k \in 1 .. m - 1 /\ k \in 0 .. m - 1
        BY <3>4
      <4>2. f[k] = step[<<k, f[k - 1]>>]
        BY <2>1, <4>1 DEF Steps
      <4> HIDE DEF g
      <4> QED BY <2>3, <3>2, <4>1, <4>2
    <3> QED BY <3>3, <3>4
  <2>5. g[0] = base
    <3>1. 0 \in 0 .. m - 1
      OBVIOUS
    <3> QED BY <2>1, <2>3, <3>1 DEF Steps
  <2> HIDE DEF g
  <2>6. Steps(g, m, base, step)
    BY <2>4, <2>5 DEF Steps
  <2> QED BY <2>3, <2>6
<1>3. T = 0 .. len
  <2> HIDE DEF T
  <2>1. T \subseteq 0 .. len
    BY DEF T
  <2> QED BY <1>1, <1>2, <2>1, UpTo
<1> QED BY <1>3

\* Two functions that start alike and take the same steps end alike.
LEMMA SameEnd ==
  ASSUME NEW len \in Nat, NEW f, NEW g, f[0] = g[0],
         \A k \in 1 .. len : f[k - 1] = g[k - 1] => f[k] = g[k]
  PROVE  f[len] = g[len]
<1> DEFINE T == {k \in 0 .. len : f[k] = g[k]}
<1>1. 0 \in T
  OBVIOUS
<1>2. \A k \in 1 .. len : k - 1 \in T => k \in T
  OBVIOUS
<1>3. T = 0 .. len
  <2> HIDE DEF T
  <2>1. T \subseteq 0 .. len
    BY DEF T
  <2> QED BY <1>1, <1>2, <2>1, UpTo
<1> QED BY <1>3

-----------------------------------------------------------------------------
(* Units.                                                                  *)

Units == {"x", "W", "&", "l", "t", ";", "<", ">", Ellipsis} \cup Tags

LEMMA UnitsApart ==
  /\ Ellipsis \in Units /\ Ellipsis \notin Tags /\ "<" \notin Tags
  /\ OpenTags \subseteq Tags /\ CloseTags \subseteq Tags /\ Tags \subseteq Units
  /\ OpenTags \cap CloseTags = {} /\ "?" \notin Tags
  /\ \A t \in OpenTags : CloseTag(t) \in CloseTags
  /\ \A u : Width(u) \in 1 .. 2
  /\ Width(Ellipsis) = 1
<1>1. CloseTags = {"</b>", "</i>"}
  BY DEF CloseTags, CloseTag, OpenTags
<1>2. Tags = {"<b>", "<i>", "</b>", "</i>"}
  BY <1>1 DEF Tags, OpenTags
<1>3. \A t \in OpenTags : CloseTag(t) \in CloseTags
  BY DEF CloseTags
<1>4. \A u : Width(u) \in 1 .. 2
  BY DEF Width
<1> QED BY <1>1, <1>2, <1>3, <1>4 DEF Units, OpenTags, Ellipsis, Width

\* The first units of a text, one more at a time.
LEMMA FirstUnits ==
  ASSUME NEW S, NEW s \in Seq(S)
  PROVE  /\ SubSeq(s, 1, 0) = <<>>
         /\ SubSeq(s, 1, Len(s)) = s
         /\ \A k \in 0 .. Len(s) :
              SubSeq(s, 1, k) \in Seq(S) /\ Len(SubSeq(s, 1, k)) = k
         /\ \A k \in 1 .. Len(s) :
              SubSeq(s, 1, k) = Append(SubSeq(s, 1, k - 1), s[k])
OBVIOUS

-----------------------------------------------------------------------------
(* What is visible of a text.                                              *)

\* What is left of a text when a unit is added.
Keep(v, u) == IF u \in Tags THEN v ELSE Append(v, u)

Keeps(g, s) == g[0] = <<>> /\ \A k \in 1 .. Len(s) : g[k] = Keep(g[k - 1], s[k])

LEMMA VisibleIs ==
  ASSUME NEW s \in Seq(Units), NEW g, Keeps(g, s)
  PROVE  Visible(s) = g[Len(s)]
<1> DEFINE Rec(f) == f = [k \in 0 .. Len(s) |->
                           IF k = 0 THEN <<>>
                           ELSE IF s[k] \in Tags THEN f[k - 1] ELSE Append(f[k - 1], s[k])]
           kept == CHOOSE f : Rec(f)
<1>0. Len(s) \in Nat
  OBVIOUS
<1>1. Rec(kept)
  <2> DEFINE f == [k \in 0 .. Len(s) |-> g[k]]
  <2>1. \A k \in 0 .. Len(s) :
          f[k] = IF k = 0 THEN <<>>
                 ELSE IF s[k] \in Tags THEN f[k - 1] ELSE Append(f[k - 1], s[k])
    <3>1. \A k \in 0 .. Len(s) : f[k] = g[k]
      OBVIOUS
    <3>2. \A k \in 0 .. Len(s) : k # 0 => k - 1 \in 0 .. Len(s) /\ k \in 1 .. Len(s)
      BY <1>0
    <3> HIDE DEF f
    <3> QED BY <3>1, <3>2 DEF Keeps, Keep
  <2>2. f = [k \in 0 .. Len(s) |-> f[k]]
    OBVIOUS
  <2>3. Rec(f)
    <3> HIDE DEF f
    <3> QED BY <2>1, <2>2
  <2> HIDE DEF f, Rec
  <2> QED BY <2>3
<1>2. Visible(s) = kept[Len(s)]
  BY DEF Visible
<1> HIDE DEF kept
<1>3. \A k \in 0 .. Len(s) :
        kept[k] = IF k = 0 THEN <<>>
                  ELSE IF s[k] \in Tags THEN kept[k - 1] ELSE Append(kept[k - 1], s[k])
  BY <1>1
<1> HIDE DEF Rec
<1>4. \A k \in 1 .. Len(s) : kept[k] = Keep(kept[k - 1], s[k])
  BY <1>0, <1>3 DEF Keep
<1>5. kept[Len(s)] = g[Len(s)]
  <2>1. kept[0] = g[0]
    BY <1>0, <1>3 DEF Keeps
  <2>2. \A k \in 1 .. Len(s) : kept[k - 1] = g[k - 1] => kept[k] = g[k]
    BY <1>4 DEF Keeps
  <2> QED BY <1>0, <2>1, <2>2, SameEnd
<1> QED BY <1>2, <1>5

LEMMA KeepsExist ==
  ASSUME NEW s \in Seq(Units)
  PROVE  \E g \in [0 .. Len(s) -> Seq(Units)] : Keeps(g, s)
<1> DEFINE len == Len(s)
           A == Seq(Units)
           step == [p \in (1 .. len) \X A |-> Keep(p[2], s[p[1]])]
<1>1. len \in Nat
  OBVIOUS
<1>2. <<>> \in A
  OBVIOUS
<1>3. ASSUME NEW k \in 1 .. len, NEW v \in A
      PROVE  Keep(v, s[k]) \in A /\ step[<<k, v>>] = Keep(v, s[k])
  BY DEF Keep
<1>4. step \in [(1 .. len) \X A -> A]
  BY <1>3 DEF Keep
<1>5. \E g \in [0 .. len -> A] : Steps(g, len, <<>>, step)
  <2> HIDE DEF len, A, step
  <2> QED BY <1>1, <1>2, <1>4, StepsExist, ZenonT(40)
<1>6. PICK g \in [0 .. len -> A] : Steps(g, len, <<>>, step)
  BY <1>5
<1>7. ASSUME NEW k \in 1 .. len PROVE g[k] = Keep(g[k - 1], s[k])
  <2>1. k - 1 \in 0 .. len
    BY <1>1
  <2>2. g[k - 1] \in A
    BY <1>6, <2>1
  <2> HIDE DEF step, A, len
  <2> QED BY <1>3, <1>6, <2>2 DEF Steps
<1> QED BY <1>6, <1>7 DEF Keeps, Steps

\* What is visible of a text with one more unit.
LEMMA VisibleAppend ==
  ASSUME NEW s \in Seq(Units), NEW u \in Units
  PROVE  /\ Visible(s) \in Seq(Units)
         /\ Visible(Append(s, u)) = Keep(Visible(s), u)
<1>1. PICK g \in [0 .. Len(s) -> Seq(Units)] : Keeps(g, s)
  BY KeepsExist
<1>2. Visible(s) = g[Len(s)]
  BY <1>1, VisibleIs
<1> DEFINE t == Append(s, u)
           h == [k \in 0 .. Len(t) |-> IF k = Len(t) THEN Keep(g[Len(s)], u) ELSE g[k]]
<1>3. t \in Seq(Units) /\ Len(s) \in Nat /\ Len(t) = Len(s) + 1 /\ t[Len(t)] = u
      /\ \A k \in 1 .. Len(s) : t[k] = s[k]
  OBVIOUS
<1> HIDE DEF t
<1>4. h[Len(t)] = Keep(g[Len(s)], u) /\ \A k \in 0 .. Len(s) : h[k] = g[k]
  BY <1>3
<1> HIDE DEF h
<1>5. Keeps(h, t)
  <2>1. h[0] = <<>>
    BY <1>1, <1>3, <1>4 DEF Keeps
  <2>2. ASSUME NEW k \in 1 .. Len(t) PROVE h[k] = Keep(h[k - 1], t[k])
    <3>1. k - 1 \in 0 .. Len(s)
      BY <1>3
    <3>2. CASE k = Len(t)
      BY <1>3, <1>4, <3>1, <3>2
    <3>3. CASE k # Len(t)
      <4>1. k \in 1 .. Len(s) /\ k \in 0 .. Len(s)
        BY <1>3, <3>3
      <4> QED BY <1>1, <1>3, <1>4, <3>1, <4>1 DEF Keeps
    <3> QED BY <3>2, <3>3
  <2> QED BY <2>1, <2>2 DEF Keeps
<1>6. Visible(t) = h[Len(t)]
  BY <1>3, <1>5, VisibleIs
<1>7. g[Len(s)] \in Seq(Units)
  BY <1>1, <1>3
<1> QED BY <1>2, <1>4, <1>6, <1>7 DEF t

LEMMA VisibleNone == Visible(<<>>) = <<>>
<1> DEFINE g == [k \in 0 .. 0 |-> <<>>]
<1>1. Len(<<>>) = 0 /\ <<>> \in Seq(Units) /\ g[0] = <<>>
  OBVIOUS
<1> HIDE DEF g
<1>2. Keeps(g, <<>>)
  BY <1>1 DEF Keeps
<1> QED BY <1>1, <1>2, VisibleIs, Zenon

\* Tags after a text change nothing of what is visible.
LEMMA TagsInvisible ==
  ASSUME NEW s \in Seq(Units), NEW t \in Seq(Tags)
  PROVE  s \o t \in Seq(Units) /\ Visible(s \o t) = Visible(s)
<1> DEFINE upto(k) == s \o SubSeq(t, 1, k)
           T == {k \in 0 .. Len(t) : Visible(upto(k)) = Visible(s)}
<1>0. Len(t) \in Nat /\ upto(0) = s /\ upto(Len(t)) = s \o t
  OBVIOUS
<1>1. ASSUME NEW k \in 1 .. Len(t)
      PROVE  /\ upto(k - 1) \in Seq(Units) /\ t[k] \in Tags /\ t[k] \in Units
             /\ upto(k) = Append(upto(k - 1), t[k])
  <2>1. t[k] \in Tags /\ t[k] \in Units
    BY UnitsApart
  <2>2. t \in Seq(Units)
    BY UnitsApart
  <2> QED BY <2>1, <2>2
<1> HIDE DEF upto
<1>2. 0 \in T
  BY <1>0
<1>3. ASSUME NEW k \in 1 .. Len(t), k - 1 \in T PROVE k \in T
  <2>1. Visible(upto(k)) = Keep(Visible(upto(k - 1)), t[k])
    BY <1>1, VisibleAppend
  <2>2. k \in 0 .. Len(t)
    BY <1>0
  <2> QED BY <1>1, <1>3, <2>1, <2>2 DEF Keep
<1>4. T = 0 .. Len(t)
  <2> HIDE DEF T
  <2>1. T \subseteq 0 .. Len(t)
    BY DEF T
  <2> QED BY <1>0, <1>2, <1>3, <2>1, UpTo
<1>5. Len(t) \in T
  <2> HIDE DEF T
  <2> QED BY <1>0, <1>4
<1>6. s \o t \in Seq(Units)
  BY UnitsApart
<1> QED BY <1>0, <1>5, <1>6

-----------------------------------------------------------------------------
(* The length that counts against a limit.                                 *)

Adds(g, v) ==
  g[0] = 0 /\ \A k \in 1 .. Len(v) : g[k] = g[k - 1] + Width(v[k]) + LengthWhere(v, k)

LEMMA LengthIs ==
  ASSUME NEW s, NEW v \in Seq(Units), v = Visible(s), NEW g, Adds(g, v)
  PROVE  VisibleLen(s) = g[Len(v)]
<1> DEFINE Rec(f) == f = [k \in 0 .. Len(v) |->
                           IF k = 0 THEN 0
                           ELSE f[k - 1] + Width(v[k]) + LengthWhere(v, k)]
           sum == CHOOSE f : Rec(f)
<1>0. Len(v) \in Nat
  OBVIOUS
<1>1. Rec(sum)
  <2> DEFINE f == [k \in 0 .. Len(v) |-> g[k]]
  <2>1. \A k \in 0 .. Len(v) :
          f[k] = IF k = 0 THEN 0
                 ELSE f[k - 1] + Width(v[k]) + LengthWhere(v, k)
    <3>1. \A k \in 0 .. Len(v) : f[k] = g[k]
      OBVIOUS
    <3>2. \A k \in 0 .. Len(v) : k # 0 => k - 1 \in 0 .. Len(v) /\ k \in 1 .. Len(v)
      BY <1>0
    <3> HIDE DEF f
    <3> QED BY <3>1, <3>2 DEF Adds
  <2>2. f = [k \in 0 .. Len(v) |-> f[k]]
    OBVIOUS
  <2>3. Rec(f)
    <3> HIDE DEF f
    <3> QED BY <2>1, <2>2
  <2> HIDE DEF f, Rec
  <2> QED BY <2>3
<1>2. VisibleLen(s) = sum[Len(v)]
  BY DEF VisibleLen
<1> HIDE DEF sum
<1>3. \A k \in 0 .. Len(v) :
        sum[k] = IF k = 0 THEN 0
                 ELSE sum[k - 1] + Width(v[k]) + LengthWhere(v, k)
  BY <1>1
<1> HIDE DEF Rec
<1>4. \A k \in 1 .. Len(v) : sum[k] = sum[k - 1] + Width(v[k]) + LengthWhere(v, k)
  BY <1>0, <1>3
<1>5. sum[Len(v)] = g[Len(v)]
  <2>1. sum[0] = g[0]
    BY <1>0, <1>3 DEF Adds
  <2>2. \A k \in 1 .. Len(v) : sum[k - 1] = g[k - 1] => sum[k] = g[k]
    BY <1>4 DEF Adds
  <2> QED BY <1>0, <2>1, <2>2, SameEnd
<1> QED BY <1>2, <1>5

LEMMA EntityShortens == \A v, k : LengthWhere(v, k) \in -3 .. 0
BY DEF LengthWhere

LEMMA AddsExist ==
  ASSUME NEW v \in Seq(Units)
  PROVE  \E g \in [0 .. Len(v) -> Int] : Adds(g, v)
<1> DEFINE len == Len(v)
           step == [p \in (1 .. len) \X Int |-> p[2] + Width(v[p[1]]) + LengthWhere(v, p[1])]
<1>1. len \in Nat
  OBVIOUS
<1>2. ASSUME NEW k \in 1 .. len, NEW a \in Int
      PROVE  /\ a + Width(v[k]) + LengthWhere(v, k) \in Int
             /\ step[<<k, a>>] = a + Width(v[k]) + LengthWhere(v, k)
  <2>1. Width(v[k]) \in Int /\ LengthWhere(v, k) \in Int
    BY UnitsApart, EntityShortens
  <2> QED BY <2>1
<1>3. step \in [(1 .. len) \X Int -> Int]
  <2>1. \A p \in (1 .. len) \X Int : Width(v[p[1]]) \in Int /\ LengthWhere(v, p[1]) \in Int
    BY UnitsApart, EntityShortens
  <2> QED BY <2>1
<1>4. PICK g \in [0 .. len -> Int] : Steps(g, len, 0, step)
  <2> HIDE DEF len, step
  <2> QED BY <1>1, <1>3, StepsExist, 0 \in Int, ZenonT(40)
<1>5. ASSUME NEW k \in 1 .. len
      PROVE  g[k] = g[k - 1] + Width(v[k]) + LengthWhere(v, k)
  <2>1. k - 1 \in 0 .. len
    BY <1>1
  <2>2. g[k - 1] \in Int
    BY <1>4, <2>1
  <2> HIDE DEF step, len
  <2> QED BY <1>2, <1>4, <2>2 DEF Steps
<1> QED BY <1>4, <1>5 DEF Adds, Steps

\* The units of v are m wide together, each counted as the loop counts it.
Weighs(v, m) ==
  \E f \in [0 .. Len(v) -> Int] :
    /\ f[0] = 0
    /\ \A k \in 1 .. Len(v) : f[k] = f[k - 1] + Width(v[k])
    /\ f[Len(v)] = m

LEMMA NothingWeighs == Weighs(<<>>, 0)
<1> DEFINE f == [k \in 0 .. 0 |-> 0]
<1>1. f \in [0 .. 0 -> Int] /\ f[0] = 0 /\ Len(<<>>) = 0
  OBVIOUS
<1> HIDE DEF f
<1> QED BY <1>1 DEF Weighs

LEMMA AppendWeighs ==
  ASSUME NEW v \in Seq(Units), NEW u \in Units, NEW m \in Int, Weighs(v, m)
  PROVE  Weighs(Append(v, u), m + Width(u))
<1>1. PICK f \in [0 .. Len(v) -> Int] :
        /\ f[0] = 0
        /\ \A k \in 1 .. Len(v) : f[k] = f[k - 1] + Width(v[k])
        /\ f[Len(v)] = m
  BY DEF Weighs
<1> DEFINE t == Append(v, u)
           w == m + Width(u)
           h == [k \in 0 .. Len(t) |-> IF k = Len(t) THEN w ELSE f[k]]
<1>2. Len(v) \in Nat /\ Len(t) = Len(v) + 1 /\ t[Len(t)] = u
      /\ \A k \in 1 .. Len(v) : t[k] = v[k]
  OBVIOUS
<1>3. w \in Int
  BY UnitsApart
<1> HIDE DEF t
<1>4. /\ h \in [0 .. Len(t) -> Int]
      /\ h[Len(t)] = w
      /\ \A k \in 0 .. Len(v) : h[k] = f[k]
  <2> HIDE DEF w
  <2> QED BY <1>2, <1>3
<1> HIDE DEF h
<1>5. h[0] = 0
  BY <1>1, <1>2, <1>4
<1>6. ASSUME NEW k \in 1 .. Len(t) PROVE h[k] = h[k - 1] + Width(t[k])
  <2>1. k - 1 \in 0 .. Len(v)
    BY <1>2
  <2>2. CASE k = Len(t)
    <3>1. k - 1 = Len(v)
      BY <1>2, <2>2
    <3> QED BY <1>1, <1>2, <1>4, <2>1, <2>2, <3>1
  <2>3. CASE k # Len(t)
    <3>1. k \in 1 .. Len(v) /\ k \in 0 .. Len(v)
      BY <1>2, <2>3
    <3> QED BY <1>1, <1>2, <1>4, <2>1, <3>1
  <2> QED BY <2>2, <2>3
<1>7. Weighs(t, w)
  <2> HIDE DEF w
  <2> QED BY <1>4, <1>5, <1>6 DEF Weighs
<1> QED BY <1>7 DEF t

\* An entity only makes a text shorter than what the loop counts.
LEMMA NoLongerThanItWeighs ==
  ASSUME NEW s, Visible(s) \in Seq(Units), NEW m \in Int, Weighs(Visible(s), m)
  PROVE  VisibleLen(s) \in Int /\ VisibleLen(s) <= m
<1> DEFINE v == Visible(s)
<1>0. v \in Seq(Units) /\ Len(v) \in Nat /\ v = Visible(s)
  OBVIOUS
<1> HIDE DEF v
<1>1. PICK f \in [0 .. Len(v) -> Int] :
        /\ f[0] = 0
        /\ \A k \in 1 .. Len(v) : f[k] = f[k - 1] + Width(v[k])
        /\ f[Len(v)] = m
  BY <1>0 DEF Weighs
<1>2. PICK g \in [0 .. Len(v) -> Int] : Adds(g, v)
  BY <1>0, AddsExist
<1>3. VisibleLen(s) = g[Len(v)]
  BY <1>0, <1>2, LengthIs
<1> DEFINE T == {k \in 0 .. Len(v) : g[k] <= f[k]}
<1>4. 0 \in T
  BY <1>0, <1>1, <1>2 DEF Adds
<1>5. ASSUME NEW k \in 1 .. Len(v), k - 1 \in T PROVE k \in T
  <2>1. k \in 0 .. Len(v) /\ k - 1 \in 0 .. Len(v)
    BY <1>0
  <2>2. f[k] \in Int /\ f[k - 1] \in Int /\ g[k] \in Int /\ g[k - 1] \in Int
    BY <1>1, <1>2, <2>1
  <2>3. Width(v[k]) \in Int /\ LengthWhere(v, k) \in Int /\ LengthWhere(v, k) <= 0
    BY UnitsApart, EntityShortens
  <2>4. f[k] = f[k - 1] + Width(v[k])
        /\ g[k] = g[k - 1] + Width(v[k]) + LengthWhere(v, k)
    BY <1>1, <1>2 DEF Adds
  <2>5. g[k - 1] <= f[k - 1]
    BY <1>5
  <2> QED BY <2>1, <2>2, <2>3, <2>4, <2>5
<1>6. Len(v) \in T
  <2> HIDE DEF T
  <2>1. T \subseteq 0 .. Len(v)
    BY DEF T
  <2>2. T = 0 .. Len(v)
    BY <1>0, <1>4, <1>5, <2>1, UpTo
  <2> QED BY <1>0, <2>2
<1>7. g[Len(v)] \in Int
  BY <1>0, <1>2
<1> QED BY <1>1, <1>3, <1>6, <1>7

\* A text at most as wide as the loop counted fits.
AtMost(s, m) == \E w \in Int : w <= m /\ Weighs(Visible(s), w)

LEMMA AtMostFits ==
  ASSUME NEW s \in Seq(Units), NEW m \in Int, AtMost(s, m)
  PROVE  VisibleLen(s) \in Int /\ VisibleLen(s) <= m
<1>1. PICK w \in Int : w <= m /\ Weighs(Visible(s), w)
  BY DEF AtMost
<1>2. Visible(s) \in Seq(Units)
  <2>1. Ellipsis \in Units
    BY UnitsApart
  <2> QED BY <2>1, VisibleAppend
<1>3. VisibleLen(s) \in Int /\ VisibleLen(s) <= w
  BY <1>1, <1>2, NoLongerThanItWeighs
<1> QED BY <1>1, <1>3

LEMMA EmptyAtMost == AtMost(<<>>, 0)
BY VisibleNone, NothingWeighs DEF AtMost

\* A tag adds nothing, any other unit its width.
LEMMA AppendAtMost ==
  ASSUME NEW s \in Seq(Units), NEW u \in Units, NEW m \in Int, AtMost(s, m)
  PROVE  /\ u \in Tags => AtMost(Append(s, u), m)
         /\ u \notin Tags => AtMost(Append(s, u), m + Width(u))
<1>1. PICK w \in Int : w <= m /\ Weighs(Visible(s), w)
  BY DEF AtMost
<1>2. Visible(s) \in Seq(Units) /\ Visible(Append(s, u)) = Keep(Visible(s), u)
  BY VisibleAppend
<1>3. CASE u \in Tags
  BY <1>1, <1>2, <1>3 DEF Keep, AtMost
<1>4. CASE u \notin Tags
  <2>1. Weighs(Visible(Append(s, u)), w + Width(u))
    BY <1>1, <1>2, <1>4, AppendWeighs DEF Keep
  <2>2. Width(u) \in Int
    BY UnitsApart
  <2>3. w + Width(u) \in Int /\ w + Width(u) <= m + Width(u)
    BY <1>1, <2>2
  <2> QED BY <1>4, <2>1, <2>3 DEF AtMost
<1> QED BY <1>3, <1>4

-----------------------------------------------------------------------------
(* The open tags of a text.                                                *)

Marks == Tags \cup {"?"}

Nests(g, s) == g[0] = <<>> /\ \A k \in 1 .. Len(s) : g[k] = Nest(g[k - 1], s[k])

LEMMA LastAndFront ==
  ASSUME NEW S, NEW s \in Seq(S), s # <<>>
  PROVE  /\ Last(s) = s[Len(s)] /\ Last(s) \in S
         /\ Front(s) = SubSeq(s, 1, Len(s) - 1)
         /\ Front(s) \in Seq(S)
BY DEF Last, Front

LEMMA AppendContains ==
  ASSUME NEW S, NEW s \in Seq(S), NEW x
  PROVE  Contains(Append(s, x), x)
<1> DEFINE t == Append(s, x)
<1>1. Len(t) \in 1 .. Len(t) /\ t[Len(t)] = x
  OBVIOUS
<1> HIDE DEF t
<1>2. Contains(t, x)
  BY <1>1 DEF Contains
<1> QED BY <1>2 DEF t

\* The cases of Nest exclude each other.
LEMMA NestCases ==
  ASSUME NEW open, NEW u
  PROVE  /\ u \notin Tags => Nest(open, u) = open
         /\ u \in OpenTags => Nest(open, u) = Append(open, u)
         /\ u \in Tags /\ u \notin OpenTags /\ Closes(u, open) =>
              Nest(open, u) = Front(open)
         /\ u \in Tags /\ u \notin OpenTags /\ ~Closes(u, open) =>
              Nest(open, u) = Append(open, "?")
<1>1. u \in OpenTags => u \in Tags
  BY UnitsApart
<1>2. Closes(u, open) => u \in Tags /\ u \notin OpenTags
  BY UnitsApart DEF Closes
<1> QED BY <1>1, <1>2, Zenon DEF Nest

LEMMA NestIsMarked ==
  ASSUME NEW open \in Seq(Marks), NEW u
  PROVE  /\ Nest(open, u) \in Seq(Marks)
         /\ Contains(open, "?") => Contains(Nest(open, u), "?")
<1>0. "?" \in Marks /\ (u \in OpenTags => u \in Marks)
  BY UnitsApart DEF Marks
<1>1. CASE u \notin Tags
  <2>1. Nest(open, u) = open
    BY <1>1, NestCases
  <2> QED BY <2>1
<1>2. CASE u \in OpenTags
  <2>1. Nest(open, u) = Append(open, u)
    BY <1>2, NestCases
  <2> QED BY <1>0, <1>2, <2>1 DEF Contains
<1>3. CASE u \in Tags /\ u \notin OpenTags /\ Closes(u, open)
  <2>1. Nest(open, u) = Front(open) /\ open # <<>> /\ Last(open) \in OpenTags
    BY <1>3, NestCases DEF Closes
  <2>2. Last(open) # "?"
    BY <2>1, UnitsApart
  <2>3. Front(open) \in Seq(Marks) /\ Front(open) = SubSeq(open, 1, Len(open) - 1)
        /\ open[Len(open)] # "?"
    BY <2>1, <2>2, LastAndFront
  <2>4. ASSUME NEW k \in 1 .. Len(open), open[k] = "?"
        PROVE  k \in 1 .. Len(Front(open)) /\ Front(open)[k] = "?"
    BY <2>3, <2>4
  <2> QED BY <2>1, <2>3, <2>4 DEF Contains
<1>4. CASE u \in Tags /\ u \notin OpenTags /\ ~Closes(u, open)
  <2>1. Nest(open, u) = Append(open, "?")
    BY <1>4, NestCases
  <2> QED BY <1>0, <2>1 DEF Contains
<1> QED BY <1>1, <1>2, <1>3, <1>4

LEMMA NestingIs ==
  ASSUME NEW s, Len(s) \in Nat, NEW g, Nests(g, s)
  PROVE  Nesting(s) = g[Len(s)]
<1> DEFINE Rec(f) == f = [k \in 0 .. Len(s) |->
                           IF k = 0 THEN <<>> ELSE Nest(f[k - 1], s[k])]
           after == CHOOSE f : Rec(f)
<1>1. Rec(after)
  <2> DEFINE f == [k \in 0 .. Len(s) |-> g[k]]
  <2>1. \A k \in 0 .. Len(s) : f[k] = IF k = 0 THEN <<>> ELSE Nest(f[k - 1], s[k])
    <3>1. \A k \in 0 .. Len(s) : f[k] = g[k]
      OBVIOUS
    <3>2. \A k \in 0 .. Len(s) : k # 0 => k - 1 \in 0 .. Len(s) /\ k \in 1 .. Len(s)
      OBVIOUS
    <3> HIDE DEF f
    <3> QED BY <3>1, <3>2 DEF Nests
  <2>2. f = [k \in 0 .. Len(s) |-> f[k]]
    OBVIOUS
  <2>3. Rec(f)
    <3> HIDE DEF f
    <3> QED BY <2>1, <2>2
  <2> HIDE DEF f, Rec
  <2> QED BY <2>3
<1>2. Nesting(s) = after[Len(s)]
  BY DEF Nesting
<1> HIDE DEF after
<1>3. \A k \in 0 .. Len(s) :
        after[k] = IF k = 0 THEN <<>> ELSE Nest(after[k - 1], s[k])
  BY <1>1
<1> HIDE DEF Rec
<1>4. \A k \in 1 .. Len(s) : after[k] = Nest(after[k - 1], s[k])
  BY <1>3
<1>5. after[Len(s)] = g[Len(s)]
  <2>1. after[0] = g[0]
    BY <1>3 DEF Nests
  <2>2. \A k \in 1 .. Len(s) : after[k - 1] = g[k - 1] => after[k] = g[k]
    BY <1>4 DEF Nests
  <2> QED BY <2>1, <2>2, SameEnd
<1> QED BY <1>2, <1>5

LEMMA NestsExist ==
  ASSUME NEW s, Len(s) \in Nat
  PROVE  \E g \in [0 .. Len(s) -> Seq(Marks)] : Nests(g, s)
<1> DEFINE len == Len(s)
           A == Seq(Marks)
           step == [p \in (1 .. len) \X A |-> Nest(p[2], s[p[1]])]
<1>1. len \in Nat /\ <<>> \in A
  OBVIOUS
<1>2. ASSUME NEW k \in 1 .. len, NEW v \in A
      PROVE  Nest(v, s[k]) \in A /\ step[<<k, v>>] = Nest(v, s[k])
  BY NestIsMarked
<1>3. step \in [(1 .. len) \X A -> A]
  <2>1. \A p \in (1 .. len) \X A : Nest(p[2], s[p[1]]) \in A
    BY NestIsMarked
  <2> QED BY <2>1
<1>4. PICK g \in [0 .. len -> A] : Steps(g, len, <<>>, step)
  <2> HIDE DEF len, A, step
  <2> QED BY <1>1, <1>3, StepsExist, ZenonT(40)
<1>5. ASSUME NEW k \in 1 .. len PROVE g[k] = Nest(g[k - 1], s[k])
  <2>1. k - 1 \in 0 .. len
    BY <1>1
  <2>2. g[k - 1] \in A
    BY <1>4, <2>1
  <2> HIDE DEF step, A, len
  <2> QED BY <1>2, <1>4, <2>2 DEF Steps
<1> QED BY <1>4, <1>5 DEF Nests, Steps

\* The values on the way are the nestings of the first units.
LEMMA NestingOnTheWay ==
  ASSUME NEW s \in Seq(Units), NEW g, Nests(g, s), NEW k \in 0 .. Len(s)
  PROVE  Nesting(SubSeq(s, 1, k)) = g[k]
<1> DEFINE t == SubSeq(s, 1, k)
<1>1. Len(t) = k /\ Len(t) \in Nat /\ \A m \in 1 .. Len(t) : t[m] = s[m]
  OBVIOUS
<1>2. Len(s) \in Nat
  OBVIOUS
<1> HIDE DEF t
<1>3. Nests(g, t)
  BY <1>1, <1>2 DEF Nests
<1>4. Nesting(t) = g[k]
  BY <1>1, <1>3, NestingIs
<1> QED BY <1>4 DEF t

LEMMA NestingAppend ==
  ASSUME NEW s \in Seq(Units), NEW u \in Units
  PROVE  /\ Nesting(s) \in Seq(Marks)
         /\ Nesting(Append(s, u)) = Nest(Nesting(s), u)
<1> DEFINE t == Append(s, u)
<1>1. t \in Seq(Units) /\ Len(t) \in Nat /\ Len(s) \in Nat /\ Len(t) = Len(s) + 1
      /\ t[Len(t)] = u /\ SubSeq(t, 1, Len(s)) = s /\ SubSeq(t, 1, Len(t)) = t
  OBVIOUS
<1> HIDE DEF t
<1>2. PICK g \in [0 .. Len(t) -> Seq(Marks)] : Nests(g, t)
  BY <1>1, NestsExist
<1>3. Nesting(s) = g[Len(s)] /\ Nesting(t) = g[Len(t)]
  <2>1. Len(s) \in 0 .. Len(t) /\ Len(t) \in 0 .. Len(t)
    BY <1>1
  <2>2. Nesting(SubSeq(t, 1, Len(s))) = g[Len(s)]
        /\ Nesting(SubSeq(t, 1, Len(t))) = g[Len(t)]
    BY <1>1, <1>2, <2>1, NestingOnTheWay
  <2> QED BY <1>1, <2>2
<1>4. g[Len(s)] \in Seq(Marks) /\ g[Len(t)] = Nest(g[Len(s)], u)
  <2>1. Len(s) \in 0 .. Len(t) /\ Len(t) \in 1 .. Len(t) /\ Len(t) - 1 = Len(s)
    BY <1>1
  <2>2. g[Len(t)] = Nest(g[Len(t) - 1], t[Len(t)])
    BY <1>2, <2>1 DEF Nests
  <2> QED BY <1>1, <1>2, <2>1, <2>2
<1> QED BY <1>3, <1>4 DEF t

LEMMA NestingNone == Nesting(<<>>) = <<>>
<1> DEFINE g == [k \in 0 .. 0 |-> <<>>]
<1>1. Len(<<>>) = 0 /\ 0 \in Nat /\ g[0] = <<>>
  OBVIOUS
<1> HIDE DEF g
<1>2. Nests(g, <<>>)
  BY <1>1 DEF Nests
<1> QED BY <1>1, <1>2, NestingIs, Zenon

\* A tag that closed nothing stays on the stack, so what is nested well as a
\* whole is nested well up to any unit.
LEMMA MarkStays ==
  ASSUME NEW s \in Seq(Units), ClosersMatch(s), NEW m \in 0 .. Len(s)
  PROVE  ClosersMatch(SubSeq(s, 1, m))
<1>0. Len(s) \in Nat
  OBVIOUS
<1>1. PICK g \in [0 .. Len(s) -> Seq(Marks)] : Nests(g, s)
  BY <1>0, NestsExist
<1>2. SUFFICES ASSUME Contains(Nesting(SubSeq(s, 1, m)), "?") PROVE FALSE
  BY DEF ClosersMatch
<1>3. Contains(g[m], "?")
  BY <1>1, <1>2, NestingOnTheWay
<1> DEFINE T == {k \in 0 .. Len(s) : k < m \/ Contains(g[k], "?")}
<1>4. 0 \in T
  BY <1>0, <1>3
<1>5. ASSUME NEW k \in 1 .. Len(s), k - 1 \in T PROVE k \in T
  <2>1. k \in 0 .. Len(s) /\ k - 1 \in 0 .. Len(s)
    BY <1>0
  <2>2. CASE k <= m
    BY <1>3, <2>1, <2>2
  <2>3. CASE k > m
    <3>1. ~(k - 1 < m)
      BY <1>0, <2>3
    <3>2. Contains(g[k - 1], "?")
      BY <1>5, <3>1
    <3>3. g[k] = Nest(g[k - 1], s[k]) /\ g[k - 1] \in Seq(Marks)
      BY <1>1, <2>1 DEF Nests
    <3>4. Contains(g[k], "?")
      BY <3>2, <3>3, NestIsMarked
    <3> QED BY <2>1, <3>4
  <2> QED BY <1>0, <2>2, <2>3
<1>6. Len(s) \in T
  <2> HIDE DEF T
  <2>1. T \subseteq 0 .. Len(s)
    BY DEF T
  <2>2. T = 0 .. Len(s)
    BY <1>0, <1>4, <1>5, <2>1, UpTo
  <2> QED BY <1>0, <2>2
<1>7. Contains(g[Len(s)], "?")
  BY <1>0, <1>6
<1>8. Nesting(s) = g[Len(s)]
  BY <1>0, <1>1, NestingIs
<1> QED BY <1>7, <1>8 DEF ClosersMatch

-----------------------------------------------------------------------------
(* Closing the open tags.                                                  *)

ClosersOf(open) == Reverse([k \in DOMAIN open |-> CloseTag(open[k])])

LEMMA ClosersAreTags ==
  ASSUME NEW open \in Seq(OpenTags)
  PROVE  /\ ClosersOf(open) \in Seq(Tags) /\ Len(ClosersOf(open)) = Len(open)
         /\ \A k \in 1 .. Len(open) :
              ClosersOf(open)[k] = CloseTag(open[Len(open) - k + 1])
<1> DEFINE c == ClosersOf(open)
           len == Len(open)
           d == [k \in DOMAIN open |-> CloseTag(open[k])]
<1>1. len \in Nat /\ DOMAIN open = 1 .. len
  OBVIOUS
<1>2. \A k \in 1 .. len : open[k] \in OpenTags /\ CloseTag(open[k]) \in Tags
  BY UnitsApart
<1>3. d \in Seq(Tags) /\ Len(d) = len
      /\ \A k \in 1 .. len : d[k] = CloseTag(open[k])
  BY <1>1, <1>2
<1>4. c = Reverse(d)
  BY DEF ClosersOf
<1> HIDE DEF c, d, len
<1>5. c = [k \in 1 .. len |-> d[(len - k) + 1]]
  BY <1>3, <1>4 DEF Reverse
<1>6. \A k \in 1 .. len : (len - k) + 1 \in 1 .. len
  BY <1>1
<1>7. \A k \in 1 .. len : c[k] = CloseTag(open[len - k + 1]) /\ c[k] \in Tags
  BY <1>2, <1>3, <1>5, <1>6
<1>8. c \in Seq(Tags) /\ Len(c) = len
  BY <1>1, <1>5, <1>7
<1> QED BY <1>7, <1>8 DEF c, len

\* The closing tags, from the innermost outwards, leave no tag open.
LEMMA ClosersClose ==
  ASSUME NEW open \in Seq(OpenTags), NEW s \in Seq(Units), Nesting(s) = open
  PROVE  /\ ClosersOf(open) \in Seq(Tags)
         /\ Nesting(s \o ClosersOf(open)) = <<>>
<1> DEFINE c == ClosersOf(open)
           len == Len(open)
           upto(k) == s \o SubSeq(c, 1, k)
           T == {k \in 0 .. len : Nesting(upto(k)) = SubSeq(open, 1, len - k)}
<1>1. len \in Nat /\ DOMAIN open = 1 .. len
  OBVIOUS
<1>2. \A k \in 1 .. len : open[k] \in OpenTags /\ CloseTag(open[k]) \in Tags
  BY UnitsApart
<1>3. /\ c \in Seq(Tags) /\ Len(c) = len
      /\ \A k \in 1 .. len : c[k] = CloseTag(open[len - k + 1])
  BY ClosersAreTags
<1>4. upto(0) = s /\ upto(len) = s \o c
  <2> HIDE DEF c
  <2>1. SubSeq(c, 1, 0) = <<>> /\ SubSeq(c, 1, len) = c
    BY <1>3, FirstUnits
  <2>2. s \o <<>> = s
    OBVIOUS
  <2> QED BY <2>1, <2>2
<1>5. ASSUME NEW k \in 1 .. len
      PROVE  /\ upto(k - 1) \in Seq(Units) /\ c[k] \in Units
             /\ upto(k) = Append(upto(k - 1), c[k])
  <2>1. c \in Seq(Units) /\ c[k] \in Units
    BY <1>3, UnitsApart
  <2> HIDE DEF c
  <2> QED BY <1>3, <2>1
<1> HIDE DEF upto, c
<1>6. 0 \in T
  BY <1>1, <1>4
<1>7. ASSUME NEW k \in 1 .. len, k - 1 \in T PROVE k \in T
  <2>1. Nesting(upto(k)) = Nest(Nesting(upto(k - 1)), c[k])
    BY <1>5, NestingAppend
  <2> DEFINE still == SubSeq(open, 1, len - (k - 1))
  <2>2. Nesting(upto(k - 1)) = still
    BY <1>7
  <2>3. /\ still \in Seq(OpenTags) /\ Len(still) = len - k + 1 /\ still # <<>>
        /\ still[Len(still)] = open[len - k + 1]
        /\ SubSeq(still, 1, Len(still) - 1) = SubSeq(open, 1, len - k)
    BY <1>1
  <2> HIDE DEF still
  <2>4. Last(still) = open[len - k + 1] /\ Front(still) = SubSeq(open, 1, len - k)
    BY <2>3, LastAndFront
  <2>5. open[len - k + 1] \in OpenTags /\ c[k] = CloseTag(open[len - k + 1])
    BY <1>1, <1>2, <1>3
  <2>6. Closes(c[k], still)
    BY <2>3, <2>4, <2>5 DEF Closes
  <2>7. c[k] \in Tags /\ c[k] \notin OpenTags
    BY <2>5, UnitsApart
  <2>8. Nest(still, c[k]) = Front(still)
    BY <2>6, <2>7, NestCases
  <2>9. k \in 0 .. len
    BY <1>1
  <2> QED BY <2>1, <2>2, <2>4, <2>8, <2>9
<1>8. len \in T
  <2> HIDE DEF T
  <2>1. T \subseteq 0 .. len
    BY DEF T
  <2>2. T = 0 .. len
    BY <1>1, <1>6, <1>7, <2>1, UpTo
  <2> QED BY <1>1, <2>2
<1>9. SubSeq(open, 1, len - len) = <<>>
  BY <1>1
<1> QED BY <1>3, <1>4, <1>8, <1>9 DEF c

-----------------------------------------------------------------------------
(* The invariant of the loop.                                              *)

\* The inputs, and nothing built before the loop.
CallOK ==
  /\ text \in Seq(Units)
  /\ max \in Nat \ {0}
  /\ pc \in {"text", "called", "scan", "returned"}
  /\ pc \in {"text", "called"} => i = 1 /\ out = <<>> /\ stack = <<>> /\ cut = FALSE
  /\ pc = "called" => n = 0

\* Without a bare bracket the text built is the part of the text that was read:
\* it is at most n wide, n leaves room for the ellipsis, and the stack holds
\* what is open in it.
ReadSoFar ==
  /\ i \in 1 .. Len(text) + 1
  /\ out = SubSeq(text, 1, i - 1)
  /\ n \in Int
  /\ n <= max - 1
  /\ AtMost(out, n)
  /\ ClosersMatch(text) => Nesting(out) = stack

LoopOK ==
  pc = "scan" =>
    /\ cut = TRUE
    /\ VisibleLen(text) > max
    /\ stack \in Seq(OpenTags)
    /\ NoBareBracket => ReadSoFar

TruncInv == CallOK /\ LoopOK /\ FitsWithoutBrackets /\ CutIsBalanced

LEMMA InitTrunc == Init => TruncInv
<1> SUFFICES ASSUME Init PROVE TruncInv
  OBVIOUS
<1>1. CallOK
  BY TruncateAssumption DEF Init, CallOK
<1> QED BY <1>1 DEF Init, TruncInv, LoopOK, FitsWithoutBrackets, CutIsBalanced

LEMMA WordsAreUnits == ASSUME NEW w \in Words PROVE w \in Seq(Units)
<1>1. /\ "x" \in Units /\ "W" \in Units /\ "&" \in Units /\ "l" \in Units
      /\ "t" \in Units /\ ";" \in Units /\ "<" \in Units /\ ">" \in Units
  BY DEF Units
<1>2. CASE w \in {<<t>> : t \in Tags}
  <2>1. PICK t \in Tags : w = <<t>>
    BY <1>2
  <2>2. t \in Units
    BY UnitsApart
  <2> QED BY <2>1, <2>2
<1>3. CASE w = <<"&", "l", "t", ";">>
  <2>1. \A a, b, c, d \in Units : <<a, b, c, d>> \in Seq(Units)
    OBVIOUS
  <2> QED BY <1>1, <1>3, <2>1
<1>4. CASE w \in {<<"x">>, <<"W">>, <<"<">>, <<">">>}
  <2>1. \A a \in Units : <<a>> \in Seq(Units)
    OBVIOUS
  <2> QED BY <1>1, <1>4, <2>1
<1> QED BY <1>2, <1>3, <1>4 DEF Words

LEMMA EllipsisAlone ==
  /\ <<Ellipsis>> \in Seq(Units)
  /\ VisibleLen(<<Ellipsis>>) <= 1
  /\ Nesting(<<Ellipsis>>) = <<>>
<1>1. <<>> \in Seq(Units) /\ Append(<<>>, Ellipsis) = <<Ellipsis>>
      /\ <<Ellipsis>> \in Seq(Units)
  BY UnitsApart
<1>2. AtMost(<<Ellipsis>>, 1)
  <2>1. Ellipsis \in Units /\ Ellipsis \notin Tags /\ 0 \in Int
    BY UnitsApart
  <2>2. AtMost(<<Ellipsis>>, 0 + Width(Ellipsis))
    BY <1>1, <2>1, EmptyAtMost, AppendAtMost
  <2>3. 0 + Width(Ellipsis) = 1
    BY UnitsApart
  <2> QED BY <2>2, <2>3
<1>3. VisibleLen(<<Ellipsis>>) <= 1
  BY <1>1, <1>2, 1 \in Int, AtMostFits
<1>4. Nesting(<<Ellipsis>>) = Nest(<<>>, Ellipsis)
  BY <1>1, UnitsApart, NestingAppend, NestingNone
<1> QED BY <1>1, <1>3, <1>4, UnitsApart, NestCases

LEMMA OneUnit ==
  ASSUME NEW S, NEW s \in Seq(S), NEW k \in 1 .. Len(s)
  PROVE  SubSeq(s, k, k) = <<s[k]>>
<1> DEFINE t == SubSeq(s, k, k)
<1>1. k \in Int /\ t \in Seq(S) /\ Len(t) = 1 /\ t[1] = s[k]
  OBVIOUS
<1> HIDE DEF t
<1>2. t = <<s[k]>>
  BY <1>1
<1> QED BY <1>2 DEF t

\* The part read, one unit further on.
LEMMA ReadOn ==
  ASSUME text \in Seq(Units), i \in 1 .. Len(text), out = SubSeq(text, 1, i - 1)
  PROVE  /\ out \in Seq(Units) /\ text[i] \in Units
         /\ i + 1 \in 1 .. Len(text) + 1
         /\ SubSeq(text, 1, (i + 1) - 1) = Append(out, text[i])
         /\ out \o TagBytes(i) = Append(out, text[i])
<1>1. Len(text) \in Nat /\ i \in 1 .. Len(text) /\ i - 1 \in 0 .. Len(text)
  OBVIOUS
<1>2. out \in Seq(Units) /\ text[i] \in Units
  BY <1>1, FirstUnits
<1>3. SubSeq(text, 1, i) = Append(out, text[i])
  BY <1>1, FirstUnits
<1>4. TagBytes(i) = <<text[i]>>
  BY OneUnit DEF TagBytes
<1>5. (i + 1) - 1 = i /\ i + 1 \in 1 .. Len(text) + 1
  BY <1>1
<1> QED BY <1>2, <1>3, <1>4, <1>5

LEMMA CallStep == CallOK /\ Next => CallOK'
<1> SUFFICES ASSUME CallOK, Next PROVE CallOK'
  OBVIOUS
<1> USE DEF CallOK, input
<1>1. ASSUME NEW w \in Words, Write(w) PROVE CallOK'
  <2>1. text \o w \in Seq(Units)
    BY WordsAreUnits
  <2> QED BY <1>1, <2>1 DEF Write
<1>2. CASE Call \/ Whole \/ OnlyEllipsis \/ Enter
  BY <1>2 DEF Call, Whole, OnlyEllipsis, Enter
<1>3. CASE ScanTag \/ ScanUnclosed \/ ScanCharacter \/ Cut \/ RunOut
  BY <1>3 DEF ScanTag, ScanUnclosed, ScanCharacter, Cut, RunOut, IsCharacter, Scanning
<1>4. ASSUME NEW k \in DOMAIN text, ScanBracket(k) PROVE CallOK'
  BY <1>4 DEF ScanBracket, Scanning
<1> QED BY <1>1, <1>2, <1>3, <1>4 DEF Next

\* A bracket on the way is one in the text.
LEMMA NoBracketRead == NoBareBracket /\ Scanning /\ CallOK /\ LoopOK => text[i] # "<"
<1> SUFFICES ASSUME NoBareBracket, Scanning, CallOK, LoopOK PROVE text[i] # "<"
  OBVIOUS
<1>1. i \in 1 .. Len(text)
  BY DEF CallOK, LoopOK, ReadSoFar, Scanning
<1> QED BY <1>1 DEF NoBareBracket, Contains

LEMMA EnterStep == TruncInv /\ Enter => LoopOK'
<1> SUFFICES ASSUME TruncInv, Enter PROVE LoopOK'
  OBVIOUS
<1>1. i = 1 /\ out = <<>> /\ stack = <<>> /\ n = 0 /\ max \in Nat \ {0} /\ text \in Seq(Units)
  BY DEF TruncInv, CallOK, Enter
<1>2. text' = text /\ max' = max /\ i' = i /\ out' = out /\ stack' = stack /\ n' = n
      /\ cut' = TRUE /\ VisibleLen(text) > max
  BY DEF Enter, input
<1>3. SubSeq(text, 1, 1 - 1) = <<>> /\ 1 \in 1 .. Len(text) + 1
  BY <1>1
<1>4. AtMost(<<>>, 0) /\ Nesting(<<>>) = <<>> /\ 0 <= max - 1
  BY <1>1, EmptyAtMost, NestingNone
<1>5. ReadSoFar
  BY <1>1, <1>3, <1>4 DEF ReadSoFar
<1>6. ReadSoFar'
  BY <1>2, <1>5 DEF ReadSoFar
<1>7. stack' \in Seq(OpenTags) /\ cut' = TRUE /\ (VisibleLen(text) > max)'
  BY <1>1, <1>2
<1> QED BY <1>6, <1>7 DEF LoopOK

\* A tag: the stack follows the nesting, unless the tag closes nothing.
LEMMA TagStep == TruncInv /\ ScanTag => LoopOK'
<1> SUFFICES ASSUME TruncInv, ScanTag PROVE LoopOK'
  OBVIOUS
<1>0. /\ text \in Seq(Units) /\ max \in Nat \ {0} /\ cut = TRUE
      /\ VisibleLen(text) > max /\ stack \in Seq(OpenTags)
      /\ NoBareBracket => ReadSoFar
  BY DEF TruncInv, CallOK, LoopOK, ScanTag, Scanning
<1>1. /\ text' = text /\ max' = max /\ i' = i + 1 /\ n' = n /\ cut' = cut
      /\ out' = out \o TagBytes(i) /\ text[i] \in Tags /\ i <= Len(text)
      /\ stack' = IF text[i] \in OpenTags THEN Append(stack, text[i]) ELSE Pop(text[i])
  BY DEF ScanTag, Scanning, input
<1>2. stack' \in Seq(OpenTags)
  <2>1. stack # <<>> => Front(stack) \in Seq(OpenTags)
    BY <1>0, LastAndFront
  <2>2. Pop(text[i]) \in Seq(OpenTags)
    BY <1>0, <2>1 DEF Pop, Closes
  <2> QED BY <1>0, <1>1, <2>2
<1>3. ASSUME NoBareBracket PROVE ReadSoFar'
  <2>1. ReadSoFar /\ i \in 1 .. Len(text)
    BY <1>0, <1>1, <1>3 DEF ReadSoFar
  <2>2. /\ out \in Seq(Units) /\ text[i] \in Units /\ i + 1 \in 1 .. Len(text) + 1
        /\ SubSeq(text, 1, (i + 1) - 1) = Append(out, text[i])
        /\ out' = Append(out, text[i])
    BY <1>0, <1>1, <2>1, ReadOn DEF ReadSoFar
  <2>3. AtMost(Append(out, text[i]), n)
    BY <1>1, <2>1, <2>2, AppendAtMost DEF ReadSoFar
  <2>4. ASSUME ClosersMatch(text) PROVE Nesting(Append(out, text[i])) = stack'
    <3>1. Nesting(Append(out, text[i])) = Nest(stack, text[i])
      BY <2>1, <2>2, <2>4, NestingAppend DEF ReadSoFar
    <3>2. i \in 0 .. Len(text) /\ SubSeq(text, 1, i) = Append(out, text[i])
      BY <2>1, <2>2
    <3>3. ~Contains(Nest(stack, text[i]), "?")
      BY <1>0, <2>4, <3>1, <3>2, MarkStays DEF ClosersMatch
    <3>4. CASE text[i] \in OpenTags
      BY <1>1, <3>1, <3>4, NestCases
    <3>5. CASE text[i] \notin OpenTags /\ Closes(text[i], stack)
      BY <1>1, <3>1, <3>5, NestCases DEF Pop
    <3>6. CASE text[i] \notin OpenTags /\ ~Closes(text[i], stack)
      <4>1. Nest(stack, text[i]) = Append(stack, "?")
        BY <1>1, <3>6, NestCases
      <4>2. Contains(Append(stack, "?"), "?")
        BY <1>0, AppendContains
      <4> QED BY <3>3, <4>1, <4>2
    <3> QED BY <3>4, <3>5, <3>6
  <2>5. n' \in Int /\ n' <= max' - 1 /\ i' \in 1 .. Len(text') + 1
        /\ out' = SubSeq(text', 1, i' - 1)
    BY <1>1, <2>1, <2>2 DEF ReadSoFar
  <2>6. AtMost(out, n)' /\ (ClosersMatch(text) => Nesting(out) = stack)'
    BY <1>1, <2>2, <2>3, <2>4
  <2> QED BY <2>5, <2>6 DEF ReadSoFar
<1>4. NoBareBracket' => ReadSoFar'
  BY <1>1, <1>3 DEF NoBareBracket
<1>5. cut' = TRUE /\ (VisibleLen(text) > max)'
  BY <1>0, <1>1
<1> QED BY <1>2, <1>4, <1>5 DEF LoopOK

LEMMA CharacterStep == TruncInv /\ ScanCharacter => LoopOK'
<1> SUFFICES ASSUME TruncInv, ScanCharacter PROVE LoopOK'
  OBVIOUS
<1>0. /\ text \in Seq(Units) /\ max \in Nat \ {0} /\ cut = TRUE
      /\ VisibleLen(text) > max /\ stack \in Seq(OpenTags)
      /\ NoBareBracket => ReadSoFar
  BY DEF TruncInv, CallOK, LoopOK, ScanCharacter, IsCharacter, Scanning
<1>1. /\ text' = text /\ max' = max /\ i' = i + 1 /\ n' = n + Width(text[i])
      /\ cut' = cut /\ stack' = stack /\ out' = Append(out, text[i])
      /\ text[i] \notin Tags /\ i <= Len(text) /\ n + Width(text[i]) <= max - 1
  BY DEF ScanCharacter, IsCharacter, Scanning, Room, input
<1>2. ASSUME NoBareBracket PROVE ReadSoFar'
  <2>1. ReadSoFar /\ i \in 1 .. Len(text)
    BY <1>0, <1>1, <1>2 DEF ReadSoFar
  <2>2. /\ out \in Seq(Units) /\ text[i] \in Units /\ i + 1 \in 1 .. Len(text) + 1
        /\ SubSeq(text, 1, (i + 1) - 1) = Append(out, text[i])
    BY <1>0, <2>1, ReadOn DEF ReadSoFar
  <2>3. AtMost(Append(out, text[i]), n + Width(text[i]))
    BY <1>1, <2>1, <2>2, AppendAtMost DEF ReadSoFar
  <2>4. ASSUME ClosersMatch(text) PROVE Nesting(Append(out, text[i])) = stack
    <3>1. Nesting(Append(out, text[i])) = Nest(Nesting(out), text[i])
      BY <2>2, NestingAppend
    <3>2. Nesting(out) = stack
      BY <2>1, <2>4 DEF ReadSoFar
    <3> QED BY <1>1, <3>1, <3>2, NestCases
  <2>5. n' \in Int /\ n' <= max' - 1 /\ i' \in 1 .. Len(text') + 1
        /\ out' = SubSeq(text', 1, i' - 1)
    BY <1>1, <2>1, <2>2, UnitsApart DEF ReadSoFar
  <2>6. AtMost(out, n)' /\ (ClosersMatch(text) => Nesting(out) = stack)'
    BY <1>1, <2>2, <2>3, <2>4
  <2> QED BY <2>5, <2>6 DEF ReadSoFar
<1>3. NoBareBracket' => ReadSoFar'
  BY <1>1, <1>2 DEF NoBareBracket
<1>4. stack' \in Seq(OpenTags) /\ cut' = TRUE /\ (VisibleLen(text) > max)'
  BY <1>0, <1>1
<1> QED BY <1>3, <1>4 DEF LoopOK

\* The other steps leave the loop or were not in it.
LEMMA LoopStep == TruncInv /\ Next => LoopOK'
<1> SUFFICES ASSUME TruncInv, Next PROVE LoopOK'
  OBVIOUS
<1>1. CASE \E w \in Words : Write(w)
  BY <1>1 DEF Write, LoopOK
<1>2. CASE Call \/ Whole \/ OnlyEllipsis
  BY <1>2 DEF Call, Whole, OnlyEllipsis, LoopOK
<1>3. CASE Enter
  BY <1>3, EnterStep
<1>4. CASE ScanTag
  BY <1>4, TagStep
<1>5. ASSUME NEW k \in DOMAIN text, ScanBracket(k) PROVE LoopOK'
  <2>1. text[i] = "<" /\ Scanning
    BY <1>5 DEF ScanBracket
  <2>2. ~NoBareBracket
    BY <2>1, NoBracketRead DEF TruncInv
  <2>3. text' = text /\ max' = max /\ cut' = cut /\ stack' = stack /\ pc = "scan"
    BY <1>5 DEF ScanBracket, Scanning, input
  <2>4. ~NoBareBracket'
    BY <2>2, <2>3 DEF NoBareBracket
  <2> QED BY <2>3, <2>4 DEF TruncInv, LoopOK
<1>6. CASE ScanUnclosed \/ Cut \/ RunOut
  BY <1>6 DEF ScanUnclosed, Cut, RunOut, LoopOK
<1>7. CASE ScanCharacter
  BY <1>7, CharacterStep
<1> QED BY <1>1, <1>2, <1>3, <1>4, <1>5, <1>6, <1>7 DEF Next

-----------------------------------------------------------------------------
(* What is returned.                                                       *)

ResultOK == FitsWithoutBrackets /\ CutIsBalanced

LEMMA WholeResult == TruncInv /\ Whole => ResultOK'
<1> SUFFICES ASSUME TruncInv, Whole PROVE ResultOK'
  OBVIOUS
<1>1. VisibleLen(text) <= max /\ out' = text /\ max' = max /\ cut' = FALSE
  BY DEF Whole, TruncInv, CallOK, input
<1>2. (VisibleLen(out) <= max)'
  BY <1>1
<1> QED BY <1>1, <1>2 DEF ResultOK, FitsWithoutBrackets, CutIsBalanced

LEMMA EllipsisResult == TruncInv /\ OnlyEllipsis => ResultOK'
<1> SUFFICES ASSUME TruncInv, OnlyEllipsis PROVE ResultOK'
  OBVIOUS
<1>1. out' = <<Ellipsis>> /\ max' = 1
  BY DEF OnlyEllipsis, input
<1>2. (VisibleLen(out) <= max)' /\ (Nesting(out) = <<>>)'
  BY <1>1, EllipsisAlone
<1> QED BY <1>2 DEF ResultOK, FitsWithoutBrackets, CutIsBalanced

\* The text read leaves room for the ellipsis, and the closing tags do not
\* count.
LEMMA CutResult == TruncInv /\ Cut => ResultOK'
<1> SUFFICES ASSUME TruncInv, Cut PROVE ResultOK'
  OBVIOUS
<1>0. text' = text
  BY DEF Cut, input
<1> SUFFICES ASSUME NoBareBracket PROVE ResultOK'
  BY <1>0 DEF ResultOK, FitsWithoutBrackets, CutIsBalanced, NoBareBracket
<1> DEFINE e == Append(out, Ellipsis)
           closers == ClosersOf(stack)
<1>1. /\ text \in Seq(Units) /\ max \in Nat \ {0} /\ stack \in Seq(OpenTags)
      /\ ReadSoFar /\ i \in 1 .. Len(text)
  BY DEF TruncInv, CallOK, LoopOK, Cut, IsCharacter, Scanning, ReadSoFar
<1>2. out' = e \o closers /\ max' = max /\ text' = text
  BY DEF Cut, Closers, ClosersOf, input
<1>3. out \in Seq(Units) /\ Ellipsis \in Units /\ Ellipsis \notin Tags /\ n \in Int
      /\ n <= max - 1
  BY <1>1, ReadOn, UnitsApart DEF ReadSoFar
<1>4. e \in Seq(Units)
  BY <1>3
<1>5. AtMost(e, n + 1) /\ n + 1 \in Int /\ n + 1 <= max
  <2>1. AtMost(e, n + Width(Ellipsis))
    BY <1>1, <1>3, AppendAtMost DEF ReadSoFar
  <2>2. Width(Ellipsis) = 1
    BY UnitsApart
  <2> QED BY <1>1, <1>3, <2>1, <2>2
<1>6. Nesting(e) = Nesting(out)
  BY <1>3, NestingAppend, NestCases
<1> HIDE DEF e, closers
<1>7. closers \in Seq(Tags)
  BY <1>1, ClosersAreTags DEF closers
<1>8. VisibleLen(e \o closers) <= max
  <2>1. e \o closers \in Seq(Units) /\ Visible(e \o closers) = Visible(e)
    BY <1>4, <1>7, TagsInvisible
  <2>2. AtMost(e \o closers, n + 1)
    BY <1>5, <2>1 DEF AtMost
  <2>3. VisibleLen(e \o closers) \in Int /\ VisibleLen(e \o closers) <= n + 1
    BY <1>5, <2>1, <2>2, AtMostFits
  <2> QED BY <1>1, <1>5, <2>3
<1>9. ASSUME ClosersMatch(text) PROVE Nesting(e \o closers) = <<>>
  <2>1. Nesting(e) = stack
    BY <1>1, <1>6, <1>9 DEF ReadSoFar
  <2> QED BY <1>1, <1>4, <2>1, ClosersClose DEF closers
<1>10. (VisibleLen(out) <= max)' /\ (ClosersMatch(text) => Nesting(out) = <<>>)'
  BY <1>2, <1>8, <1>9
<1> QED BY <1>10 DEF ResultOK, FitsWithoutBrackets, CutIsBalanced

\* The loop never runs out of text: all of it would be at most max - 1 wide,
\* and it is longer than max.
LEMMA NeverRunsOut == TruncInv /\ NoBareBracket => ~RunOut
<1> SUFFICES ASSUME TruncInv, NoBareBracket, RunOut PROVE FALSE
  OBVIOUS
<1>1. /\ text \in Seq(Units) /\ max \in Nat /\ VisibleLen(text) > max
      /\ ReadSoFar /\ i > Len(text)
  BY DEF TruncInv, CallOK, LoopOK, RunOut
<1>2. Len(text) \in Nat /\ i \in 1 .. Len(text) + 1 /\ n \in Int /\ n <= max - 1
  BY <1>1 DEF ReadSoFar
<1>3. i - 1 = Len(text)
  BY <1>1, <1>2
<1>4. out = text
  BY <1>1, <1>3, FirstUnits DEF ReadSoFar
<1>5. VisibleLen(text) \in Int /\ VisibleLen(text) <= n
  BY <1>1, <1>2, <1>4, AtMostFits DEF ReadSoFar
<1> QED BY <1>1, <1>2, <1>5

LEMMA ResultStep == TruncInv /\ Next => ResultOK'
<1> SUFFICES ASSUME TruncInv, Next PROVE ResultOK'
  OBVIOUS
<1> USE DEF ResultOK, FitsWithoutBrackets, CutIsBalanced
<1>1. CASE \E w \in Words : Write(w)
  BY <1>1 DEF Write
<1>2. CASE Call \/ Enter
  BY <1>2 DEF Call, Enter
<1>3. CASE Whole \/ OnlyEllipsis
  BY <1>3, WholeResult, EllipsisResult
<1>4. CASE ScanTag \/ ScanCharacter
  BY <1>4 DEF ScanTag, ScanCharacter, IsCharacter, Scanning
<1>5. ASSUME NEW k \in DOMAIN text, ScanBracket(k) PROVE ResultOK'
  BY <1>5 DEF ScanBracket, Scanning
<1>6. CASE ScanUnclosed
  <2>1. ~NoBareBracket /\ text' = text
    BY <1>6, NoBracketRead DEF TruncInv, ScanUnclosed, input
  <2> QED BY <2>1 DEF NoBareBracket
<1>7. CASE Cut
  BY <1>7, CutResult
<1>8. CASE RunOut
  <2>1. ~NoBareBracket /\ text' = text
    BY <1>8, NeverRunsOut DEF RunOut, input
  <2> QED BY <2>1 DEF NoBareBracket
<1> QED BY <1>1, <1>2, <1>3, <1>4, <1>5, <1>6, <1>7, <1>8 DEF Next

LEMMA TruncStep == TruncInv /\ [Next]_vars => TruncInv'
<1> SUFFICES ASSUME TruncInv, [Next]_vars PROVE TruncInv'
  OBVIOUS
<1>1. CASE Next
  BY <1>1, CallStep, LoopStep, ResultStep DEF TruncInv, ResultOK
<1>2. CASE UNCHANGED vars
  <2>1. text' = text /\ max' = max /\ i' = i /\ out' = out /\ stack' = stack
        /\ n' = n /\ cut' = cut /\ pc' = pc
    BY <1>2 DEF vars, input
  <2>2. CallOK' /\ LoopOK'
    BY <2>1 DEF TruncInv, CallOK, LoopOK, NoBareBracket, ReadSoFar
  <2>3. FitsWithoutBrackets' /\ CutIsBalanced'
    BY <2>1 DEF TruncInv, FitsWithoutBrackets, CutIsBalanced, NoBareBracket
  <2> QED BY <2>2, <2>3 DEF TruncInv
<1> QED BY <1>1, <1>2

LEMMA TruncInvariant == Spec => []TruncInv
BY InitTrunc, TruncStep, PTL DEF Spec

\* A text without bare brackets fits the limit after TruncateCanonical or
\* TruncateUTF16, whatever its length, its tags and its entities.
THEOREM CutTextsFit == Spec => []FitsWithoutBrackets
<1>1. TruncInv => FitsWithoutBrackets
  BY DEF TruncInv
<1> QED BY <1>1, TruncInvariant, PTL

\* The closing tags that truncateCanonicalKeepTags adds balance the cut text, if
\* no tag of the text closes another one.
THEOREM CutTextsAreBalanced == Spec => []CutIsBalanced
<1>1. TruncInv => CutIsBalanced
  BY DEF TruncInv
<1> QED BY <1>1, TruncInvariant, PTL

=============================================================================
