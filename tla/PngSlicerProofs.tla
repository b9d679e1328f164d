--------------------------- MODULE PngSlicerProofs ---------------------------
(***************************************************************************)
(* What TLC checks of PngSlicer for four images, proved for every sequence *)
(* of images: however gnuplot's output is cut into reads, and whatever was *)
(* missed before, the slicer stores whole images, and misses none but      *)
(* those that a read cuts roughly.                                         *)
(***************************************************************************)
EXTENDS PngSlicer, WellFoundedInduction, FiniteSetTheorems, TLAPS

-----------------------------------------------------------------------------
(* Natural numbers. *)

(* A set of natural numbers has a least element. *)
LEMMA LeastNumber ==
  ASSUME NEW T \in SUBSET Nat, T # {}
  PROVE  \E n \in T : \A m \in T : n <= m
<1> DEFINE I == {1 .. n : n \in T}
           R == StrictSubsetOrdering(Nat)
<1>1. IsWellFoundedOn(R, FiniteSubsetsOf(Nat))
  BY FS_StrictSubsetOrderingWellFounded
<1>2. I \subseteq FiniteSubsetsOf(Nat) /\ I # {}
  <2>1. \A n \in T : 1 .. n \in SUBSET Nat /\ IsFiniteSet(1 .. n)
    BY FS_Interval
  <2> QED
    BY <2>1 DEF FiniteSubsetsOf
<1>3. \E x \in I : \A y \in I : ~ (<<y, x>> \in R)
  <2> HIDE DEF I, R
  <2> QED
    BY <1>1, <1>2, WFMin
<1>4. PICK n \in T : \A m \in T : <<1 .. m, 1 .. n>> \notin R
  BY <1>3
<1>5. ASSUME NEW m \in T, m < n PROVE FALSE
  <2>1. 1 .. m \subseteq 1 .. n /\ n \in 1 .. n /\ n \notin 1 .. m
    BY <1>5
  <2>2. 1 .. m \in SUBSET Nat /\ 1 .. n \in SUBSET Nat
    OBVIOUS
  <2>3. <<1 .. m, 1 .. n>> \in R
    BY <2>1, <2>2, Zenon DEF StrictSubsetOrdering
  <2> QED
    BY <2>3, <1>4
<1> QED
  BY <1>5

(* Induction, for a set of numbers. *)
LEMMA AllNumbers ==
  ASSUME NEW S, 1 \in S, \A n \in Nat \ {0} : n \in S => n + 1 \in S
  PROVE  Nat \ {0} \subseteq S
<1> DEFINE T == {n \in Nat \ {0} : n \notin S}
<1>1. ASSUME T # {} PROVE FALSE
  <2>1. PICK n \in T : \A m \in T : n <= m
    BY <1>1, LeastNumber
  <2>2. n # 1 /\ n - 1 \in Nat \ {0} /\ n - 1 \notin T
    BY <2>1
  <2>3. n - 1 \in S /\ (n - 1) + 1 = n
    BY <2>2
  <2> QED
    BY <2>2, <2>3
<1> QED
  BY <1>1

LEMMA MinIs ==
  ASSUME NEW S \in SUBSET Nat, NEW x \in S, \A y \in S : x <= y
  PROVE  Min(S) = x
<1>1. Min(S) \in S /\ \A y \in S : Min(S) <= y
  BY DEF Min
<1>2. Min(S) \in Nat /\ x \in Nat /\ Min(S) <= x /\ x <= Min(S)
  BY <1>1
<1> QED
  BY <1>2

LEMMA MinExists ==
  ASSUME NEW S \in SUBSET Nat, S # {}
  PROVE  Min(S) \in S /\ \A y \in S : Min(S) <= y
BY LeastNumber DEF Min

LEMMA MaxIs ==
  ASSUME NEW S \in SUBSET Nat, NEW x \in S, \A y \in S : y <= x
  PROVE  Max(S) = x
<1>1. Max(S) \in S /\ \A y \in S : y <= Max(S)
  <2>1. \E m \in S : \A y \in S : m >= y
    OBVIOUS
  <2>2. Max(S) \in S /\ \A y \in S : Max(S) >= y
    BY <2>1 DEF Max
  <2> QED
    BY <2>2
<1>2. Max(S) \in Nat /\ x \in Nat /\ Max(S) <= x /\ x <= Max(S)
  BY <1>1
<1> QED
  BY <1>2

-----------------------------------------------------------------------------
(* Where the images are in the stream. *)

N == Len(Bodies)

Size(k) == HeadSize + Bodies[k] + TailSize

LEMMA Sizes ==
  /\ N \in Nat /\ Images = 1 .. N
  /\ \A k \in Images : Bodies[k] \in Nat /\ Size(k) \in Nat /\ Size(k) >= 16
BY PngStreamAssumption DEF PngStreamAssumption, N, Images, Size, HeadSize, TailSize

(* f lays out the first n images. *)
Layout(f, n) ==
  /\ f \in [1 .. n -> Nat]
  /\ \A k \in 1 .. n : f[k] = IF k = 1 THEN 0 ELSE f[k - 1] + Size(k - 1)

LEMMA LayoutExists == \A n \in 1 .. N + 1 : \E f : Layout(f, n)
<1> DEFINE S == {n \in Nat : n <= N + 1 => \E f : Layout(f, n)}
<1>1. 1 \in S
  <2> DEFINE f == [k \in 1 .. 1 |-> 0]
  <2>1. Layout(f, 1)
    BY DEF Layout
  <2> QED
    BY <2>1
<1>2. ASSUME NEW n \in Nat \ {0}, n \in S PROVE n + 1 \in S
  <2> SUFFICES ASSUME n + 1 <= N + 1 PROVE \E f : Layout(f, n + 1)
    OBVIOUS
  <2>1. PICK f : Layout(f, n)
    BY <1>2, Sizes
  <2> DEFINE g == [k \in 1 .. n + 1 |-> IF k = n + 1 THEN f[n] + Size(n) ELSE f[k]]
  <2>2. n \in Images /\ Size(n) \in Nat /\ f[n] \in Nat /\ n \in 1 .. n
    BY Sizes, <2>1 DEF Layout
  <2>3. f \in [1 .. n -> Nat]
    BY <2>1 DEF Layout
  <2>4. g \in [1 .. n + 1 -> Nat]
    <3>1. ASSUME NEW k \in 1 .. n + 1 PROVE (IF k = n + 1 THEN f[n] + Size(n) ELSE f[k]) \in Nat
      BY <2>2, <2>3
    <3> QED
      BY <3>1
  <2>5. ASSUME NEW k \in 1 .. n + 1 PROVE g[k] = IF k = 1 THEN 0 ELSE g[k - 1] + Size(k - 1)
    <3>1. CASE k = n + 1
      <4>1. g[k] = f[n] + Size(n) /\ k # 1 /\ k - 1 = n /\ n \in 1 .. n + 1 /\ n # n + 1
        BY <3>1
      <4>2. g[n] = f[n]
        BY <4>1
      <4> QED
        BY <4>1, <4>2
    <3>2. CASE k # n + 1
      <4>1. k \in 1 .. n /\ g[k] = f[k]
        BY <3>2
      <4>2. k # 1 => k - 1 \in 1 .. n + 1 /\ k - 1 # n + 1
        BY <4>1
      <4>3. k # 1 => g[k - 1] = f[k - 1]
        BY <4>2
      <4> QED
        BY <2>1, <4>1, <4>3 DEF Layout
    <3> QED
      BY <3>1, <3>2
  <2>6. Layout(g, n + 1)
    <3> HIDE DEF g
    <3> QED
      BY <2>4, <2>5 DEF Layout
  <2> QED
    BY <2>6
<1>3. Nat \ {0} \subseteq S
  <2> HIDE DEF S
  <2> QED
    BY <1>1, <1>2, AllNumbers
<1> QED
  BY <1>3, Sizes

LEMMA HeadAtIsLayout == Layout(HeadAt, N + 1)
<1>1. PICK f : Layout(f, N + 1)
  BY LayoutExists, Sizes
<1>2. f = [k \in 1 .. Len(Bodies) + 1 |-> IF k = 1 THEN 0 ELSE f[k - 1] + HeadSize + Bodies[k - 1] + TailSize]
  <2>1. ASSUME NEW k \in 1 .. N + 1
        PROVE  f[k] = IF k = 1 THEN 0 ELSE f[k - 1] + HeadSize + Bodies[k - 1] + TailSize
    <3>1. CASE k = 1
      BY <1>1, <3>1 DEF Layout
    <3>2. CASE k # 1
      <4>1. k - 1 \in Images /\ k - 1 \in 1 .. N + 1
        BY <3>2, Sizes
      <4>2. Bodies[k - 1] \in Nat /\ f[k - 1] \in Nat
        BY <1>1, <4>1, Sizes DEF Layout
      <4>3. f[k] = f[k - 1] + Size(k - 1)
        BY <1>1, <3>2 DEF Layout
      <4> QED
        BY <3>2, <4>2, <4>3 DEF Size, HeadSize, TailSize
    <3> QED
      BY <3>1, <3>2
  <2>2. f \in [1 .. N + 1 -> Nat]
    BY <1>1 DEF Layout
  <2> QED
    BY <2>1, <2>2 DEF N
<1>3. HeadAt = [k \in 1 .. Len(Bodies) + 1 |->
                  IF k = 1 THEN 0 ELSE HeadAt[k - 1] + HeadSize + Bodies[k - 1] + TailSize]
  BY <1>2, Zenon DEF HeadAt
<1>4. ASSUME NEW k \in 1 .. N + 1
      PROVE  HeadAt[k] = IF k = 1 THEN 0 ELSE HeadAt[k - 1] + HeadSize + Bodies[k - 1] + TailSize
  BY <1>3, Zenon DEF N
<1>5. HeadAt \in [1 .. N + 1 -> Nat]
  <2> DEFINE S == {n \in Nat : n <= N + 1 => HeadAt[n] \in Nat}
  <2>1. 1 \in S
    <3>1. 1 \in 1 .. N + 1
      BY Sizes
    <3> QED
      BY <1>4, <3>1
  <2>2. ASSUME NEW n \in Nat \ {0}, n \in S PROVE n + 1 \in S
    <3> SUFFICES ASSUME n + 1 <= N + 1 PROVE HeadAt[n + 1] \in Nat
      OBVIOUS
    <3>1. n \in Images /\ n + 1 \in 1 .. N + 1 /\ n + 1 # 1 /\ (n + 1) - 1 = n
      BY Sizes
    <3>2. HeadAt[n] \in Nat /\ Bodies[n] \in Nat
      BY <2>2, <3>1, Sizes
    <3>3. HeadAt[n + 1] = HeadAt[n] + HeadSize + Bodies[n] + TailSize
      BY <1>4, <3>1
    <3> QED
      BY <3>2, <3>3 DEF HeadSize, TailSize
  <2>3. Nat \ {0} \subseteq S
    <3> HIDE DEF S
    <3> QED
      BY <2>1, <2>2, AllNumbers
  <2>4. \A k \in 1 .. N + 1 : HeadAt[k] \in Nat
    BY <2>3, Sizes
  <2>5. DOMAIN HeadAt = 1 .. N + 1 /\ HeadAt = [k \in DOMAIN HeadAt |-> HeadAt[k]]
    BY <1>3, Zenon DEF N
  <2> QED
    BY <2>4, <2>5
<1>6. ASSUME NEW k \in 1 .. N + 1
      PROVE  HeadAt[k] = IF k = 1 THEN 0 ELSE HeadAt[k - 1] + Size(k - 1)
  <2>1. CASE k = 1
    BY <1>4, <2>1
  <2>2. CASE k # 1
    <3>1. k - 1 \in Images /\ k - 1 \in 1 .. N + 1
      BY <2>2, Sizes
    <3>2. Bodies[k - 1] \in Nat /\ HeadAt[k - 1] \in Nat
      BY <1>5, <3>1, Sizes
    <3> QED
      BY <1>4, <2>2, <3>2 DEF Size, HeadSize, TailSize
  <2> QED
    BY <2>1, <2>2
<1> QED
  BY <1>5, <1>6 DEF Layout

(* An image ends where the next begins, and images do not overlap.          *)
LEMMA Adjoining ==
  /\ HeadAt[1] = 0 /\ \A k \in 1 .. N + 1 : HeadAt[k] \in Nat
  /\ \A k \in Images : /\ k \in Nat /\ k + 1 \in 1 .. N + 1 /\ HeadAt[k + 1] = EndAt(k)
                       /\ FootAt(k) \in Nat /\ EndAt(k) \in Nat
                       /\ HeadAt[k] + 8 <= FootAt(k) /\ EndAt(k) = FootAt(k) + 8
<1>1. N \in Nat /\ HeadAt \in [1 .. N + 1 -> Nat]
  BY Sizes, HeadAtIsLayout DEF Layout
<1>2. HeadAt[1] = 0
  BY <1>1, HeadAtIsLayout DEF Layout
<1>3. ASSUME NEW k \in Images
      PROVE  /\ k \in Nat /\ k + 1 \in 1 .. N + 1 /\ HeadAt[k + 1] = EndAt(k)
             /\ FootAt(k) \in Nat /\ EndAt(k) \in Nat
             /\ HeadAt[k] + 8 <= FootAt(k) /\ EndAt(k) = FootAt(k) + 8
  <2>1. k \in Nat /\ k + 1 \in 1 .. N + 1 /\ k + 1 # 1 /\ (k + 1) - 1 = k /\ k \in 1 .. N + 1
    BY <1>1, Sizes
  <2>2. HeadAt[k + 1] = HeadAt[k] + Size(k)
    BY <2>1, HeadAtIsLayout DEF Layout
  <2>3. HeadAt[k] \in Nat /\ Bodies[k] \in Nat
    BY <1>1, <2>1, Sizes
  <2> QED
    BY <2>1, <2>2, <2>3 DEF Size, FootAt, EndAt, HeadSize, TailSize
<1> QED
  BY <1>1, <1>2, <1>3

LEMMA Apart ==
  ASSUME NEW j \in Images, NEW k \in 1 .. N + 1, j < k
  PROVE  EndAt(j) <= HeadAt[k]
<1> DEFINE S == {n \in Nat : j < n /\ n <= N + 1 => EndAt(j) <= HeadAt[n]}
<1>1. 1 \in S
  BY Sizes
<1>2. ASSUME NEW n \in Nat \ {0}, n \in S PROVE n + 1 \in S
  <2> SUFFICES ASSUME j < n + 1, n + 1 <= N + 1 PROVE EndAt(j) <= HeadAt[n + 1]
    OBVIOUS
  <2>1. n \in Images /\ n \in 1 .. N + 1 /\ j \in Nat
    BY Sizes
  <2>2. HeadAt[n + 1] = EndAt(n) /\ HeadAt[n] \in Nat /\ HeadAt[n] <= EndAt(n) /\ EndAt(n) \in Nat /\ EndAt(j) \in Nat
    BY <2>1, Adjoining
  <2>3. CASE j = n
    BY <2>2, <2>3
  <2>4. CASE j # n
    <3>1. EndAt(j) <= HeadAt[n]
      BY <1>2, <2>1, <2>4
    <3> QED
      BY <2>2, <3>1
  <2> QED
    BY <2>3, <2>4
<1>3. k \in S
  <2> HIDE DEF S
  <2>1. k \in Nat \ {0}
    BY Sizes
  <2> QED
    BY <1>1, <1>2, <2>1, AllNumbers
<1> QED
  BY <1>3, Sizes

LEMMA Limits ==
  /\ Places = 0 .. HeadAt[N + 1] /\ HeadAt[N + 1] \in Nat
  /\ \A k \in 1 .. N + 1 : HeadAt[k] \in Places
  /\ \A k \in Images : EndAt(k) \in Places
<1>1. HeadAt[N + 1] \in Nat /\ N \in Nat /\ N + 1 \in 1 .. N + 1
  BY Sizes, Adjoining
<1>2. Places = 0 .. HeadAt[N + 1]
  <2>1. CASE Images = {}
    BY <2>1, Sizes, Adjoining DEF Places
  <2>2. CASE Images # {}
    <3>1. N \in Images /\ N = Len(Bodies)
      BY <2>2, Sizes DEF N
    <3> QED
      BY <2>2, <3>1, Adjoining DEF Places
  <2> QED
    BY <2>1, <2>2
<1>3. ASSUME NEW k \in 1 .. N + 1 PROVE HeadAt[k] \in Places
  <2>1. HeadAt[k] \in Nat
    BY Adjoining
  <2>2. CASE k = N + 1
    BY <1>1, <1>2, <2>2
  <2>3. CASE k # N + 1
    <3>1. k \in Images /\ k < N + 1
      BY <2>3, Sizes
    <3>2. EndAt(k) <= HeadAt[N + 1] /\ HeadAt[k] <= EndAt(k) /\ EndAt(k) \in Nat
      BY <1>1, <3>1, Apart, Adjoining
    <3> QED
      BY <1>1, <1>2, <2>1, <3>2
  <2> QED
    BY <2>2, <2>3
<1>4. \A k \in Images : EndAt(k) \in Places
  BY <1>3, Adjoining
<1> QED
  BY <1>1, <1>2, <1>3, <1>4

-----------------------------------------------------------------------------
(* The slicer. *)

(* part_png starts where an image starts, and with the whole head of one if *)
(* a head has been found.  While an image that was not cut roughly comes in *)
(* the slicer has a head, its own or that of an image before it.            *)
Partial(k) == HeadAt[k] + 8 <= last /\ last < EndAt(k)

AtImage ==
  \E m \in 1 .. N + 1 :
    first = HeadAt[m] /\ (head_found => m \in Images /\ HeadAt[m] + 8 <= last)

SlicerInv ==
  /\ TypeOK
  /\ AtImage
  /\ sliced \subseteq {Image(k) : k \in Images}
  /\ CurrIsImage
  /\ \A k \in Images : Partial(k) => k \in rough \/ (head_found /\ first <= HeadAt[k])
  /\ SmoothIsSliced

(* Which heads and feet a search finds. *)
LEMMA HeadsFound ==
  ASSUME NEW from \in Nat, NEW to \in Nat
  PROVE  /\ HeadsIn(from, to) \in SUBSET Nat
         /\ \A j \in Images : HeadAt[j] >= from /\ HeadAt[j] + 8 <= to => HeadAt[j] \in HeadsIn(from, to)
         /\ \A h \in HeadsIn(from, to) :
              \E j \in Images : h = HeadAt[j] /\ HeadAt[j] >= from /\ HeadAt[j] + 8 <= to
<1>1. \A j \in Images : HeadAt[j] \in Nat
  BY Adjoining, Sizes
<1> QED
  BY <1>1 DEF HeadsIn, HeadSize

LEMMA FeetFound ==
  ASSUME NEW from \in Nat, NEW to \in Nat
  PROVE  /\ FeetIn(from, to) \in SUBSET Nat
         /\ \A j \in Images : FootAt(j) >= from /\ FootAt(j) + 4 <= to => FootAt(j) \in FeetIn(from, to)
         /\ \A f \in FeetIn(from, to) :
              \E j \in Images : f = FootAt(j) /\ FootAt(j) >= from /\ FootAt(j) + 4 <= to
BY Adjoining, Sizes DEF FeetIn, FootSize

(* A search begins at most eight bytes before the new ones and not before   *)
(* the front; at least seven if there are as many.                          *)
LEMMA SearchBegins ==
  ASSUME first \in Nat, last \in Nat, first <= last
  PROVE  /\ SearchFrom \in Nat /\ first <= SearchFrom /\ SearchFrom <= last
         /\ last - 8 <= SearchFrom
         /\ SearchFrom = first \/ SearchFrom = last - 7
BY DEF SearchFrom

(* With a head at the front, what is cut off at the foot of image k is that *)
(* image, although heads of lost images may precede it.                     *)
LEMMA CutIsImage ==
  ASSUME NEW m \in Images, NEW k \in Images, first = HeadAt[m], FootAt(k) >= first
  PROVE  m <= k /\ LastHead(FootAt(k)) = HeadAt[k]
<1>0. /\ m \in Nat /\ k \in Nat /\ m \in 1 .. N + 1 /\ k \in 1 .. N + 1
      /\ HeadAt[m] \in Nat /\ HeadAt[k] \in Nat /\ FootAt(k) \in Nat /\ EndAt(k) \in Nat
      /\ HeadAt[k] + 8 <= FootAt(k) /\ EndAt(k) = FootAt(k) + 8
  BY Sizes, Adjoining
<1>1. m <= k
  <2>1. ASSUME k < m PROVE FALSE
    <3>1. EndAt(k) <= HeadAt[m]
      BY <1>0, <2>1, Apart
    <3> QED
      BY <1>0, <3>1
  <2> QED
    BY <1>0, <2>1
<1>2. HeadAt[m] <= HeadAt[k]
  <2>1. CASE m = k
    BY <1>0, <2>1
  <2>2. CASE m < k
    <3>1. EndAt(m) <= HeadAt[k] /\ EndAt(m) \in Nat /\ HeadAt[m] <= EndAt(m)
      BY <1>0, <2>2, Apart, Adjoining
    <3> QED
      BY <1>0, <3>1
  <2> QED
    BY <1>0, <1>1, <2>1, <2>2
<1> DEFINE S == {first} \cup {h \in HeadsIn(first + 1, FootAt(k)) : h < FootAt(k)}
<1>3. S \in SUBSET Nat
  BY <1>0, HeadsFound
<1>4. HeadAt[k] \in S
  <2>1. CASE HeadAt[k] = first
    BY <2>1
  <2>2. CASE HeadAt[k] # first
    <3>1. HeadAt[k] >= first + 1 /\ HeadAt[k] < FootAt(k) /\ first + 1 \in Nat
      BY <1>0, <1>2, <2>2
    <3>2. HeadAt[k] \in HeadsIn(first + 1, FootAt(k))
      BY <1>0, <3>1, HeadsFound
    <3> QED
      BY <3>1, <3>2
  <2> QED
    BY <2>1, <2>2
<1>5. ASSUME NEW h \in S PROVE h <= HeadAt[k]
  <2>1. CASE h = first
    BY <1>2, <2>1
  <2>2. CASE h # first
    <3>1. first + 1 \in Nat /\ h \in HeadsIn(first + 1, FootAt(k))
      BY <1>0, <2>2
    <3>2. PICK j \in Images : h = HeadAt[j] /\ HeadAt[j] + 8 <= FootAt(k)
      BY <1>0, <3>1, HeadsFound
    <3>3. j \in Nat /\ j \in 1 .. N + 1 /\ HeadAt[j] \in Nat
      BY Sizes, Adjoining
    <3>4. ASSUME k < j PROVE FALSE
      <4>1. EndAt(k) <= HeadAt[j]
        BY <3>3, <3>4, Apart
      <4> QED
        BY <1>0, <3>2, <3>3, <4>1
    <3>5. CASE j = k
      BY <1>0, <3>2, <3>5
    <3>6. CASE j < k
      <4>1. EndAt(j) <= HeadAt[k] /\ EndAt(j) \in Nat /\ HeadAt[j] <= EndAt(j)
        BY <1>0, <3>3, <3>6, Apart, Adjoining
      <4> QED
        BY <1>0, <3>2, <3>3, <4>1
    <3> QED
      BY <1>0, <3>3, <3>4, <3>5, <3>6
  <2> QED
    BY <2>1, <2>2
<1>6. Max(S) = HeadAt[k]
  <2> HIDE DEF S
  <2> QED
    BY <1>3, <1>4, <1>5, MaxIs
<1> QED
  BY <1>1, <1>6 DEF LastHead

-----------------------------------------------------------------------------
(* The steps. *)

LEMMA SlicerInit == Init => SlicerInv
<1> SUFFICES ASSUME Init PROVE SlicerInv
  OBVIOUS
<1>1. 0 \in Places /\ N \in Nat
  BY Sizes, Limits
<1>2. TypeOK
  <2>1. asked \in 0 .. Len(Bodies) /\ first \in Places /\ last \in Places /\ first <= last
        /\ curr_png \in [from : Places, to : Places]
    BY <1>1 DEF Init, Nothing, N
  <2> QED
    BY <2>1 DEF Init, TypeOK
<1>3. AtImage
  <2>1. 1 \in 1 .. N + 1 /\ HeadAt[1] = 0
    BY Sizes, Adjoining
  <2> QED
    BY <2>1 DEF Init, AtImage
<1>4. ASSUME NEW k \in Images PROVE ~Partial(k) /\ ~(EndAt(k) <= last)
  <2>1. HeadAt[k] \in Nat /\ FootAt(k) \in Nat /\ EndAt(k) = FootAt(k) + 8 /\ HeadAt[k] + 8 <= FootAt(k)
    BY Sizes, Adjoining
  <2> QED
    BY <2>1 DEF Init, Partial
<1> QED
  BY <1>2, <1>3, <1>4 DEF Init, SlicerInv, CurrIsImage, SmoothIsSliced

LEMMA SlicerStutters ==
  ASSUME SlicerInv, UNCHANGED <<first, last, head_found, curr_png, rubbish, sliced, rough>>,
         asked' \in 0 .. Len(Bodies), reading' \in BOOLEAN
  PROVE  SlicerInv'
BY DEF SlicerInv, TypeOK, AtImage, Partial, CurrIsImage, SmoothIsSliced

(* What is known of a read before its bytes are looked at.                  *)
LEMMA Reads ==
  ASSUME SlicerInv, NEW end \in last + 1 .. EndAt(asked), asked > 0, Read(end)
  PROVE  /\ first \in Nat /\ last \in Nat /\ end \in Nat /\ end \in Places
         /\ first <= last /\ last < end /\ last' = end
         /\ rough' = rough \cup {k \in Images : CutsRoughly(k, end)}
         /\ UNCHANGED <<asked, reading>>
         /\ SearchFrom \in Nat /\ first <= SearchFrom /\ SearchFrom <= last
         /\ last - 8 <= SearchFrom
         /\ SearchFrom = first \/ SearchFrom = last - 7
<1>1. first \in Nat /\ last \in Nat /\ first <= last /\ asked \in Images
  BY Limits, Sizes DEF SlicerInv, TypeOK, N
<1>2. EndAt(asked) \in Places /\ EndAt(asked) \in Nat /\ end \in Nat /\ last < end
  BY <1>1, Limits, Adjoining
<1>3. end \in Places
  BY <1>1, <1>2, Limits
<1> QED
  BY <1>1, <1>2, <1>3, SearchBegins DEF Read

(* Of two images that begin before a place the first has ended well before  *)
(* it; the front is not behind an image whose head is not yet complete.     *)
LEMMA Before ==
  ASSUME NEW j \in Images, NEW k \in 1 .. N + 1, j < k
  PROVE  /\ HeadAt[j] \in Nat /\ HeadAt[k] \in Nat /\ FootAt(j) \in Nat /\ EndAt(j) \in Nat
         /\ HeadAt[j] + 16 <= HeadAt[k] /\ FootAt(j) + 8 <= HeadAt[k] /\ EndAt(j) <= HeadAt[k]
<1>1. j \in 1 .. N + 1
  BY Sizes
<1> QED
  BY <1>1, Apart, Adjoining

LEMMA Front ==
  ASSUME NEW m \in 1 .. N + 1, first = HeadAt[m], NEW k \in Images, first < HeadAt[k] + 8
  PROVE  m <= k /\ first <= HeadAt[k]
<1>0. k \in 1 .. N + 1 /\ k \in Nat /\ m \in Nat /\ HeadAt[k] \in Nat /\ HeadAt[m] \in Nat
      /\ EndAt(k) = FootAt(k) + 8 /\ HeadAt[k] + 8 <= FootAt(k) /\ FootAt(k) \in Nat
  BY Sizes, Adjoining
<1>1. ASSUME k < m PROVE FALSE
  BY <1>0, <1>1, Before
<1>2. CASE m = k
  BY <1>0, <1>2
<1>3. CASE m < k
  <2>1. m \in Images
    BY <1>0, <1>3, Sizes
  <2> QED
    BY <1>0, <1>3, <2>1, Before
<1> QED
  BY <1>0, <1>1, <1>2, <1>3

(* The image at the front, when its foot is found: it is stored.            *)
LEMMA SliceStored ==
  ASSUME SlicerInv, head_found, NEW end \in last + 1 .. EndAt(asked), asked > 0, Read(end),
         NEW k \in Images, FootAt(k) >= first, FootAt(k) + 8 <= end, SliceAt(FootAt(k))
  PROVE  /\ curr_png' = Image(k) /\ first' = EndAt(k) /\ EndAt(k) <= end
         /\ EndAt(k) \in Places /\ k + 1 \in 1 .. N + 1 /\ first' = HeadAt[k + 1]
         /\ head_found' = FALSE /\ rubbish' \in BOOLEAN
<1>1. PICK m \in Images : first = HeadAt[m]
  BY DEF SlicerInv, AtImage
<1>2. LastHead(FootAt(k)) = HeadAt[k]
  BY <1>1, CutIsImage
<1>3. EndAt(k) = FootAt(k) + TailSize /\ TailSize = 8
  BY DEF EndAt, TailSize
<1>4. curr_png' = Image(k) /\ first' = EndAt(k) /\ head_found' = FALSE
  BY <1>2, <1>3 DEF SliceAt, Image
<1>5. rubbish' \in BOOLEAN
  BY DEF SliceAt, SlicerInv, TypeOK
<1>6. k + 1 \in 1 .. N + 1 /\ EndAt(k) = HeadAt[k + 1] /\ EndAt(k) \in Places
  BY Adjoining, Limits
<1> QED
  BY <1>3, <1>4, <1>5, <1>6

(* FindHead() keeps the invariant: the head of an image that is not cut     *)
(* roughly is found when its last byte arrives.                             *)
LEMMA HeadStep ==
  ASSUME SlicerInv, NEW end \in last + 1 .. EndAt(asked), asked > 0, Read(end), ~head_found
  PROVE  SlicerInv'
<1> DEFINE heads == HeadsIn(SearchFrom, end)
<1>0. /\ first \in Nat /\ last \in Nat /\ end \in Nat /\ end \in Places
      /\ first <= last /\ last < end /\ last' = end
      /\ rough' = rough \cup {k \in Images : CutsRoughly(k, end)}
      /\ UNCHANGED <<asked, reading>>
      /\ SearchFrom \in Nat /\ first <= SearchFrom /\ SearchFrom <= last
      /\ last - 8 <= SearchFrom
      /\ SearchFrom = first \/ SearchFrom = last - 7
  BY Reads
<1>1. /\ head_found' = (heads # {})
      /\ first' = IF heads = {} THEN first ELSE Min(heads)
      /\ rubbish' = (rubbish \/ first' # first)
      /\ UNCHANGED <<curr_png, sliced>>
  BY DEF Read, FindHead
<1>2. PICK m \in 1 .. N + 1 : first = HeadAt[m]
  BY DEF SlicerInv, AtImage
<1>3. /\ heads \in SUBSET Nat
      /\ \A j \in Images : HeadAt[j] >= SearchFrom /\ HeadAt[j] + 8 <= end => HeadAt[j] \in heads
      /\ \A h \in heads : \E j \in Images : h = HeadAt[j] /\ HeadAt[j] >= SearchFrom /\ HeadAt[j] + 8 <= end
  BY <1>0, HeadsFound
<1> HIDE DEF heads
<1>4. heads # {} => /\ Min(heads) \in heads
                    /\ \E j \in Images : /\ Min(heads) = HeadAt[j] /\ HeadAt[j] \in Nat
                                         /\ HeadAt[j] \in Places /\ HeadAt[j] + 8 <= end
  <2> SUFFICES ASSUME heads # {}
               PROVE  /\ Min(heads) \in heads
                      /\ \E j \in Images : /\ Min(heads) = HeadAt[j] /\ HeadAt[j] \in Nat
                                           /\ HeadAt[j] \in Places /\ HeadAt[j] + 8 <= end
    OBVIOUS
  <2>1. Min(heads) \in heads
    BY <1>3, MinExists
  <2>2. PICK j \in Images : Min(heads) = HeadAt[j] /\ HeadAt[j] + 8 <= end
    BY <1>3, <2>1
  <2>3. j \in 1 .. N + 1
    BY Sizes
  <2> QED
    BY <2>1, <2>2, <2>3, Adjoining, Limits
<1>5. AtImage'
  <2>1. CASE heads = {}
    BY <1>1, <1>2, <2>1 DEF AtImage
  <2>2. CASE heads # {}
    <3>1. PICK j \in Images : first' = HeadAt[j] /\ HeadAt[j] + 8 <= end
      BY <1>1, <1>4, <2>2
    <3>2. j \in 1 .. N + 1
      BY Sizes
    <3> QED
      BY <1>0, <3>1, <3>2 DEF AtImage
  <2> QED
    BY <2>1, <2>2
<1>6. TypeOK'
  <2>1. first' \in Places /\ first' <= end
    <3>1. first \in Places
      BY DEF SlicerInv, TypeOK
    <3> QED
      BY <1>0, <1>1, <1>4, <3>1
  <2>2. head_found' \in BOOLEAN /\ rubbish' \in BOOLEAN
    BY <1>1 DEF SlicerInv, TypeOK
  <2>3. rough' \subseteq Images
    BY <1>0 DEF SlicerInv, TypeOK
  <2> QED
    BY <1>0, <1>1, <2>1, <2>2, <2>3 DEF SlicerInv, TypeOK
<1>7. ASSUME NEW k \in Images, Partial(k)', k \notin rough'
      PROVE  head_found' /\ first' <= HeadAt[k]
  <2>0. k \in 1 .. N + 1 /\ k \in Nat /\ HeadAt[k] \in Nat /\ EndAt(k) \in Nat
    BY Sizes, Adjoining
  <2>1. HeadAt[k] + 8 <= end /\ end < EndAt(k) /\ k \notin rough /\ ~CutsRoughly(k, end)
    BY <1>0, <1>7 DEF Partial
  <2>2. ~Partial(k)
    BY <2>1 DEF SlicerInv
  <2>3. last < HeadAt[k] + 8 /\ HeadAt[k] <= last
    BY <1>0, <2>0, <2>1, <2>2 DEF Partial, CutsRoughly, HeadSize
  <2>4. first <= HeadAt[k]
    BY <1>0, <1>2, <2>0, <2>3, Front
  <2>5. HeadAt[k] \in heads
    BY <1>0, <1>3, <2>0, <2>1, <2>3, <2>4
  <2>6. first' <= HeadAt[k]
    <3>1. Min(heads) <= HeadAt[k]
      BY <1>3, <2>5, MinExists
    <3> QED
      BY <1>1, <2>5, <3>1
  <2> QED
    BY <1>1, <2>5, <2>6
<1>8. SmoothIsSliced'
  <2> SUFFICES ASSUME NEW k \in Images, EndAt(k) <= end, k \notin rough'
               PROVE  Image(k) \in sliced
    BY <1>0, <1>1 DEF SmoothIsSliced, Image
  <2>0. k \in 1 .. N + 1 /\ HeadAt[k] \in Nat /\ EndAt(k) \in Nat /\ k \notin rough /\ ~CutsRoughly(k, end)
    BY <1>0, Sizes, Adjoining
  <2>1. last >= HeadAt[k] + 8
    BY <1>0, <2>0 DEF CutsRoughly, HeadSize
  <2>2. EndAt(k) <= last
    BY <1>0, <2>0, <2>1 DEF SlicerInv, Partial
  <2> QED
    BY <2>0, <2>2 DEF SlicerInv, SmoothIsSliced
<1>9. CurrIsImage' /\ sliced' \subseteq {Image(k) : k \in Images}
  BY <1>1 DEF SlicerInv, CurrIsImage, Image
<1>10. \A k \in Images : Partial(k)' => k \in rough' \/ (head_found' /\ first' <= HeadAt[k])
  BY <1>7
<1> QED
  BY <1>5, <1>6, <1>8, <1>9, <1>10, Zenon DEF SlicerInv, Image

(* FindFoot() keeps it: what is at the front when a foot is found is sliced,*)
(* and a foot that is not cut roughly is found when the CRC has arrived.    *)
LEMMA FootStep ==
  ASSUME SlicerInv, NEW end \in last + 1 .. EndAt(asked), asked > 0, Read(end), head_found
  PROVE  SlicerInv'
<1> DEFINE feet == FeetIn(SearchFrom, end)
<1>0. /\ first \in Nat /\ last \in Nat /\ end \in Nat /\ end \in Places
      /\ first <= last /\ last < end /\ last' = end
      /\ rough' = rough \cup {k \in Images : CutsRoughly(k, end)}
      /\ UNCHANGED <<asked, reading>>
      /\ SearchFrom \in Nat /\ first <= SearchFrom /\ SearchFrom <= last
      /\ last - 8 <= SearchFrom
      /\ SearchFrom = first \/ SearchFrom = last - 7
  BY Reads
<1>1. IF feet # {} /\ end - Min(feet) >= 8
        THEN SliceAt(Min(feet)) /\ sliced' = sliced \cup {curr_png'}
        ELSE UNCHANGED <<first, head_found, curr_png, rubbish, sliced>>
  BY DEF Read, FindFoot
<1>2. PICK m \in Images : first = HeadAt[m] /\ HeadAt[m] + 8 <= last
  BY DEF SlicerInv, AtImage
<1>3. /\ feet \in SUBSET Nat
      /\ \A j \in Images : FootAt(j) >= SearchFrom /\ FootAt(j) + 4 <= end => FootAt(j) \in feet
      /\ \A f \in feet : \E j \in Images : f = FootAt(j) /\ FootAt(j) >= SearchFrom /\ FootAt(j) + 4 <= end
  BY <1>0, FeetFound
<1> HIDE DEF feet
<1>4. m \in 1 .. N + 1 /\ m \in Nat /\ HeadAt[m] \in Nat
  BY Sizes, Adjoining
(* What a smooth image asks of the search, while it comes in.               *)
<1>5. ASSUME NEW k \in Images, k \notin rough, HeadAt[k] + 8 <= last, last < EndAt(k)
      PROVE  /\ \A f \in feet : FootAt(k) <= f
             /\ EndAt(k) <= end => FootAt(k) \in feet /\ end - FootAt(k) >= 8
             /\ first <= HeadAt[k]
  <2>0. k \in 1 .. N + 1 /\ k \in Nat /\ HeadAt[k] \in Nat /\ FootAt(k) \in Nat
        /\ EndAt(k) = FootAt(k) + 8 /\ HeadAt[k] + 8 <= FootAt(k)
    BY Sizes, Adjoining
  <2>1. first <= HeadAt[k]
    BY <1>5 DEF SlicerInv, Partial
  <2>2. ASSUME NEW f \in feet PROVE FootAt(k) <= f
    <3>1. PICK j \in Images : f = FootAt(j) /\ FootAt(j) >= SearchFrom
      BY <1>3
    <3>2. j \in Nat /\ j \in 1 .. N + 1 /\ FootAt(j) \in Nat /\ HeadAt[j] \in Nat
          /\ EndAt(j) = FootAt(j) + 8 /\ HeadAt[j] + 8 <= FootAt(j)
      BY Sizes, Adjoining
    <3>3. CASE j < k
      <4>1. FootAt(j) + 8 <= HeadAt[k]
        BY <2>0, <3>3, Before
      <4> QED
        BY <1>0, <1>5, <2>0, <3>1, <3>2, <4>1
    <3>4. CASE j = k
      BY <2>0, <3>1, <3>4
    <3>5. CASE k < j
      <4>1. FootAt(k) + 8 <= HeadAt[j]
        BY <3>2, <3>5, Before
      <4> QED
        BY <2>0, <3>1, <3>2, <4>1
    <3> QED
      BY <2>0, <3>2, <3>3, <3>4, <3>5
  <2>3. ASSUME EndAt(k) <= end PROVE FootAt(k) \in feet /\ end - FootAt(k) >= 8
    <3>1. FootAt(k) >= SearchFrom
      <4>1. CASE SearchFrom = first
        BY <1>0, <2>0, <2>1, <4>1
      <4>2. CASE SearchFrom = last - 7
        BY <1>0, <1>5, <2>0, <4>2
      <4> QED
        BY <1>0, <4>1, <4>2
    <3>2. FootAt(k) + 4 <= end
      BY <1>0, <2>0, <2>3
    <3> QED
      BY <1>0, <1>3, <2>0, <2>3, <3>1, <3>2
  <2> QED
    BY <2>1, <2>2, <2>3
(* A smooth image whose head comes in: no foot of an image before it can be *)
(* found any more.                                                          *)
<1>6. ASSUME NEW k \in Images, k \notin rough', last < HeadAt[k] + 8, HeadAt[k] + 8 <= end
      PROVE  (\A f \in feet : end - f < 8) /\ first <= HeadAt[k] /\ end < EndAt(k)
  <2>0. k \in 1 .. N + 1 /\ k \in Nat /\ HeadAt[k] \in Nat /\ FootAt(k) \in Nat
        /\ EndAt(k) = FootAt(k) + 8 /\ HeadAt[k] + 8 <= FootAt(k)
    BY Sizes, Adjoining
  <2>1. ~CutsRoughly(k, end)
    BY <1>0, <1>6
  <2>2. HeadAt[k] <= last /\ end < EndAt(k)
    BY <1>0, <1>6, <2>0, <2>1 DEF CutsRoughly, HeadSize
  <2>3. first <= HeadAt[k] /\ m <= k
    BY <1>0, <1>2, <1>4, <1>6, <2>0, Front
  <2>4. m < k
    BY <1>0, <1>2, <1>4, <1>6, <2>0, <2>3
  <2>5. SearchFrom = last - 7
    <3>1. HeadAt[m] + 16 <= HeadAt[k]
      BY <2>0, <2>4, Before
    <3> QED
      BY <1>0, <1>2, <1>4, <2>0, <2>2, <3>1
  <2>6. ASSUME NEW f \in feet PROVE end - f < 8
    <3>1. PICK j \in Images : f = FootAt(j) /\ FootAt(j) >= SearchFrom
      BY <1>3
    <3>2. j \in Nat /\ j \in 1 .. N + 1 /\ FootAt(j) \in Nat /\ HeadAt[j] \in Nat
          /\ EndAt(j) = FootAt(j) + 8 /\ HeadAt[j] + 8 <= FootAt(j)
      BY Sizes, Adjoining
    <3>3. CASE j < k
      <4>1. FootAt(j) + 8 <= HeadAt[k]
        BY <2>0, <3>3, Before
      <4> QED
        BY <1>0, <2>0, <2>2, <2>5, <3>1, <3>2, <4>1
    <3>4. CASE j = k
      BY <1>0, <2>0, <2>2, <3>1, <3>4
    <3>5. CASE k < j
      <4>1. FootAt(k) + 8 <= HeadAt[j]
        BY <3>2, <3>5, Before
      <4> QED
        BY <1>0, <2>0, <2>2, <3>1, <3>2, <4>1
    <3> QED
      BY <2>0, <3>2, <3>3, <3>4, <3>5
  <2> QED
    BY <2>2, <2>3, <2>6
<1>7. rough' \subseteq Images /\ rough \subseteq rough'
  BY <1>0 DEF SlicerInv, TypeOK
<1>8. CASE feet # {} /\ end - Min(feet) >= 8
  <2>1. Min(feet) \in feet /\ (\A f \in feet : Min(feet) <= f) /\ Min(feet) \in Nat
    BY <1>3, <1>8, MinExists
  <2>2. PICK i \in Images : Min(feet) = FootAt(i) /\ FootAt(i) >= SearchFrom
    BY <1>3, <2>1
  <2>3. SliceAt(FootAt(i)) /\ sliced' = sliced \cup {curr_png'}
    BY <1>1, <1>8, <2>2
  <2>4. FootAt(i) \in Nat /\ FootAt(i) >= first /\ FootAt(i) + 8 <= end
    BY <1>0, <1>8, <2>1, <2>2
  <2>5. /\ curr_png' = Image(i) /\ first' = EndAt(i) /\ EndAt(i) <= end
        /\ EndAt(i) \in Places /\ i + 1 \in 1 .. N + 1 /\ first' = HeadAt[i + 1]
        /\ head_found' = FALSE /\ rubbish' \in BOOLEAN
    BY <2>3, <2>4, SliceStored
  <2>6. Image(i) \in [from : Places, to : Places]
    <3>1. HeadAt[i] \in Places /\ EndAt(i) \in Places
      BY Sizes, Limits
    <3> QED
      BY <3>1 DEF Image
  <2>7. TypeOK'
    BY <1>0, <1>7, <2>3, <2>5, <2>6 DEF SlicerInv, TypeOK
  <2>8. AtImage'
    BY <2>5 DEF AtImage
  <2>9. sliced' \subseteq {Image(k) : k \in Images} /\ CurrIsImage'
    BY <2>3, <2>5 DEF SlicerInv, CurrIsImage, Image
  <2>10. ASSUME NEW k \in Images, Partial(k)' PROVE k \in rough'
    <3> SUFFICES ASSUME k \notin rough' PROVE FALSE
      OBVIOUS
    <3>0. HeadAt[k] \in Nat /\ EndAt(k) \in Nat /\ EndAt(k) = FootAt(k) + 8 /\ FootAt(k) \in Nat
      BY Sizes, Adjoining
    <3>1. HeadAt[k] + 8 <= end /\ end < EndAt(k)
      BY <1>0, <2>10 DEF Partial
    <3>2. CASE last < HeadAt[k] + 8
      BY <1>0, <1>6, <1>8, <2>1, <3>1, <3>2
    <3>3. CASE HeadAt[k] + 8 <= last
      <4>1. FootAt(k) <= Min(feet)
        BY <1>0, <1>5, <1>7, <2>1, <3>0, <3>1, <3>3
      <4> QED
        BY <1>0, <2>2, <2>4, <3>0, <3>1, <4>1
    <3> QED
      BY <1>0, <3>0, <3>2, <3>3
  <2>11. ASSUME NEW k \in Images, EndAt(k) <= end, k \notin rough' PROVE Image(k) \in sliced'
    <3>0. HeadAt[k] \in Nat /\ EndAt(k) \in Nat /\ EndAt(k) = FootAt(k) + 8 /\ FootAt(k) \in Nat
          /\ HeadAt[k] + 8 <= FootAt(k) /\ k \in Nat /\ i \in Nat
      BY Sizes, Adjoining
    <3>1. CASE EndAt(k) <= last
      BY <1>7, <2>3, <2>11, <3>1 DEF SlicerInv, SmoothIsSliced
    <3>2. CASE last < EndAt(k) /\ HeadAt[k] + 8 <= last
      <4>1. FootAt(k) \in feet /\ \A f \in feet : FootAt(k) <= f
        BY <1>5, <1>7, <2>11, <3>2
      <4>2. Min(feet) = FootAt(k)
        BY <1>3, <4>1, MinIs
      <4>3. FootAt(i) = FootAt(k)
        BY <2>2, <4>2
      <4>4. i = k
        <5>1. ASSUME i < k PROVE FALSE
          <6>1. k \in 1 .. N + 1
            BY Sizes
          <6>2. FootAt(i) + 8 <= HeadAt[k]
            BY <5>1, <6>1, Before
          <6> QED
            BY <3>0, <4>3, <6>2
        <5>2. ASSUME k < i PROVE FALSE
          <6>1. i \in 1 .. N + 1
            BY Sizes
          <6>2. FootAt(k) + 8 <= HeadAt[i] /\ HeadAt[i] + 8 <= FootAt(i) /\ HeadAt[i] \in Nat
            BY <5>2, <6>1, Before, Adjoining
          <6> QED
            BY <3>0, <4>3, <6>2
        <5> QED
          BY <3>0, <5>1, <5>2
      <4> QED
        BY <2>3, <2>5, <4>4
    <3>3. CASE last < HeadAt[k] + 8
      <4>1. HeadAt[k] + 8 <= end
        BY <1>0, <2>11, <3>0
      <4>2. end < EndAt(k)
        BY <1>6, <2>11, <3>3, <4>1
      <4> QED
        BY <1>0, <2>11, <3>0, <4>2
    <3> QED
      BY <1>0, <3>0, <3>1, <3>2, <3>3
  <2>12. SmoothIsSliced'
    BY <1>0, <2>11 DEF SmoothIsSliced, Image
  <2>13. \A k \in Images : Partial(k)' => k \in rough' \/ (head_found' /\ first' <= HeadAt[k])
    BY <2>10
  <2> QED
    BY <2>7, <2>8, <2>9, <2>12, <2>13, Zenon DEF SlicerInv, Image
<1>9. CASE ~(feet # {} /\ end - Min(feet) >= 8)
  <2>1. UNCHANGED <<first, head_found, curr_png, rubbish, sliced>>
    BY <1>1, <1>9
  <2>2. TypeOK'
    BY <1>0, <1>7, <2>1 DEF SlicerInv, TypeOK
  <2>3. AtImage'
    BY <1>0, <1>2, <1>4, <2>1 DEF AtImage
  <2>4. sliced' \subseteq {Image(k) : k \in Images} /\ CurrIsImage'
    BY <2>1 DEF SlicerInv, CurrIsImage, Image
  <2>5. ASSUME NEW k \in Images, Partial(k)', k \notin rough' PROVE head_found' /\ first' <= HeadAt[k]
    <3>0. HeadAt[k] \in Nat /\ EndAt(k) \in Nat
      BY Sizes, Adjoining
    <3>1. HeadAt[k] + 8 <= end /\ end < EndAt(k)
      BY <1>0, <2>5 DEF Partial
    <3>2. first <= HeadAt[k]
      <4>1. CASE last < HeadAt[k] + 8
        BY <1>6, <2>5, <3>1, <4>1
      <4>2. CASE HeadAt[k] + 8 <= last
        <5>1. last < EndAt(k) /\ k \notin rough
          BY <1>0, <1>7, <2>5, <3>0, <3>1
        <5> QED
          BY <1>5, <4>2, <5>1
      <4> QED
        BY <1>0, <3>0, <4>1, <4>2
    <3> QED
      BY <2>1, <3>2
  <2>6. ASSUME NEW k \in Images, EndAt(k) <= end, k \notin rough' PROVE Image(k) \in sliced'
    <3>0. HeadAt[k] \in Nat /\ EndAt(k) \in Nat /\ EndAt(k) = FootAt(k) + 8 /\ FootAt(k) \in Nat
          /\ HeadAt[k] + 8 <= FootAt(k)
      BY Sizes, Adjoining
    <3>1. CASE EndAt(k) <= last
      BY <1>7, <2>1, <2>6, <3>1 DEF SlicerInv, SmoothIsSliced
    <3>2. CASE last < EndAt(k) /\ HeadAt[k] + 8 <= last
      <4>1. FootAt(k) \in feet /\ end - FootAt(k) >= 8 /\ \A f \in feet : FootAt(k) <= f
        BY <1>5, <1>7, <2>6, <3>2
      <4>2. Min(feet) = FootAt(k)
        BY <1>3, <4>1, MinIs
      <4> QED
        BY <1>9, <4>1, <4>2
    <3>3. CASE last < HeadAt[k] + 8
      <4>1. HeadAt[k] + 8 <= end
        BY <1>0, <2>6, <3>0
      <4>2. end < EndAt(k)
        BY <1>6, <2>6, <3>3, <4>1
      <4> QED
        BY <1>0, <2>6, <3>0, <4>2
    <3> QED
      BY <1>0, <3>0, <3>1, <3>2, <3>3
  <2>7. SmoothIsSliced'
    BY <1>0, <2>6 DEF SmoothIsSliced, Image
  <2>8. \A k \in Images : Partial(k)' => k \in rough' \/ (head_found' /\ first' <= HeadAt[k])
    BY <2>5
  <2> QED
    BY <2>2, <2>3, <2>4, <2>7, <2>8, Zenon DEF SlicerInv, Image
<1> QED
  BY <1>8, <1>9

LEMMA SlicerStep == SlicerInv /\ [Next]_vars => SlicerInv'
<1> SUFFICES ASSUME SlicerInv, [Next]_vars PROVE SlicerInv'
  OBVIOUS
<1>1. asked \in 0 .. Len(Bodies) /\ reading \in BOOLEAN /\ Len(Bodies) \in Nat
  BY Sizes DEF SlicerInv, TypeOK, N
<1>2. ASSUME Ask PROVE SlicerInv'
  BY <1>1, <1>2, SlicerStutters DEF Ask
<1>3. ASSUME ReadEnds PROVE SlicerInv'
  BY <1>1, <1>3, SlicerStutters DEF ReadEnds
<1>4. ASSUME asked > 0, NEW end \in last + 1 .. EndAt(asked), Read(end) PROVE SlicerInv'
  BY <1>4, HeadStep, FootStep
<1>5. ASSUME UNCHANGED vars PROVE SlicerInv'
  BY <1>1, <1>5, SlicerStutters DEF vars
<1> QED
  BY <1>2, <1>3, <1>4, <1>5 DEF Next

LEMMA SlicerInvariant == Spec => []SlicerInv
BY SlicerInit, SlicerStep, PTL DEF Spec

(* The variables keep their types, for images of every size.                *)
THEOREM SlicerTypeCorrect == Spec => []TypeOK
<1>1. SlicerInv => TypeOK
  BY DEF SlicerInv
<1> QED
  BY <1>1, SlicerInvariant, PTL

(* However the stream is cut into reads and whatever was missed before,     *)
(* curr_png starts with one whole image of gnuplot (plotscope.h:85).        *)
THEOREM StoredIsImage == Spec => []CurrIsImage
<1>1. SlicerInv => CurrIsImage
  BY DEF SlicerInv
<1> QED
  BY <1>1, SlicerInvariant, PTL

(* Only images that a read cuts roughly are missed: the slicer always finds *)
(* into step again.                                                         *)
THEOREM SmoothIsStored == Spec => []SmoothIsSliced
<1>1. SlicerInv => SmoothIsSliced
  BY DEF SlicerInv
<1> QED
  BY <1>1, SlicerInvariant, PTL

=============================================================================
