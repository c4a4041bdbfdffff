-------------------------- MODULE CellImagesProofs --------------------------
(***************************************************************************)
(* Machine-checked proofs about CellImages, for any number of cells, URLs  *)
(* and downloads.                                                          *)
(***************************************************************************)
EXTENDS CellImages, TLAPS

(* The cache holds the picture of a URL under that URL. *)
CacheSound == \A u \in Urls : cache[u] \in {u, NoPicture}

(* Conjuncts of TypeOK that PictureOfRow rests on. *)
Shapes ==
  /\ wanted \in [Cells -> Urls \cup {NoPicture}]
  /\ picture \in [Cells -> Urls \cup {NoPicture, Placeholder}]
  /\ cache \in [Urls -> Urls \cup {NoPicture}]

PictureInv == Shapes /\ CacheSound /\ PictureOfRow

LEMMA PictureInit == Init => PictureInv
BY DEF Init, PictureInv, Shapes, CacheSound, PictureOfRow, Cells

(* A CachedImageView that gets a row shows its picture, if the cache has   *)
(* it, or the placeholder.                                                 *)
LEMMA loadImageShows ==
  ASSUME PictureInv, NEW c \in Cached, NEW u \in Urls, loadImage(c, u)
  PROVE  \E p \in {u, Placeholder} : picture' = [picture EXCEPT ![c] = p]
<1>1. CASE cache[u] # NoPicture
  BY <1>1 DEF loadImage, PictureInv, CacheSound
<1>2. CASE cache[u] = NoPicture
  BY <1>2 DEF loadImage
<1> QED
  BY <1>1, <1>2

LEMMA PictureStep == PictureInv /\ [Next]_vars => PictureInv'
<1> SUFFICES ASSUME PictureInv, [Next]_vars
             PROVE  PictureInv'
  OBVIOUS
<1> USE DEF PictureInv, Shapes, CacheSound, PictureOfRow, Cells
<1>1. ASSUME NEW c \in Cached, NEW u \in Urls, ConfigureCached(c, u)
      PROVE  PictureInv'
  <2>1. PICK p \in {u, Placeholder} : picture' = [picture EXCEPT ![c] = p]
    BY <1>1, loadImageShows DEF ConfigureCached
  <2>2. wanted' = [wanted EXCEPT ![c] = u] /\ cache' = cache
    BY <1>1 DEF ConfigureCached
  <2> QED
    BY <2>1, <2>2
<1>2. ASSUME NEW c \in Cached, NEW u \in Urls, ArriveCached(c, u)
      PROVE  PictureInv'
  <2>1. picture' = [d \in Cells |-> IF d \in Shows(c, u) THEN u ELSE picture[d]]
    BY <1>2 DEF ArriveCached
  <2>2. \A d \in Shows(c, u) : wanted[d] = u
    BY DEF Shows
  <2>3. wanted' = wanted /\ cache' = [cache EXCEPT ![u] = u]
    BY <1>2 DEF ArriveCached
  <2> QED
    BY <2>1, <2>2, <2>3
<1>3. ASSUME NEW c \in Plain, NEW u \in Urls, ConfigurePlain(c, u) \/ ArrivePlain(c, u)
      PROVE  PictureInv'
  BY <1>3, PicturesAssumption DEF ConfigurePlain, ArrivePlain
<1>4. ASSUME NEW c \in Cells, NEW u \in Urls, Lose(c, u)
      PROVE  PictureInv'
  BY <1>4 DEF Lose
<1>5. ASSUME NEW c \in Cells, NEW u \in Urls, ArriveNoPicture(c, u)
      PROVE  PictureInv'
  BY <1>5 DEF ArriveNoPicture
<1>6. ASSUME NEW u \in Urls, Evict(u)
      PROVE  PictureInv'
  BY <1>6 DEF Evict
<1>7. CASE UNCHANGED vars
  BY <1>7 DEF vars
<1> QED
  BY <1>1, <1>2, <1>3, <1>4, <1>5, <1>6, <1>7 DEF Next

(* A CachedImageView never shows the picture of another row, whatever      *)
(* order the downloads of its cell finish in: loadImage's comparison of    *)
(* imageUrl.                                                               *)
THEOREM CachedCellsShowTheirRow == Spec => []PictureOfRow
<1>1. PictureInv => PictureOfRow
  BY DEF PictureInv
<1> QED
  BY PictureInit, PictureStep, <1>1, PTL DEF Spec

-----------------------------------------------------------------------------
(***************************************************************************)
(* Product cells, which compare nothing.  A cell that was not reused while *)
(* a download for another row was on its way waits for its own row only.   *)
(***************************************************************************)
LoadsItsRow(c) ==
  /\ \A u \in Urls : u # wanted[c] => loading[c][u] = 0
  /\ (\A u \in Urls : loading[c][u] = 0) => picture[c] = wanted[c]

(* No URL has more downloads on their way than rows were configured. *)
LoadingBounded == \A c \in Cells, u \in Urls : loading[c][u] <= rows

ProductInv ==
  /\ TypeOK /\ LoadingBounded
  /\ lost = 0 => \A c \in Plain \ mixed : LoadsItsRow(c)

LEMMA ProductInit == Init => ProductInv
BY PicturesAssumption DEF Init, ProductInv, TypeOK, LoadingBounded, LoadsItsRow, Cells

LEMMA StartCounts ==
  ASSUME TypeOK, LoadingBounded, NEW c \in Cells, NEW u \in Urls, Start(c, u),
         rows < MaxRows, rows' = rows + 1
  PROVE  /\ loading' \in [Cells -> [Urls -> 0 .. MaxRows]] /\ LoadingBounded'
         /\ \A d \in Cells, v \in Urls :
              loading'[d][v] = IF d = c /\ v = u THEN loading[d][v] + 1 ELSE loading[d][v]
         /\ rows' \in 0 .. MaxRows
<1>1. \A d \in Cells, v \in Urls : loading[d][v] \in 0 .. MaxRows /\ loading[d][v] <= rows
  BY DEF TypeOK, LoadingBounded
<1>2. rows \in Nat /\ MaxRows \in Nat
  BY PicturesAssumption DEF TypeOK
<1>3. loading[c][u] + 1 \in 0 .. MaxRows
  BY <1>1, <1>2
<1>4. /\ loading' \in [Cells -> [Urls -> 0 .. MaxRows]]
      /\ \A d \in Cells, v \in Urls :
           loading'[d][v] = IF d = c /\ v = u THEN loading[d][v] + 1 ELSE loading[d][v]
  BY <1>3 DEF Start, TypeOK
<1>5. LoadingBounded'
  BY <1>1, <1>2, <1>4 DEF LoadingBounded
<1> QED
  BY <1>2, <1>4, <1>5

LEMMA FinishCounts ==
  ASSUME TypeOK, LoadingBounded, NEW c \in Cells, NEW u \in Urls, Finish(c, u), UNCHANGED rows
  PROVE  /\ loading' \in [Cells -> [Urls -> 0 .. MaxRows]] /\ LoadingBounded'
         /\ loading[c][u] > 0
         /\ \A d \in Cells, v \in Urls :
              loading'[d][v] = IF d = c /\ v = u THEN loading[d][v] - 1 ELSE loading[d][v]
<1>1. \A d \in Cells, v \in Urls : loading[d][v] \in 0 .. MaxRows /\ loading[d][v] <= rows
  BY DEF TypeOK, LoadingBounded
<1>2. rows \in Nat /\ MaxRows \in Nat
  BY PicturesAssumption DEF TypeOK
<1>3. loading[c][u] > 0 /\ loading[c][u] - 1 \in 0 .. MaxRows
  BY <1>1, <1>2 DEF Finish
<1>4. /\ loading' \in [Cells -> [Urls -> 0 .. MaxRows]]
      /\ \A d \in Cells, v \in Urls :
           loading'[d][v] = IF d = c /\ v = u THEN loading[d][v] - 1 ELSE loading[d][v]
  BY <1>3 DEF Finish, TypeOK
<1>5. LoadingBounded'
  BY <1>1, <1>2, <1>4 DEF LoadingBounded
<1> QED
  BY <1>3, <1>4, <1>5

LEMMA ProductStep == ProductInv /\ [Next]_vars => ProductInv'
<1> SUFFICES ASSUME ProductInv, [Next]_vars
             PROVE  ProductInv'
  OBVIOUS
<1> USE PicturesAssumption
<1>1. ASSUME NEW c \in Cached, NEW u \in Urls, ConfigureCached(c, u)
      PROVE  ProductInv'
  <2> USE DEF ProductInv
  <2>1. /\ wanted' = [wanted EXCEPT ![c] = u] /\ UNCHANGED <<cache, lost, mixed>>
        /\ rows < MaxRows /\ rows' = rows + 1 /\ c \in Cells /\ c \notin Plain
    BY <1>1 DEF ConfigureCached, Cells
  <2>2. /\ picture' \in [Cells -> Urls \cup {NoPicture, Placeholder}]
        /\ \A d \in Plain : picture'[d] = picture[d]
    BY <1>1, <2>1 DEF ConfigureCached, loadImage, TypeOK, Cells
  <2>3. /\ loading' \in [Cells -> [Urls -> 0 .. MaxRows]] /\ LoadingBounded'
        /\ \A d \in Plain : \A v \in Urls : loading'[d][v] = loading[d][v]
        /\ rows' \in 0 .. MaxRows
    <3>1. CASE Start(c, u)
      <4>1. /\ loading' \in [Cells -> [Urls -> 0 .. MaxRows]] /\ LoadingBounded'
            /\ \A d \in Cells, v \in Urls :
                 loading'[d][v] = IF d = c /\ v = u THEN loading[d][v] + 1 ELSE loading[d][v]
            /\ rows' \in 0 .. MaxRows
        BY <2>1, <3>1, StartCounts
      <4>2. \A d \in Plain : d \in Cells /\ d # c
        BY <2>1 DEF Cells
      <4> QED
        BY <4>1, <4>2
    <3>2. CASE UNCHANGED loading
      <4>1. rows \in Nat /\ rows' \in 0 .. MaxRows
        BY <2>1 DEF TypeOK
      <4>2. \A d \in Cells, v \in Urls : loading[d][v] \in Nat
        BY DEF TypeOK
      <4> QED
        BY <2>1, <3>2, <4>1, <4>2 DEF TypeOK, LoadingBounded
    <3> QED
      BY <1>1, <3>1, <3>2 DEF ConfigureCached, loadImage
  <2>4. \A d \in Plain : wanted'[d] = wanted[d]
    BY <2>1 DEF TypeOK, Cells
  <2>5. \A d \in Plain : LoadsItsRow(d) => LoadsItsRow(d)'
    BY <2>2, <2>3, <2>4 DEF LoadsItsRow
  <2> QED
    BY <2>1, <2>2, <2>3, <2>5 DEF TypeOK
<1>2. ASSUME NEW c \in Plain, NEW u \in Urls, ConfigurePlain(c, u)
      PROVE  ProductInv'
  <2> USE DEF ProductInv
  <2>1. /\ wanted' = [wanted EXCEPT ![c] = u] /\ UNCHANGED <<picture, cache, lost>>
        /\ rows < MaxRows /\ rows' = rows + 1 /\ c \in Cells /\ Start(c, u)
        /\ mixed' = mixed \cup {d \in {c} : \E v \in Urls \ {u} : loading[c][v] > 0}
    BY <1>2 DEF ConfigurePlain, LoadAlways, Cells
  <2>2. /\ loading' \in [Cells -> [Urls -> 0 .. MaxRows]] /\ LoadingBounded'
        /\ \A d \in Cells, v \in Urls :
             loading'[d][v] = IF d = c /\ v = u THEN loading[d][v] + 1 ELSE loading[d][v]
        /\ rows' \in 0 .. MaxRows
    BY <2>1, StartCounts
  <2>3. TypeOK'
    BY <2>1, <2>2 DEF TypeOK
  <2>4. ASSUME lost = 0, NEW d \in Plain \ mixed' PROVE LoadsItsRow(d)'
    <3>1. d \in Cells /\ d \notin mixed /\ LoadsItsRow(d)
      BY <2>1, <2>4 DEF Cells
    <3>2. CASE d = c
      <4>1. \A v \in Urls \ {u} : loading[c][v] = 0
        BY <2>1, <2>4, <3>2 DEF TypeOK
      <4>2. wanted'[d] = u /\ loading'[d][u] > 0
        BY <2>1, <2>2, <3>1, <3>2 DEF TypeOK
      <4> QED
        BY <2>2, <3>1, <3>2, <4>1, <4>2 DEF LoadsItsRow
    <3>3. CASE d # c
      <4>1. wanted'[d] = wanted[d] /\ picture'[d] = picture[d]
            /\ \A v \in Urls : loading'[d][v] = loading[d][v]
        BY <2>1, <2>2, <3>1, <3>3 DEF TypeOK
      <4> QED
        BY <3>1, <4>1 DEF LoadsItsRow
    <3> QED
      BY <3>2, <3>3
  <2> QED
    BY <2>1, <2>2, <2>3, <2>4
<1>3. ASSUME NEW c \in Cells, NEW u \in Urls, \/ c \in Cached /\ ArriveCached(c, u)
                                              \/ c \in Plain /\ ArrivePlain(c, u)
      PROVE  ProductInv'
  <2> USE DEF ProductInv
  <2>1. Finish(c, u) /\ UNCHANGED <<wanted, rows, lost, mixed>>
    BY <1>3 DEF ArriveCached, ArrivePlain
  <2>2. /\ loading' \in [Cells -> [Urls -> 0 .. MaxRows]] /\ LoadingBounded'
        /\ loading[c][u] > 0
        /\ \A d \in Cells, v \in Urls :
             loading'[d][v] = IF d = c /\ v = u THEN loading[d][v] - 1 ELSE loading[d][v]
    BY <2>1, FinishCounts
  <2>3. /\ picture' \in [Cells -> Urls \cup {NoPicture, Placeholder}]
        /\ cache' \in [Urls -> Urls \cup {NoPicture}]
        /\ \A d \in Plain : picture'[d] = IF d = c THEN u ELSE picture[d]
    BY <1>3 DEF ArriveCached, ArrivePlain, Shows, TypeOK, Cells
  <2>4. TypeOK'
    BY <2>1, <2>2, <2>3 DEF TypeOK
  <2>5. ASSUME lost = 0, NEW d \in Plain \ mixed PROVE LoadsItsRow(d)'
    <3>1. d \in Cells /\ LoadsItsRow(d) /\ wanted'[d] = wanted[d]
      BY <2>1, <2>5 DEF Cells
    <3>2. CASE d = c
      <4>1. u = wanted[d] /\ picture'[d] = u
        BY <2>2, <2>3, <3>1, <3>2 DEF LoadsItsRow, TypeOK
      <4> QED
        BY <2>2, <3>1, <3>2, <4>1 DEF LoadsItsRow
    <3>3. CASE d # c
      <4>1. picture'[d] = picture[d] /\ \A v \in Urls : loading'[d][v] = loading[d][v]
        BY <2>2, <2>3, <3>1, <3>3
      <4> QED
        BY <3>1, <4>1 DEF LoadsItsRow
    <3> QED
      BY <3>2, <3>3
  <2> QED
    BY <2>1, <2>2, <2>4, <2>5
<1>4. ASSUME NEW c \in Cells, NEW u \in Urls, Lose(c, u)
      PROVE  ProductInv'
  <2> USE DEF ProductInv
  <2>1. /\ Finish(c, u) /\ UNCHANGED <<wanted, picture, cache, rows, mixed>>
        /\ lost < MaxLost /\ lost' = lost + 1
    BY <1>4 DEF Lose
  <2>2. loading' \in [Cells -> [Urls -> 0 .. MaxRows]] /\ LoadingBounded'
    BY <2>1, FinishCounts
  <2>3. lost' \in 0 .. MaxLost /\ lost' # 0
    BY <2>1 DEF TypeOK
  <2> QED
    BY <2>1, <2>2, <2>3 DEF TypeOK
<1>5. ASSUME NEW c \in Cells, NEW u \in Urls, ArriveNoPicture(c, u)
      PROVE  ProductInv'
  <2> USE DEF ProductInv
  <2>1. /\ lost < MaxLost /\ lost' = lost + 1 /\ UNCHANGED rows
        /\ wanted' = [d \in Cells |-> NoPicture] /\ picture' = [d \in Cells |-> NoPicture]
        /\ cache' = [v \in Urls |-> NoPicture]
        /\ loading' = [d \in Cells |-> [v \in Urls |-> 0]] /\ mixed' = {}
    BY <1>5 DEF ArriveNoPicture
  <2>2. lost' \in 0 .. MaxLost /\ lost' # 0 /\ rows \in Nat
    BY <2>1 DEF TypeOK
  <2> QED
    BY <2>1, <2>2 DEF TypeOK, LoadingBounded
<1>6. ASSUME NEW u \in Urls, Evict(u)
      PROVE  ProductInv'
  BY <1>6 DEF Evict, ProductInv, TypeOK, LoadingBounded, LoadsItsRow
<1>7. CASE UNCHANGED vars
  BY <1>7 DEF vars, ProductInv, TypeOK, LoadingBounded, LoadsItsRow
<1>8. Cached \subseteq Cells /\ Plain \subseteq Cells
  BY DEF Cells
<1>9. ASSUME NEW u \in Urls, NEW c \in Cells,
             \/ c \in Cached /\ (ConfigureCached(c, u) \/ ArriveCached(c, u))
             \/ c \in Plain /\ (ConfigurePlain(c, u) \/ ArrivePlain(c, u))
             \/ Lose(c, u) \/ ArriveNoPicture(c, u) \/ Evict(u)
      PROVE  ProductInv'
  <2>1. CASE c \in Cached /\ ConfigureCached(c, u)
    BY <1>1, <2>1
  <2>2. CASE c \in Plain /\ ConfigurePlain(c, u)
    BY <1>2, <2>2
  <2>3. CASE (c \in Cached /\ ArriveCached(c, u)) \/ (c \in Plain /\ ArrivePlain(c, u))
    BY <1>3, <2>3
  <2>4. CASE Lose(c, u)
    BY <1>4, <2>4
  <2>5. CASE ArriveNoPicture(c, u)
    BY <1>5, <2>5
  <2>6. CASE Evict(u)
    BY <1>6, <2>6
  <2> QED
    BY <1>9, <2>1, <2>2, <2>3, <2>4, <2>5, <2>6
<1> QED
  BY <1>6, <1>7, <1>8, <1>9 DEF Next

(* A product cell whose downloads have finished shows the picture of its   *)
(* row, unless it was reused before the download for another row had       *)
(* finished or a download was lost.                                        *)
THEOREM ProductCellsShowTheirRow == Spec => []ProductPictureOfRow
<1>1. ProductInv => ProductPictureOfRow
  BY DEF ProductInv, ProductPictureOfRow, LoadsItsRow
<1> QED
  BY ProductInit, ProductStep, <1>1, PTL DEF Spec

(* Every variable keeps its type. *)
THEOREM CellTypes == Spec => []TypeOK
<1>1. ProductInv => TypeOK
  BY DEF ProductInv
<1> QED
  BY ProductInit, ProductStep, <1>1, PTL DEF Spec
=============================================================================
