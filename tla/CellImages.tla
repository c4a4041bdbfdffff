------------------------------ MODULE CellImages ------------------------------
(***************************************************************************)
(* Pictures of table and collection cells.  A cell that scrolls out of     *)
(* sight is configured again for another row while the downloads it has    *)
(* started are still on their way; they finish in any order.  Two kinds of *)
(* cells load pictures: those with a CachedImageView (restaurants and      *)
(* orders), which share a cache, and ProductTableViewCell, which has none. *)
(*                                                                         *)
(* A picture is named by its URL.  A download is finished when the block   *)
(* it has put on the main queue runs.                                      *)
(***************************************************************************)
EXTENDS Naturals

CONSTANTS
  Cached,      \* the cells with a CachedImageView
  Plain,       \* instances of ProductTableViewCell
  Urls,
  NoPicture,   \* an image view that shows nothing
  Placeholder, \* the picture restaurant-placeholder
  MaxRows,     \* bound: how often any cell is configured
  MaxLost      \* bound: downloads that fail or do not bring a picture

ASSUME PicturesAssumption ==
  /\ Cached \cap Plain = {}
  /\ NoPicture \notin Urls /\ Placeholder \notin Urls /\ NoPicture # Placeholder
  /\ MaxRows \in Nat /\ MaxLost \in Nat

VARIABLES
  wanted,   \* per cell: the URL of its row (imageUrl)
  picture,  \* per cell: what its image view shows
  cache,    \* imageCache: a picture or NoPicture for each URL
  loading,  \* per cell and URL: downloads on their way
  rows,     \* cells configured so far
  lost,     \* downloads lost so far
  mixed     \* history: the product cells that got a row while a download for
            \* another row was on its way

vars == <<wanted, picture, cache, loading, rows, lost, mixed>>

Cells == Cached \cup Plain

TypeOK ==
  /\ wanted \in [Cells -> Urls \cup {NoPicture}]
  /\ picture \in [Cells -> Urls \cup {NoPicture, Placeholder}]
  /\ cache \in [Urls -> Urls \cup {NoPicture}]
  /\ loading \in [Cells -> [Urls -> 0 .. MaxRows]]
  /\ rows \in 0 .. MaxRows
  /\ lost \in 0 .. MaxLost
  /\ mixed \subseteq Plain

Init ==
  /\ wanted = [c \in Cells |-> NoPicture]
  /\ picture = [c \in Cells |-> NoPicture]
  /\ cache = [u \in Urls |-> NoPicture]
  /\ loading = [c \in Cells |-> [u \in Urls |-> 0]]
  /\ rows = 0 /\ lost = 0 /\ mixed = {}

-----------------------------------------------------------------------------
(* A download, and the only run of its completion handler. *)
Start(c, u) == loading' = [loading EXCEPT ![c][u] = @ + 1]
Finish(c, u) == loading[c][u] > 0 /\ loading' = [loading EXCEPT ![c][u] = @ - 1]

(* Mutant: one download at a time per cell. *)
loadImageWhenIdle(c, u) ==
  /\ picture' = [picture EXCEPT ![c] = Placeholder]
  /\ IF \E v \in Urls : loading[c][v] > 0 THEN UNCHANGED loading ELSE Start(c, u)

(* loadImage: the cached picture at once, or the placeholder and a         *)
(* download.                                                               *)
loadImage(c, u) ==
  \/ /\ cache[u] # NoPicture
     /\ picture' = [picture EXCEPT ![c] = cache[u]]
     /\ UNCHANGED loading
  \/ /\ cache[u] = NoPicture
     /\ picture' = [picture EXCEPT ![c] = Placeholder]
     /\ Start(c, u)

(* A cell with a CachedImageView gets a row. *)
ConfigureCached(c, u) ==
  /\ rows < MaxRows /\ rows' = rows + 1
  /\ wanted' = [wanted EXCEPT ![c] = u]
  /\ loadImage(c, u)
  /\ UNCHANGED <<cache, lost, mixed>>

(* Mutant: a product cell that shows a picture does not load another. *)
LoadOnce(c, u) == IF picture[c] = NoPicture THEN Start(c, u) ELSE UNCHANGED loading

(* A product cell always loads, and keeps no record of what it loads. *)
LoadAlways(c, u) == Start(c, u)

(* A product cell gets a row; the picture of its former row stays. *)
ConfigurePlain(c, u) ==
  /\ rows < MaxRows /\ rows' = rows + 1
  /\ wanted' = [wanted EXCEPT ![c] = u]
  /\ LoadAlways(c, u)
  /\ mixed' = mixed \cup {d \in {c} : \E v \in Urls \ {u} : loading[c][v] > 0}
  /\ UNCHANGED <<picture, cache, lost>>

(* Mutant: the comparison with imageUrl is forgotten. *)
ShowsAny(c, u) == {c}

(* The cells in which a picture that arrives for c and u is shown. *)
Shows(c, u) == IF wanted[c] = u THEN {c} ELSE {}

ArriveCached(c, u) ==
  /\ Finish(c, u)
  /\ picture' = [d \in Cells |-> IF d \in Shows(c, u) THEN u ELSE picture[d]]
  /\ cache' = [cache EXCEPT ![u] = u]
  /\ UNCHANGED <<wanted, rows, lost, mixed>>

ArrivePlain(c, u) ==
  /\ Finish(c, u)
  /\ picture' = [picture EXCEPT ![c] = u]
  /\ UNCHANGED <<wanted, cache, rows, lost, mixed>>

(* An answer that is not a picture: both kinds force-unwrap it, the        *)
(* process ends and the application is opened again.                       *)
ArriveNoPicture(c, u) ==
  /\ lost < MaxLost /\ lost' = lost + 1
  /\ loading[c][u] > 0
  /\ wanted' = [d \in Cells |-> NoPicture]
  /\ picture' = [d \in Cells |-> NoPicture]
  /\ cache' = [v \in Urls |-> NoPicture]
  /\ loading' = [d \in Cells |-> [v \in Urls |-> 0]]
  /\ mixed' = {}
  /\ UNCHANGED rows

(* A download that fails changes nothing and is not tried again. *)
Lose(c, u) ==
  /\ lost < MaxLost /\ lost' = lost + 1
  /\ Finish(c, u)
  /\ UNCHANGED <<wanted, picture, cache, rows, mixed>>

(* NSCache drops what it likes. *)
Evict(u) ==
  /\ cache[u] # NoPicture
  /\ cache' = [cache EXCEPT ![u] = NoPicture]
  /\ UNCHANGED <<wanted, picture, loading, rows, lost, mixed>>

Next ==
  \/ \E u \in Urls :
       \/ \E c \in Cached : ConfigureCached(c, u) \/ ArriveCached(c, u)
       \/ \E c \in Plain : ConfigurePlain(c, u) \/ ArrivePlain(c, u)
       \/ \E c \in Cells : Lose(c, u) \/ ArriveNoPicture(c, u)
       \/ Evict(u)

Spec == Init /\ [][Next]_vars

(* Downloads finish. *)
FairSpec ==
  Spec /\ \A c \in Cached, u \in Urls : WF_vars(ArriveCached(c, u))

-----------------------------------------------------------------------------
(* Properties *)

(* A CachedImageView never shows the picture of another row than its own,  *)
(* whatever its cell was used for before and in whatever order downloads   *)
(* finish: the comparison of imageUrl with the URL of the download.        *)
PictureOfRow ==
  \A c \in Cached : picture[c] \in {wanted[c], Placeholder, NoPicture}

(* A CachedImageView shows the picture of its row in the end, unless the   *)
(* cell gets another row or a download is lost.                            *)
PictureArrives ==
  \A c \in Cached, u \in Urls :
    (wanted[c] = u /\ lost = 0) ~> (picture[c] = u \/ wanted[c] # u \/ lost > 0)

(* When its downloads have finished, a product cell shows the picture of   *)
(* its row, although it does not compare URLs: unless a download was lost, *)
(* or the cell was reused before the download for another row had          *)
(* finished.                                                               *)
ProductPictureOfRow ==
  \A c \in Plain \ mixed :
    lost = 0 /\ (\A u \in Urls : loading[c][u] = 0) => picture[c] = wanted[c]
=============================================================================
