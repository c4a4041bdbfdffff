CONSTANTS
  Cached = {k1, k2}
  Plain = {p1}
  Urls = {u1, u2}
  NoPicture = NoPicture
  Placeholder = Placeholder
  MaxRows = 5
  MaxLost = 1
SPECIFICATION FairSpec
INVARIANTS
  PictureOfRow
  ProductPictureOfRow
PROPERTY PictureArrives
CHECK_DEADLOCK FALSE
