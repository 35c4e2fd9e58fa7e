SPECIFICATION Spec
CONSTANTS
  Thread = {t1, t2}
  Reader = {o1}
  Inode = {i1, i2, i3, i4}
  n1 = n1
  n2 = n2
  Junk = Junk
  Nothing = Nothing
  U32 = 3
  U64 = 7
  Cut = {0, 3, 5}
  Number <- MCNumber
  Image <- MCImage
  Record <- MCRecord
  Leftover <- MCLeftover
  MayFail = {"create", "write", "sync", "rename", "unlink"}
SYMMETRY Symmetric
INVARIANTS
  RepublishInvariant
  ReadsWhatWasPublished
  QuietIsLegible
  ParseIsLastOfEach
