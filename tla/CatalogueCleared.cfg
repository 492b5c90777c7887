\* A change noted while a build runs.
SPECIFICATION Spec
CONSTANTS
  NSources = 2
  movies = movies
  kids = kids
  backup = backup
  w1 = w1
  w2 = w2
  w3 = w3
  NoCatalogue = NoCatalogue
  SrcSections <- MCSections
  Src <- MCSrc
  Title <- MCTitle
  Works <- MCWorks
  Content <- MCContent
  MaxEdits = 1
  MaxFailures = 0
  Movable = {}
  MirrorPrimary = FALSE
  ExtraSections = FALSE
PROPERTIES
  ClearedMeansListed
