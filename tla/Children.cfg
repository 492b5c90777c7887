\* Three servers merged: derived trees, child listings and their cache.
SPECIFICATION ChildrenSpec
CONSTANTS
  NSources = 3
  movies = movies
  remux = remux
  tv = tv
  backup = backup
  tvthird = tvthird
  tvbackup = tvbackup
  NoCatalogue = NoCatalogue
  SrcSections <- MCSections
  Src <- MCSrc
  Title <- MCTitle
  SectionKey <- MCSectionKey
  Works <- MCWorks
  Content <- MCContent
  Item <- MCItem
  Film <- MCFilm
  Sent <- MCSent
  Normal <- MCNormal
  MaxEdits = 2
  MaxFailures = 1
  Movable = {}
  Editable <- MCEditable
  MirrorPrimary = FALSE
  ExtraSections = FALSE
INVARIANTS
  ChildrenTypeOK
  TreeMatchesMerge
  FallbacksStandIn
  NothingMergedAway
  ShownFromOneServer
  NamesFound
  ChildrenFresh
  AskedWhereKnown
  ShowFailsOnlyEverywhere
PROPERTIES
  NamesStayPut
