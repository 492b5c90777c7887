\* Both servers merged into one tree, as without PLEX_MIRROR_PRIMARY.
SPECIFICATION FairSpec
CONSTANTS
  NSources = 2
  movies = movies
  kids = kids
  backup = backup
  w1 = w1
  w2 = w2
  w3 = w3
  NoCatalogue = NoCatalogue
  SrcSections <- MCSections
  Src <- MCSrc
  Title <- MCTitle
  Works <- MCWorks
  Content <- MCContent
  MaxEdits = 1
  MaxFailures = 2
  Movable = {kids}
  MirrorPrimary = FALSE
  ExtraSections = FALSE
INVARIANTS
  TypeOK
  ServedIsBacked
  BuildHidesNothing
  NilNeverServed
PROPERTIES
  BuildNeverGoesBack
  QuitsWhole
  BuilderFinishes
  RequestsAnswered
  NotedChangesServed
