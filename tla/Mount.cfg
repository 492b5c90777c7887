\* Two servers merged under a mount and a local Plex.
SPECIFICATION MountFairSpec
CONSTANTS
  NSources = 2
  movies = movies
  backup = backup
  remux = remux
  f = f
  g = g
  atA = atA
  atB = atB
  NoHome = NoHome
  NoCatalogue = NoCatalogue
  SrcSections <- MCSections
  Src <- MCSrc
  Title <- MCTitle
  Works <- MCWorks
  Content <- MCContent
  MaxEdits = 2
  MaxFailures = 1
  Movable = {}
  Editable <- MCSections
  MirrorPrimary = FALSE
  ExtraSections = FALSE
  Paths <- MCPaths
  Homes <- MCHomes
  MaxMoves = 1
INVARIANTS
  MountTypeOK
  MountKeepsUp
PROPERTIES
  ServedNeverAges
  ScanSeesServed
  ChangeReachesPlex
