CONSTANTS
  Threads = {t1, t2, t3}
  NoThread = NoThread
  Inodes = {i1}
  NoInode = NoInode
  Ops = {"OpenInode", "ReadData", "IsClosed", "ResolveRoot", "Close"}
  FetchReads = {1, 2}
  DataReads = {0, 1}
SYMMETRY Symmetry
SPECIFICATION Spec
INVARIANTS NoReadAfterRelease CacheRaceFree CacheStaysDead
PROPERTIES ImplementsLifetime
