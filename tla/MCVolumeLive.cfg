CONSTANTS
  Threads = {t1, t2, t3}
  NoThread = NoThread
  Inodes = {i1}
  NoInode = NoInode
  Ops = {"OpenInode", "Close"}
  FetchReads = {1}
  DataReads = {0}
SPECIFICATION FairSpec
PROPERTIES CallsReturn
