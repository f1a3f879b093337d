CONSTANTS
  Daemons = {d1, d2}
  Inodes = {i1, i2, i3, i4, i5, i6, i7, i8, i9}
  MaxTampers = 2
  Old = Old
  NoFile = NoFile
  PlainFile = PlainFile
  Nobody = Nobody
SPECIFICATION Spec
INVARIANTS NoOrphan OneDaemon
PROPERTIES SparesLiveSockets SocketComesBack
