SPECIFICATION SceneSpec
CONSTANTS
  t1 = t1 t2 = t2 t3 = t3
  Handles = {t1, t2, t3}
  Timers = {t1, t2, t3}
  MaxTime = 2
  IntMax = 2
  Timeouts = {0, 2}
  Repeats = {0, 1}
  Nodes = {1, 2, 3, 4, 5, 6, 7, 8}
  NoNode = 0
  Bytes = {65, 128, 191, 194, 223, 224, 239, 240, 244, 245}
  Characters = {97, 45, 46, 233, 12290, 66000, 1114111}
  Units = {0, 65, 233, 2048, 55296, 56319, 56320, 57343, 65535}
  TextRoom = 4
  Pieces <- TextPieces
  PieceRoom = 4
  Words = {0, 1, 65535}
  Octets = {0, 9, 10, 255}
  LastFd = 9
  Pipes = {s1, s2}
  InUse = {s2}
  Inheritable = {0, 3, 10}
  MaxStdio = 4
  OpenTables = {{0, 1, 2, 3}, {2}}
  s1 = s1 s2 = s2
SYMMETRY Symmetry
INVARIANTS HeapSound ConversionsAreExact SpawnPromise
PROPERTIES TimersPromise ImplementsAgenda
