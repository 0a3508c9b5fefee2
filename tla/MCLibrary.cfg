CONSTANTS
  MaxBytes = 5
  MaxSize = 2
  BufferSize = 2
  MaxInput = 5
  MaxOutput = 6
  MemoryLimit = 12
  Handlers = {h1, h2}
  Connections = {c1}
  MaxHandlers = 3
  None = None
  N = 11
  g = 2
  Secrets = {2, 7}
  Hashes = {0, 1, 4}
  ForeignA = {0, 5, 11, 22}
  Base = 4
  ArraySize = 3
  Step = 3
  MaxTime = 20
  Width = 16
  Digits = {6, 8}
  BlockSize = 4
  Keys <- ShortKeys
  Xor <- XorOfBits
  MaxText = 4
  Names = {"n1", "n2"}
  Types = {"t1", "t2"}
  MaxEntries = 4
  Literals <- TwoLiterals
  EnumBits = 3
  Letters = {"a", "b", " "}
  Delim = " "
  MaxString = 6
  MaxDump = 40
  Requests = {1, 2}
  Payload <- SmallPayloads
  ReadSize = 60
SPECIFICATION LibrarySpec
INVARIANTS FirstInFirstOut WhatWentInComesOut RoutingAsPromised ProofsAccepted TextComesBack LookupsAgree NamedAsDeclared JoinUndoesExplode DumpShowsAll MessagesTypeOK ServerTakesInOrder NothingWithheld AnswersInOrder
PROPERTIES DecompressEnds WindowOfOneStep RequestArrives
CHECK_DEADLOCK FALSE
