CONSTANTS
  f1 = f1
  f2 = f2
  f3 = f3
  r1 = r1
  File = {f1, f2, f3}
  Reader = {r1}
  BlockSize = 2
  SizeOf <- Sizes
  Header <- Ranges
  ZipList <- Lists
  Unset = Unset
  NoFile = NoFile
SPECIFICATION DownloadSpec
CHECK_DEADLOCK FALSE
INVARIANTS
  DownloadTypeOK
  BytesPromised
  CompletedWhole
  EntriesWhole
