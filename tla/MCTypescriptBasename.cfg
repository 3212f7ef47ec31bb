\* A 12-byte basename with the code's 4 bytes held back for ".255" (the real
\* buffer is larger; only the distance to the limit matters), and callers
\* passing paths and names around the limit.
CONSTANTS
  BasenameSize = 12
  MaxSuffixLength = 4
  MaxSuffix = 255
  PathLengths = {1, 3, 5, 7}
  NameLengths = {1, 2, 3}
SPECIFICATION Spec
INVARIANT NameFitsOrRefused
