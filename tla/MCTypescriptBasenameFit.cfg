\* The real reserve of GUAC_TERMINAL_TYPESCRIPT_MAX_SUFFIX_LENGTH = 4 for
\* suffixes up to 255, a basename of 16 bytes, and every path and name length
\* from empty to longer than the whole buffer: names that fit, names exactly
\* at the limit and truncated names all occur.
CONSTANTS
  BasenameSize = 16
  MaxSuffixLength = 4
  MaxSuffix = 255
  PathLengths <- MCPathLengths
  NameLengths <- MCNameLengths
SPECIFICATION Spec
INVARIANT SuffixFits
