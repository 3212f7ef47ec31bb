------------------------- MODULE TypescriptBasename -------------------------
(***************************************************************************)
(* The name handling of guac_terminal_typescript_open_data_file            *)
(* (src/src/terminal/typescript.c): "path/name" is formatted with snprintf *)
(* into basename with MaxSuffixLength bytes held back for a ".N" suffix,   *)
(* a result equal to the space given is refused with ENAMETOOLONG, and     *)
(* otherwise basename[basename_length] = '.' and the suffix digits follow. *)
(* Strings are abstracted to their lengths; the model records the length   *)
(* of the name actually opened and the highest byte index written.         *)
(***************************************************************************)
EXTENDS Integers

CONSTANTS
  BasenameSize,     \* GUAC_TERMINAL_TYPESCRIPT_MAX_NAME_LENGTH (sizeof basename)
  MaxSuffixLength,  \* GUAC_TERMINAL_TYPESCRIPT_MAX_SUFFIX_LENGTH
  MaxSuffix,        \* GUAC_TERMINAL_TYPESCRIPT_MAX_SUFFIX
  PathLengths,      \* lengths of the recording path the caller may pass
  NameLengths       \* lengths of the typescript name the caller may pass

ASSUME BasenameAssumption ==
  /\ MaxSuffixLength \in Nat
  /\ BasenameSize \in Nat /\ BasenameSize > MaxSuffixLength
  /\ MaxSuffix \in 1 .. 999
  /\ PathLengths \subseteq Nat /\ NameLengths \subseteq Nat

VARIABLES
  call,    \* the lengths of path and name of the last call
  result   \* its outcome

vars == <<call, result>>

(* Number of decimal digits sprintf("%i") prints for 1 <= i <= 999.       *)
Digits(i) == IF i < 10 THEN 1 ELSE IF i < 100 THEN 2 ELSE 3

(* Mutant: no room is held back for the suffix.                          *)
SpaceNoReserve == BasenameSize

(* The size argument given to snprintf.                                   *)
Space == BasenameSize - MaxSuffixLength

(***************************************************************************)
(* One call with the given lengths: snprintf returns the length it would   *)
(* have written and stores at most Space - 1 characters and a NUL; then    *)
(* either ENAMETOOLONG, or the (possibly truncated) name is opened, '.' is *)
(* stored at index basename_length and a suffix of up to                   *)
(* Digits(MaxSuffix) digits plus a NUL after it.                           *)
(***************************************************************************)
OpenDataFileName(pathLen, nameLen) ==
  LET basename_length == pathLen + 1 + nameLen
      stored          == IF basename_length < Space THEN basename_length ELSE Space - 1
  IN  IF basename_length = Space
        THEN [enametoolong |-> TRUE, wanted |-> basename_length,
              opened |-> 0, lastIndex |-> Space - 1]
        ELSE [enametoolong |-> FALSE, wanted |-> basename_length,
              opened |-> stored,
              lastIndex |-> basename_length + 1 + Digits(MaxSuffix)]

Call(pathLen, nameLen) ==
  /\ call' = [path |-> pathLen, name |-> nameLen]
  /\ result' = OpenDataFileName(pathLen, nameLen)

(* The state after a first call.                                          *)
Init ==
  \E pl \in PathLengths, nl \in NameLengths :
    /\ call = [path |-> pl, name |-> nl]
    /\ result = OpenDataFileName(pl, nl)

Next == \E pl \in PathLengths, nl \in NameLengths : Call(pl, nl)

Spec == Init /\ [][Next]_vars

(***************************************************************************)
(* The MaxSuffixLength bytes held back from snprintf are enough for '.',   *)
(* the longest suffix sprintf("%i") prints and its NUL: whenever the name  *)
(* fits untruncated, every byte of the suffixed name lies inside basename. *)
(***************************************************************************)
SuffixFits ==
  ~result.enametoolong /\ result.wanted < Space => result.lastIndex < BasenameSize

(***************************************************************************)
(* What the comment of open_data_file promises: when "path/name" plus a    *)
(* suffix does not fit, -1 with ENAMETOOLONG; otherwise the file opened    *)
(* has exactly the name asked for and no byte is stored outside basename.  *)
(***************************************************************************)
NameFitsOrRefused ==
  ~result.enametoolong =>
    /\ result.opened = result.wanted
    /\ result.lastIndex < BasenameSize

=============================================================================
