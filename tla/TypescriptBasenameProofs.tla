----------------------- MODULE TypescriptBasenameProofs -----------------------
(***************************************************************************)
(* Proof that the bytes open_data_file holds back from snprintf are enough *)
(* for the suffix, for every basename size, reserve and suffix limit that  *)
(* satisfy the relation the code's constants satisfy.                      *)
(***************************************************************************)
EXTENDS TypescriptBasename, TLAPS

(***************************************************************************)
(* The reserve covers '.', the digits of the largest suffix and the NUL    *)
(* less the one byte snprintf's own NUL already took: 4 >= 3 + 1 for       *)
(* GUAC_TERMINAL_TYPESCRIPT_MAX_SUFFIX_LENGTH and _MAX_SUFFIX = 255.       *)
(***************************************************************************)
ReserveCoversSuffix == Digits(MaxSuffix) + 1 <= MaxSuffixLength

(* The constants typescript.c defines satisfy it.                          *)
LEMMA CodeReserveCoversSuffix ==
  ASSUME MaxSuffixLength = 4, MaxSuffix = 255
  PROVE  ReserveCoversSuffix
BY DEF ReserveCoversSuffix, Digits

(* Every state records the outcome of some call with natural lengths.      *)
IInv ==
  \E pl, nl \in Nat : result = OpenDataFileName(pl, nl)

LEMMA InitIInv == Init => IInv
BY BasenameAssumption DEF Init, IInv

LEMMA NextIInv == IInv /\ [Next]_vars => IInv'
<1>. SUFFICES ASSUME IInv, [Next]_vars PROVE IInv'
  OBVIOUS
<1>1. CASE \E pl \in PathLengths, nl \in NameLengths : Call(pl, nl)
  BY <1>1, BasenameAssumption DEF Call, IInv
<1>2. CASE UNCHANGED vars
  BY <1>2 DEF vars, IInv
<1>. QED  BY <1>1, <1>2 DEF Next

(* The outcome of one call satisfies SuffixFits.                          *)
LEMMA OutcomeFits ==
  ASSUME ReserveCoversSuffix, NEW pl \in Nat, NEW nl \in Nat
  PROVE  LET r == OpenDataFileName(pl, nl)
         IN  ~r.enametoolong /\ r.wanted < Space => r.lastIndex < BasenameSize
<1>1. Digits(MaxSuffix) \in 1 .. 3
  BY DEF Digits
<1>. QED  BY <1>1, BasenameAssumption
          DEF ReserveCoversSuffix, OpenDataFileName, Space

(***************************************************************************)
(* Whatever path and name lengths the caller passes, a name that           *)
(* snprintf stores untruncated leaves room in basename for '.', the suffix *)
(* digits and the NUL that open_data_file writes after it (typescript.c    *)
(* lines 76-96), for every size whose reserve covers the suffix.          *)
(***************************************************************************)
THEOREM SuffixFitsHolds ==
  ASSUME ReserveCoversSuffix
  PROVE  Spec => []SuffixFits
<1>1. IInv => SuffixFits
  BY OutcomeFits DEF IInv, SuffixFits
<1>. QED  BY <1>1, InitIInv, NextIInv, PTL DEF Spec

=============================================================================
