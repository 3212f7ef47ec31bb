--------------------------- MODULE RdpClientProofs ---------------------------
(***************************************************************************)
(* Proofs that the RDP client's free handler never releases what the      *)
(* client thread may still use, for every order of the thread's           *)
(* allocations, the stop and the handler.                                  *)
(***************************************************************************)
EXTENDS RdpClient, TLAPS

(***************************************************************************)
(* The inductive invariant.  NoUseAfterFree is not inductive alone: it    *)
(* needs that the handler leaves "idle" only once the client is stopping  *)
(* and the thread no longer runs (a stopped client admits no new join),    *)
(* that nothing is freed before the release step, and that nothing exists  *)
(* before guac_client_init.                                                *)
(***************************************************************************)
BeforeInit ==
  rdp_client = "none" =>
    /\ thread = "none" /\ handler = "idle"
    /\ \A f \in Fields : field[f] = "null"

HandlerAfterThread ==
  handler # "idle" => client_state = "stopping" /\ thread # "running"

NothingFreedEarly ==
  handler \in {"idle", "joined"} =>
    /\ rdp_client # "freed"
    /\ \A f \in Fields : field[f] # "freed"

IInv ==
  /\ TypeOK
  /\ BeforeInit
  /\ HandlerAfterThread
  /\ NothingFreedEarly

LEMMA InitIInv == Init => IInv
BY DEF Init, IInv, TypeOK, BeforeInit, HandlerAfterThread, NothingFreedEarly

LEMMA ClientInitIInv == IInv /\ ClientInit => IInv'
BY DEF ClientInit, IInv, TypeOK, BeforeInit, HandlerAfterThread,
       NothingFreedEarly

LEMMA UserJoinIInv == IInv /\ UserJoin => IInv'
BY DEF UserJoin, IInv, TypeOK, BeforeInit, HandlerAfterThread,
       NothingFreedEarly

LEMMA ThreadAllocIInv ==
  ASSUME IInv, NEW f \in ThreadFields, ThreadAlloc(f)
  PROVE  IInv'
<1>1. handler = "idle" /\ rdp_client # "none"
  BY DEF ThreadAlloc, IInv, HandlerAfterThread, BeforeInit
<1>2. TypeOK'
  BY DEF ThreadAlloc, IInv, TypeOK, ThreadFields
<1>. QED  BY <1>1, <1>2 DEF ThreadAlloc, IInv, TypeOK, BeforeInit,
                           HandlerAfterThread, NothingFreedEarly

LEMMA ThreadExitIInv == IInv /\ ThreadExit => IInv'
BY DEF ThreadExit, IInv, TypeOK, BeforeInit, HandlerAfterThread,
       NothingFreedEarly

LEMMA StopIInv == IInv /\ Stop => IInv'
BY DEF Stop, IInv, TypeOK, BeforeInit, HandlerAfterThread,
       NothingFreedEarly

LEMMA JoinIInv == IInv /\ Join => IInv'
BY DEF Join, IInv, TypeOK, BeforeInit, HandlerAfterThread,
       NothingFreedEarly

LEMMA ReleaseIInv ==
  ASSUME IInv, Release
  PROVE  IInv'
<1>1. /\ field' \in [Fields -> {"null", "alloc", "freed"}]
      /\ \A f \in Fields : field'[f] # "alloc"
  BY DEF Release, Released, IInv, TypeOK
<1>2. handler' \in {"crashed", "done"} /\ rdp_client = "alloc"
  BY DEF Release, IInv, NothingFreedEarly, BeforeInit, TypeOK
<1>. QED  BY <1>1, <1>2 DEF Release, IInv, TypeOK, BeforeInit,
                           HandlerAfterThread, NothingFreedEarly

LEMMA NextIInv == IInv /\ [Next]_vars => IInv'
<1>. SUFFICES ASSUME IInv, [Next]_vars PROVE IInv'
  OBVIOUS
<1>1. CASE ClientInit         BY <1>1, ClientInitIInv
<1>2. CASE UserJoin           BY <1>2, UserJoinIInv
<1>3. CASE \E f \in ThreadFields : ThreadAlloc(f)
  BY <1>3, ThreadAllocIInv
<1>4. CASE ThreadExit         BY <1>4, ThreadExitIInv
<1>5. CASE Stop               BY <1>5, StopIInv
<1>6. CASE Join               BY <1>6, JoinIInv
<1>7. CASE Release            BY <1>7, ReleaseIInv
<1>8. CASE UNCHANGED vars
  BY <1>8 DEF vars, IInv, TypeOK, BeforeInit, HandlerAfterThread,
              NothingFreedEarly
<1>. QED  BY <1>1, <1>2, <1>3, <1>4, <1>5, <1>6, <1>7, <1>8 DEF Next

(***************************************************************************)
(* For every interleaving of the client thread with a stop and the free    *)
(* handler, nothing the running client thread may use has been freed: the  *)
(* pthread_join at client.c:96 comes before every release.                 *)
(***************************************************************************)
THEOREM NoUseAfterFreeHolds == Spec => []NoUseAfterFree
<1>1. IInv => NoUseAfterFree
  BY DEF IInv, TypeOK, BeforeInit, HandlerAfterThread, NothingFreedEarly,
         NoUseAfterFree
<1>. QED  BY <1>1, InitIInv, NextIInv, PTL DEF Spec

=============================================================================
