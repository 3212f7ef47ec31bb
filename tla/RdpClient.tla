------------------------------ MODULE RdpClient ------------------------------
(***************************************************************************)
(* The lifecycle of an RDP connection's client data                        *)
(* (src/src/protocols/rdp/client.c).  guac_client_init allocates the       *)
(* guac_rdp_client with its clipboard and SVC list and installs the join   *)
(* and free handlers.  The join handler of the owner (user.c, not in this  *)
(* repository) starts client_thread, which allocates the rest of the       *)
(* client's resources as the connection proceeds and may stop anywhere.    *)
(* When the client is stopped, libguac calls guac_rdp_client_free_handler, *)
(* which joins client_thread and then releases every resource.             *)
(*                                                                         *)
(* The join handler and the client thread are environment actions: what    *)
(* they may do is left as free as the free handler must tolerate.          *)
(***************************************************************************)
(* Fields of guac_rdp_client the free handler releases, in its order.      *)
NullChecked == {"rdp_inst", "filesystem", "sftp_filesystem", "sftp_session",
                "sftp_user", "settings"}
Unchecked   == {"disp", "available_svc", "clipboard", "display"}
Fields      == NullChecked \cup Unchecked

(* Allocated by guac_client_init; the rest is up to the client thread.     *)
InitFields   == {"clipboard", "available_svc"}
ThreadFields == Fields \ InitFields

VARIABLES
  rdp_client,    \* client->data: "none", "alloc" or "freed"
  field,         \* each field of rdp_client: "null", "alloc" or "freed"
  thread,        \* client_thread: "none", "running", "exited" or "joined"
  client_state,  \* client->state: "running" or "stopping"
  handler        \* free handler: "idle", "joined", "done" or "crashed"

vars == <<rdp_client, field, thread, client_state, handler>>

-----------------------------------------------------------------------------
(* guac_client_init: calloc the client data (every field NULL, the thread  *)
(* id zero), allocate the clipboard and the SVC list.                      *)
ClientInit ==
  /\ rdp_client = "none"
  /\ rdp_client' = "alloc"
  /\ field' = [f \in Fields |-> IF f \in InitFields THEN "alloc" ELSE "null"]
  /\ UNCHANGED <<thread, client_state, handler>>

(* Environment: the owner joins and its join handler starts client_thread. *)
UserJoin ==
  /\ rdp_client = "alloc" /\ client_state = "running"
  /\ thread = "none"
  /\ thread' = "running"
  /\ UNCHANGED <<rdp_client, field, client_state, handler>>

(* Environment: the running client thread allocates one of its resources.  *)
ThreadAlloc(f) ==
  /\ thread = "running"
  /\ field[f] = "null"
  /\ field' = [field EXCEPT ![f] = "alloc"]
  /\ UNCHANGED <<rdp_client, thread, client_state, handler>>

(* Environment: the client thread ends, on stop or on a failed connection, *)
(* stopping the client in either case.                                     *)
ThreadExit ==
  /\ thread = "running"
  /\ thread' = "exited"
  /\ client_state' = "stopping"
  /\ UNCHANGED <<rdp_client, field, handler>>

(* Environment: guac_client_stop, e.g. the owner leaves or guacd aborts    *)
(* the connection before any user joined.                                  *)
Stop ==
  /\ rdp_client = "alloc" /\ client_state = "running"
  /\ client_state' = "stopping"
  /\ UNCHANGED <<rdp_client, field, thread, handler>>

-----------------------------------------------------------------------------
(* Mutant: the join does not wait for the client thread.                   *)
JoinNoWait ==
  /\ rdp_client = "alloc" /\ client_state = "stopping"
  /\ handler = "idle"
  /\ IF thread = "exited"
       THEN thread' = "joined" /\ handler' = "joined"
       ELSE UNCHANGED thread /\ handler' \in {"joined", "crashed"}
  /\ UNCHANGED <<rdp_client, field, client_state>>

(***************************************************************************)
(* guac_rdp_client_free_handler, up to pthread_join(client_thread).  The   *)
(* join blocks while the thread runs.  If no user ever joined, the thread  *)
(* id is the zero left by calloc: pthread_join on it is undefined, and the *)
(* build either faults (glibc dereferences it) or returns ESRCH.           *)
(***************************************************************************)
Join ==
  /\ rdp_client = "alloc" /\ client_state = "stopping"
  /\ handler = "idle"
  /\ thread \in {"none", "exited"}
  /\ IF thread = "exited"
       THEN thread' = "joined" /\ handler' = "joined"
       ELSE UNCHANGED thread /\ handler' \in {"joined", "crashed"}
  /\ UNCHANGED <<rdp_client, field, client_state>>

(* Mutant: the filesystem is not released.                                 *)
ReleasedButFilesystem ==
  [f \in Fields |->
     IF field[f] = "alloc" /\ f # "filesystem" THEN "freed" ELSE field[f]]

(***************************************************************************)
(* The rest of the free handler: each NULL-checked field is released if    *)
(* set; disp goes to free(), which accepts NULL; the SVC list and the      *)
(* clipboard were allocated by init; guac_common_display_free is handed    *)
(* display whatever it is.  Handing it NULL is undefined for a function    *)
(* that dereferences its argument: the handler faults there (everything    *)
(* before it released, rdp_client not) or goes on.                         *)
(***************************************************************************)
Released ==
  [f \in Fields |-> IF field[f] = "alloc" THEN "freed" ELSE field[f]]

Release ==
  /\ handler = "joined"
  /\ field' = Released
  /\ UNCHANGED <<thread, client_state>>
  /\ \/ /\ field["display"] = "null"
        /\ handler' = "crashed"
        /\ UNCHANGED rdp_client
     \/ /\ handler' = "done"
        /\ rdp_client' = "freed"

-----------------------------------------------------------------------------
Init ==
  /\ rdp_client = "none"
  /\ field = [f \in Fields |-> "null"]
  /\ thread = "none"
  /\ client_state = "running"
  /\ handler = "idle"

Next ==
  \/ ClientInit
  \/ UserJoin
  \/ \E f \in ThreadFields : ThreadAlloc(f)
  \/ ThreadExit
  \/ Stop
  \/ Join
  \/ Release

Spec == Init /\ [][Next]_vars

-----------------------------------------------------------------------------
TypeOK ==
  /\ rdp_client \in {"none", "alloc", "freed"}
  /\ field \in [Fields -> {"null", "alloc", "freed"}]
  /\ thread \in {"none", "running", "exited", "joined"}
  /\ client_state \in {"running", "stopping"}
  /\ handler \in {"idle", "joined", "done", "crashed"}

(***************************************************************************)
(* Nothing the client thread may still use is released under it: while    *)
(* client_thread runs, rdp_client and every field it holds are live, even  *)
(* though the client may be stopped and the free handler called at any     *)
(* point of the thread's allocations.                                      *)
(***************************************************************************)
NoUseAfterFree ==
  thread = "running" =>
    /\ rdp_client = "alloc"
    /\ \A f \in Fields : field[f] # "freed"

(***************************************************************************)
(* pthread_join in the free handler is only applied to a thread that       *)
(* pthread_create started (client.c:96).                                   *)
(***************************************************************************)
JoinsCreatedThread ==
  [][handler = "idle" /\ handler' # "idle" => thread # "none"]_vars

=============================================================================
