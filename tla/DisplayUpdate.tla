---------------------------- MODULE DisplayUpdate ----------------------------
(***************************************************************************)
(* The RDP display-update module (src/src/protocols/rdp/rdp_disp.c).  A    *)
(* user's browser size reaches guac_rdp_disp_set_size, which fits it into  *)
(* [MinSize, MaxSize] keeping the aspect ratio, makes the width even,      *)
(* stores it as the requested size and calls guac_rdp_disp_update_size.    *)
(* update_size, also called on every iteration of the RDP client loop,     *)
(* sends a monitor layout over the "disp" dynamic channel once the channel *)
(* is connected, at most once per UpdateInterval, and only if the size     *)
(* differs from the current remote desktop size.  The server applies the   *)
(* layouts it receives asynchronously.                                     *)
(*                                                                         *)
(* Time is abstracted to sinceRequest = now - last_request, saturated at   *)
(* UpdateInterval + 1 (all larger values behave alike), or Never while     *)
(* last_request is still 0.                                                *)
(***************************************************************************)
EXTENDS Integers, Sequences

CONSTANTS
  MinSize,        \* GUAC_RDP_DISP_MIN_SIZE
  MaxSize,        \* GUAC_RDP_DISP_MAX_SIZE
  UpdateInterval, \* GUAC_RDP_DISP_UPDATE_INTERVAL, in clock ticks
  Dims,           \* widths and heights a user's size request may carry
  InitialSizes,   \* remote desktop sizes the connection may start with
  Never,          \* last_request = 0: no layout sent yet
  IntBits,        \* width of C int
  MaxResizes      \* model bound: number of set_size calls

ASSUME DisplayUpdateAssumption ==
  /\ MinSize \in Nat \ {0}
  /\ MaxSize \in Nat /\ MinSize <= MaxSize
  /\ UpdateInterval \in Nat
  /\ Dims \subseteq Int
  /\ InitialSizes \subseteq [width : Int, height : Int]
  /\ Never \notin Int
  /\ IntBits \in Nat \ {0}
  /\ 2^(IntBits - 1) \in Nat \ {0} /\ 2^IntBits = 2 * 2^(IntBits - 1)  \* facts about ^
  /\ MaxResizes \in Nat

VARIABLES
  disp,              \* disp->disp != NULL: the "disp" channel is connected
  sinceRequest,      \* now - disp->last_request, saturated, or Never
  requested_width,   \* disp->requested_width
  requested_height,  \* disp->requested_height
  remote_width,      \* guac_rdp_get_width(context->instance)
  remote_height,     \* guac_rdp_get_height(context->instance)
  channel,           \* monitor layouts sent and not yet handled by the server
  crashed,           \* the connection process died (integer division by zero)
  resizes            \* set_size calls so far

vars == <<disp, sinceRequest, requested_width, requested_height,
          remote_width, remote_height, channel, crashed, resizes>>

Saturated == UpdateInterval + 1

(* C integer division, truncating toward zero.                            *)
AbsVal(x) == IF x < 0 THEN -x ELSE x
CDiv(x, y) ==
  IF (x >= 0) = (y > 0) THEN AbsVal(x) \div AbsVal(y)
                        ELSE -(AbsVal(x) \div AbsVal(y))

(* Two's-complement wrap of an int product (signed overflow as the build   *)
(* is undefined; the imul the compiler emits wraps modulo 2^IntBits).     *)
IntWrap(x) == ((x + 2^(IntBits - 1)) % 2^IntBits) - 2^(IntBits - 1)

InBounds(d) == d \in MinSize .. MaxSize

-----------------------------------------------------------------------------
(***************************************************************************)
(* guac_rdp_disp_fit(&a, &b): bring a into bounds, scaling b by the same   *)
(* factor and clamping it on the side the scaling moved it.  It divides by *)
(* a whenever a is out of bounds, so a = 0 is a division by zero.  The     *)
(* product b * bound is computed in int before the division.               *)
(***************************************************************************)
Fit(a, b) ==
  IF a < MinSize THEN
    LET adjusted_b == CDiv(IntWrap(b * MinSize), a)
    IN  [a |-> MinSize, b |-> IF adjusted_b > MaxSize THEN MaxSize ELSE adjusted_b]
  ELSE IF a > MaxSize THEN
    LET adjusted_b == CDiv(IntWrap(b * MaxSize), a)
    IN  [a |-> MaxSize, b |-> IF adjusted_b < MinSize THEN MinSize ELSE adjusted_b]
  ELSE [a |-> a, b |-> b]

(* "Width must be even": C's width % 2 == 1 holds for positive odd widths. *)
MakeEven(w) == IF w > 0 /\ w % 2 = 1 THEN w - 1 ELSE w

(***************************************************************************)
(* guac_rdp_disp_update_size with the given requested size: nothing while  *)
(* the channel is unconnected, within UpdateInterval of the last request,  *)
(* or when the remote desktop already has that size; otherwise record the  *)
(* request time and send the layout.                                       *)
(***************************************************************************)
RateLimited == sinceRequest # Never /\ sinceRequest <= UpdateInterval

(* Mutant: a request is held back when either dimension already matches.   *)
SendsLayoutEitherDimension(width, height) ==
  /\ disp
  /\ ~RateLimited
  /\ width # remote_width /\ height # remote_height

SendsLayout(width, height) ==
  /\ disp
  /\ ~RateLimited
  /\ ~(width = remote_width /\ height = remote_height)

UpdateSizeWith(width, height) ==
  IF SendsLayout(width, height)
    THEN /\ sinceRequest' = 0
         /\ channel' = Append(channel, [width |-> width, height |-> height])
    ELSE UNCHANGED <<sinceRequest, channel>>

(* Mutant: set_size fits the width only.                                   *)
SetSizeFitWidthOnly(width, height) ==
  LET f1 == Fit(width, height)
  IN
  /\ ~crashed
  /\ resizes < MaxResizes
  /\ resizes' = resizes + 1
  /\ UNCHANGED <<disp, remote_width, remote_height>>
  /\ IF width = 0
       THEN /\ crashed' = TRUE
            /\ UNCHANGED <<sinceRequest, requested_width, requested_height, channel>>
       ELSE /\ UNCHANGED crashed
            /\ requested_width' = MakeEven(f1.a)
            /\ requested_height' = f1.b
            /\ UpdateSizeWith(MakeEven(f1.a), f1.b)

(* guac_rdp_disp_set_size(disp, context, width, height).                  *)
SetSize(width, height) ==
  LET f1 == Fit(width, height)       \* fit width, adjusting height
      f2 == Fit(f1.b, f1.a)          \* fit height, adjusting width
  IN
  /\ ~crashed
  /\ resizes < MaxResizes
  /\ resizes' = resizes + 1
  /\ UNCHANGED <<disp, remote_width, remote_height>>
  /\ IF width = 0 \/ f1.b = 0
       THEN /\ crashed' = TRUE
            /\ UNCHANGED <<sinceRequest, requested_width, requested_height, channel>>
       ELSE /\ UNCHANGED crashed
            /\ requested_width' = MakeEven(f2.b)
            /\ requested_height' = f2.a
            /\ UpdateSizeWith(MakeEven(f2.b), f2.a)

(* guac_rdp_disp_update_size called from the RDP client loop.             *)
UpdateSize ==
  /\ ~crashed
  /\ UpdateSizeWith(requested_width, requested_height)
  /\ UNCHANGED <<disp, requested_width, requested_height, remote_width,
                 remote_height, crashed, resizes>>

(* guac_rdp_disp_connect: the "disp" channel has connected.               *)
Connect ==
  /\ ~crashed
  /\ ~disp
  /\ disp' = TRUE
  /\ UNCHANGED <<sinceRequest, requested_width, requested_height,
                 remote_width, remote_height, channel, crashed, resizes>>

(* The server handles the oldest layout: it resizes the desktop to a valid *)
(* layout and ignores one outside the protocol's bounds.                   *)
ServerApply ==
  LET m == Head(channel)
  IN
  /\ channel # <<>>
  /\ channel' = Tail(channel)
  /\ IF InBounds(m.width) /\ InBounds(m.height)
       THEN /\ remote_width' = m.width
            /\ remote_height' = m.height
       ELSE UNCHANGED <<remote_width, remote_height>>
  /\ UNCHANGED <<disp, sinceRequest, requested_width, requested_height,
                 crashed, resizes>>

(* Time passes.                                                            *)
Tick ==
  /\ sinceRequest \notin {Never, Saturated}
  /\ sinceRequest' = sinceRequest + 1
  /\ UNCHANGED <<disp, requested_width, requested_height, remote_width,
                 remote_height, channel, crashed, resizes>>

-----------------------------------------------------------------------------
(* guac_rdp_disp_alloc, on a connection of some initial size.             *)
Init ==
  /\ disp = FALSE
  /\ sinceRequest = Never
  /\ requested_width = 0
  /\ requested_height = 0
  /\ \E s \in InitialSizes : remote_width = s.width /\ remote_height = s.height
  /\ channel = <<>>
  /\ crashed = FALSE
  /\ resizes = 0

Next ==
  \/ \E w, h \in Dims : SetSize(w, h)
  \/ UpdateSize
  \/ Connect
  \/ ServerApply
  \/ Tick

(* The RDP client loop calls update_size on every iteration, the server    *)
(* handles every layout it receives, and time passes.  The user and the    *)
(* channel connection are not assumed to act.                              *)
Fairness ==
  /\ WF_vars(UpdateSize)
  /\ WF_vars(ServerApply)
  /\ WF_vars(Tick)

Spec == Init /\ [][Next]_vars
FairSpec == Spec /\ Fairness

-----------------------------------------------------------------------------
Layout == [width : Int, height : Int]

TypeOK ==
  /\ disp \in BOOLEAN
  /\ sinceRequest \in (0 .. Saturated) \cup {Never}
  /\ requested_width \in Int /\ requested_height \in Int
  /\ remote_width \in Int /\ remote_height \in Int
  /\ channel \in Seq(Layout)
  /\ crashed \in BOOLEAN
  /\ resizes \in 0 .. MaxResizes

(***************************************************************************)
(* After any sequence of size requests the stored request is a valid       *)
(* display size: both dimensions within [MinSize, MaxSize] and the width   *)
(* even, whatever the aspect ratio (the two passes of guac_rdp_disp_fit    *)
(* interact), and the process has not died computing it.                   *)
(***************************************************************************)
RequestedInBounds ==
  /\ ~crashed
  /\ resizes > 0 =>
       /\ InBounds(requested_width) /\ requested_width % 2 = 0
       /\ InBounds(requested_height)

(***************************************************************************)
(* Every monitor layout put on the channel is one the server can accept:   *)
(* width and height within [MinSize, MaxSize].                             *)
(***************************************************************************)
SentInBounds ==
  \A i \in 1 .. Len(channel) :
    InBounds(channel[i].width) /\ InBounds(channel[i].height)

(***************************************************************************)
(* Once the channel is connected and a size has been requested, the remote *)
(* desktop eventually settles at the requested size, even when a request   *)
(* was judged against a remote size that a layout still in flight was      *)
(* about to change, or was held back by the rate limit.                    *)
(***************************************************************************)
Converges ==
  <>[](disp /\ requested_width # 0 =>
         remote_width = requested_width /\ remote_height = requested_height)

=============================================================================
