--------------------------- MODULE MCDisplayUpdate ---------------------------
(* Small instances of DisplayUpdate for TLC.                                *)
EXTENDS DisplayUpdate

(* The remote desktop starts at 8x6.                                       *)
MCInitialSizes == {[width |-> 8, height |-> 6]}

(* Model bound: layouts in flight at once.  update_size resends every      *)
(* UpdateInterval while the remote size differs, so the channel is         *)
(* unbounded; a server that falls two layouts behind is explored, longer   *)
(* backlogs are not.                                                       *)
MaxInFlight == 2
ChannelBound == Len(channel) <= MaxInFlight

(* Dimensions a client can send through atoi besides sensible ones.        *)
MCClientDims == {-6, 0, 6}

(* A narrow window and a height past int range over MinSize: at scale,     *)
(* width 3 < MinSize = 4 and height 40 with 40 * 4 > 2^7 stand for a width *)
(* below 200 and a height above INT_MAX / 200.                            *)
MCHugeDims == {3, 40}
=============================================================================
