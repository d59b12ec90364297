---------------------------- MODULE DeviceLease -----------------------------
(***************************************************************************)
(* What the camera wrapper (camera/CameraWrapper.cpp) promises about each  *)
(* of the vendor's devices: that it is leased to one user at a time.  A    *)
(* device is opened, wrapped and handed to the service, given back and     *)
(* closed, each once and in this order, or handed out bare and closed      *)
(* bare; one device at a time moves on, and the vendor has open exactly    *)
(* those that are not free.  Threads, the lock and the module pointer do   *)
(* not appear here: CameraWrapper shows how the code keeps the promise.    *)
(***************************************************************************)
CONSTANT Devices

VARIABLES
  lease,     \* where each vendor device is
  vendor     \* the vendor devices that are open

\* `lost' is the only way out of a lease that does not lead back: the memory for
\* the operations of the wrapper could not be allocated.
Moves ==
  {<<"free", "opening">>, <<"opening", "wrapper">>, <<"opening", "lost">>,
   <<"wrapper", "closing">>, <<"closing", "free">>,
   <<"free", "vendor's">>, <<"vendor's", "free">>}

Leases == {"free", "opening", "wrapper", "closing", "vendor's", "lost"}

AllFree == lease = [d \in Devices |-> "free"]
OpenOnes == {d \in Devices : lease[d] # "free"}

LeaseInit == AllFree /\ vendor = OpenOnes

Move(d, s) ==
  /\ <<lease[d], s>> \in Moves
  /\ lease' = [lease EXCEPT ![d] = s]

\* The process dies, and the vendor's devices with it.
Die == AllFree'

LeaseNext ==
  /\ \/ \E d \in Devices, s \in Leases : Move(d, s)
     \/ Die
  /\ vendor' = OpenOnes'

LeaseSpec == LeaseInit /\ [][LeaseNext]_<<lease, vendor>>

=============================================================================
