---------------------------- MODULE CameraProps -----------------------------
(***************************************************************************)
(* The properties of CameraWrapper.                                        *)
(***************************************************************************)
EXTENDS CameraWrapper

\* Types: the place, entry point and device of every thread (CameraWrapper.cpp:37-81).
CamTypeOK ==
  /\ gVendorModule \in BOOLEAN
  /\ gCameraWrapperLock \in Threads \cup {NoThread}
  /\ pc \in [Threads -> PCs]
  /\ entry \in [Threads -> Entries]
  /\ id \in [Threads -> Ids]
  /\ dev \in [Threads -> Devices \cup {NoDevice}]
  /\ vendor \subseteq Devices
  /\ handle \in [Devices -> {"none", "wrapper", "vendor's"}]
  /\ leaked \subseteq Devices /\ fatal \subseteq Devices
  /\ masked \in BOOLEAN
  /\ raced \in BOOLEAN
  /\ answer \in {"none", "success", "error"}

\* Where gVendorModule is dereferenced.
Dereferences == {"bounds", "vendor_open", "vendor_call"}

\* A thread that check_vendor_module has let through finds the module there
\* (CameraWrapper.cpp:98-106), unless another thread's load has failed after a
\* load had succeeded: nothing guards the pointer.
VendorPresent ==
  \A t \in Threads : pc[t] \in Dereferences => gVendorModule \/ raced

\* Where a thread holds its device, on its way in or out.
Holding == {"alloc_ops", "close_lock", "close"}

\* Who holds the vendor device d: the service, or such a thread.
Held(d) == handle[d] # "none" \/ \E t \in Threads : dev[t] = d /\ pc[t] \in Holding

\* Every open vendor device can still be closed by someone, except those whose
\* wrapper could not be completed (CameraWrapper.cpp:293-299), and nobody holds
\* a device that is closed.
OpenIsHeld ==
  \A d \in Devices : d \in vendor <=> Held(d) \/ d \in leaked

\* No two holders share a vendor device, so none is closed twice
\* (CameraWrapper.cpp:229-232).
HeldOnce ==
  /\ \A t, u \in Threads :
       t # u /\ pc[t] \in Holding => dev[t] # dev[u]
  /\ \A t \in Threads : pc[t] \in Holding => handle[dev[t]] = "none" /\ dev[t] \notin leaked
  /\ \A d \in leaked : handle[d] = "none"

\* The operations of a device take no lock and do not look at what they forward
\* to: the wrapper they were given is still there, and so is the vendor's device
\* behind it (CameraWrapper.cpp:83-86, CameraWrapper.cpp:113-209), in spite of
\* all that is opened, refused and closed at the same time.
CallsReachOpenDevice ==
  \A t \in Threads : pc[t] = "device" => handle[dev[t]] = "wrapper" /\ dev[t] \in vendor

\* The service has been handed an open device.
HandedOut == \E d \in Devices : handle[d] = "none" /\ handle'[d] # "none" /\ d \in vendor'

\* What thread t has to answer when it returns from an open.
OpenAnswered(t) ==
  pc[t] # "idle" /\ pc'[t] = "idle" /\ entry[t] \in {"open", "open_legacy"} /\ answer' # "none" =>
    (answer' = "success" <=> HandedOut \/ (pc[t] = "load" /\ entry[t] = "open_legacy"))

\* An open that answers 0 has handed out a device that is open, and one that answers
\* an error has handed out none, whatever failed on the way and whatever the other
\* threads do (CameraWrapper.cpp:257-334, CameraWrapper.cpp:379).  The one exception
\* is camera_open_legacy when the vendor's module cannot be loaded: it answers 0 and
\* sets no device (CameraWrapper.cpp:376-377).
SuccessHasDevice == [][\A t \in Threads : OpenAnswered(t)]_camVars

\* "Methods besides close() should return -ENODEV or NULL after the notify() method
\* returns from a fatal error message" (camera3.h:336-338): the wrapper makes no
\* settings of the vendor's NULL.
FatalErrorsPass == ~masked

\* "camera service provided cameraid out of bounds" (CameraWrapper.cpp:266): the
\* vendor is asked for no camera beyond those it supports.
BoundsChecked ==
  \A t \in Threads : pc[t] = "vendor_open" => id[t] < NumCameras

-----------------------------------------------------------------------------
(* Refinement.                                                             *)

\* Where a thread or the service has the vendor device d.
InHand(d, places) == \E t \in Threads : pc[t] \in places /\ dev[t] = d

LeaseOf ==
  [d \in Devices |->
     CASE d \in leaked -> "lost"
       [] handle[d] # "none" -> handle[d]
       [] InHand(d, {"alloc_ops"}) -> "opening"
       [] InHand(d, {"close_lock", "close"}) -> "closing"
       [] OTHER -> "free"]

Lease == INSTANCE DeviceLease WITH lease <- LeaseOf

\* Whatever its threads do at the same time, the wrapper takes each vendor device
\* once round its way from open to close, on the one path of module DeviceLease
\* (CameraWrapper.cpp:213-334).
ImplementsLease == Lease!LeaseSpec

-----------------------------------------------------------------------------
(* The inductive invariant behind the theorems of CameraProofs.            *)

\* Where an entry point can be, and the device it has there.
PlaceInv ==
  \A t \in Threads :
    /\ pc[t] \in {"lock", "bounds", "vendor_open", "alloc_ops"} => entry[t] = "open"
    /\ pc[t] \in {"close_lock", "close"} => entry[t] = "close"
    /\ pc[t] \in {"check", "load"} => entry[t] \in ModuleEntries
    /\ pc[t] = "vendor_call" => entry[t] \in Unlocked
    /\ pc[t] = "device" => entry[t] \in DeviceEntries
    /\ dev[t] # NoDevice <=> pc[t] \in Holding \cup {"device"}

\* The lock is held by the thread that is inside camera_device_open or _close.
CamLockInv ==
  \A t \in Threads :
    (pc[t] \notin {"idle", "lock", "close_lock"} /\ entry[t] \notin Unlocked)
      <=> gCameraWrapperLock = t

\* All of them together, kept by every step of every entry point.
CamInv ==
  /\ CamTypeOK /\ PlaceInv /\ CamLockInv
  /\ VendorPresent /\ OpenIsHeld /\ HeldOnce /\ CallsReachOpenDevice

=============================================================================
