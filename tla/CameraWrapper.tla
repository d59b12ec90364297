--------------------------- MODULE CameraWrapper ----------------------------
(***************************************************************************)
(* camera/CameraWrapper.cpp: the camera HAL that forwards everything to    *)
(* the vendor's camera module, which it loads on first use, and wraps the  *)
(* vendor's devices.                                                       *)
(*                                                                         *)
(* Opening and closing a wrapped device takes gCameraWrapperLock; every    *)
(* other entry point of the module and every operation of an open device   *)
(* runs without it.  A device is named here by the vendor device behind    *)
(* it.                                                                     *)
(***************************************************************************)
EXTENDS Integers

CONSTANTS
  Threads,      \* threads of the camera service
  NoThread,
  Devices,      \* vendor devices that can be open at the same time
  NoDevice,
  NumCameras,   \* what the vendor's get_number_of_cameras returns
  Ids           \* camera ids the service may ask for

ASSUME CameraAssumption ==
  /\ NoThread \notin Threads /\ NoDevice \notin Devices
  /\ NumCameras \in Nat /\ Ids \subseteq Int

VARIABLES
  gVendorModule,       \* is the pointer non-NULL
  gCameraWrapperLock,  \* owner
  pc, entry, id, dev,  \* of each thread: where it is, in which entry point,
                       \* with which camera id and which vendor device
  vendor,              \* vendor devices that are open
  handle,              \* what the service holds for each vendor device
  leaked,              \* history: vendor devices whose wrapper was given up
  fatal,               \* vendor devices that have met a fatal error
  masked,              \* history: the service was not told of one
  raced,               \* history: a failed load has undone a successful one
  answer               \* history: what an entry point of the module last answered

localVars == <<pc, entry, id, dev>>
errorVars == <<fatal, masked>>
deviceVars == <<vendor, handle, leaked, errorVars>>
camVars == <<gVendorModule, gCameraWrapperLock, localVars, deviceVars, raced, answer>>

PCs == {"idle", "lock", "check", "load", "bounds", "vendor_open", "alloc_ops", "vendor_call",
        "device", "close_lock", "close"}

\* "call" stands for the entry points that only forward: the number of cameras,
\* the info of one, the callbacks, the vendor tags, the torch, init; "device" for
\* the operations of a device that only forward: all but "settings".
ModuleEntries == {"open", "open_legacy", "call"}
DeviceEntries == {"device", "settings"}
Entries == ModuleEntries \cup DeviceEntries \cup {"close"}

Unlocked == Entries \ {"open", "close"}

CamInit ==
  /\ gVendorModule = FALSE
  /\ gCameraWrapperLock = NoThread
  /\ pc = [t \in Threads |-> "idle"]
  /\ entry = [t \in Threads |-> "call"]
  /\ id \in [Threads -> Ids]
  /\ dev = [t \in Threads |-> NoDevice]
  /\ vendor = {}
  /\ handle = [d \in Devices |-> "none"]
  /\ leaked = {}
  /\ fatal = {} /\ masked = FALSE
  /\ raced = FALSE /\ answer = "none"

Goto(t, from, to) == pc[t] = from /\ pc' = [pc EXCEPT ![t] = to]

\* Mutant: an early return that leaves the lock taken.
ReturnKeepsLock(t, from) ==
  /\ Goto(t, from, "idle")
  /\ dev' = [dev EXCEPT ![t] = NoDevice]
  /\ UNCHANGED <<gCameraWrapperLock, entry, id>>

\* Returning drops the lock if this entry point holds it.
Return(t, from) ==
  /\ Goto(t, from, "idle")
  /\ dev' = [dev EXCEPT ![t] = NoDevice]
  /\ gCameraWrapperLock' = IF entry[t] \in Unlocked THEN gCameraWrapperLock ELSE NoThread
  /\ UNCHANGED <<entry, id>>

-----------------------------------------------------------------------------
(* The entry points and check_vendor_module.                               *)

Enter(t, e, i) ==
  /\ Goto(t, "idle", IF e = "open" THEN "lock" ELSE "check")
  /\ e \in ModuleEntries
  /\ entry' = [entry EXCEPT ![t] = e]
  /\ id' = [id EXCEPT ![t] = i]
  /\ UNCHANGED <<gVendorModule, gCameraWrapperLock, dev, deviceVars, raced, answer>>

Lock(t) ==
  /\ gCameraWrapperLock = NoThread /\ gCameraWrapperLock' = t
  /\ Goto(t, "lock", "check") \/ Goto(t, "close_lock", "close")
  /\ UNCHANGED <<gVendorModule, entry, id, dev, deviceVars, raced, answer>>

Ready(t) == IF entry[t] = "open" THEN "bounds" ELSE "vendor_call"

CheckVendorModule(t) ==
  /\ Goto(t, "check", IF gVendorModule THEN Ready(t) ELSE "load")
  /\ UNCHANGED <<gVendorModule, gCameraWrapperLock, entry, id, dev, deviceVars, raced, answer>>

Load(t) ==
  /\ Goto(t, "load", Ready(t))
  /\ gVendorModule' = TRUE
  /\ UNCHANGED <<gCameraWrapperLock, entry, id, dev, deviceVars, raced, answer>>

\* Mutant: the result of the load is not returned.
LoadFailsUnnoticed(t) ==
  /\ Goto(t, "load", Ready(t))
  /\ gVendorModule' = FALSE
  /\ raced' = (raced \/ gVendorModule)
  /\ UNCHANGED <<gCameraWrapperLock, entry, id, dev, deviceVars, answer>>

\* A load that fails leaves the pointer alone or stores NULL, over whatever
\* another thread has put there.  Only camera_device_open makes an error of it; the
\* other entry points answer 0, as if they had done what they were asked for.
LoadFails(t) ==
  /\ Return(t, "load")
  /\ answer' = IF entry[t] = "open" THEN "error" ELSE "success"
  /\ \/ gVendorModule' = FALSE /\ raced' = (raced \/ gVendorModule)
     \/ UNCHANGED <<gVendorModule, raced>>
  /\ UNCHANGED deviceVars

VendorCall(t) ==
  /\ gVendorModule
  /\ entry[t] = "call"
  /\ Return(t, "vendor_call")
  /\ answer' \in {"success", "error"}
  /\ UNCHANGED <<gVendorModule, deviceVars, raced>>

\* open_legacy hands out the vendor's device as it is.
OpenLegacy(t) ==
  /\ gVendorModule
  /\ entry[t] = "open_legacy"
  /\ Return(t, "vendor_call")
  /\ \/ answer' = "error" /\ UNCHANGED <<vendor, handle>>
     \/ \E d \in Devices \ vendor :
          /\ answer' = "success"
          /\ vendor' = vendor \cup {d}
          /\ handle' = [handle EXCEPT ![d] = "vendor's"]
  /\ UNCHANGED <<gVendorModule, leaked, errorVars, raced>>

-----------------------------------------------------------------------------
(* camera_device_open behind check_vendor_module.                          *)

OutOfBounds(i) == i > NumCameras

OpenRefused(t) ==
  /\ gVendorModule
  /\ OutOfBounds(id[t])
  /\ Return(t, "bounds")
  /\ answer' = "error"
  /\ UNCHANGED <<gVendorModule, deviceVars, raced>>

\* malloc of the wrapper, which may fail.
AllocDevice(t) ==
  /\ gVendorModule
  /\ ~OutOfBounds(id[t])
  /\ \/ /\ Goto(t, "bounds", "vendor_open")
        /\ UNCHANGED <<gCameraWrapperLock, entry, id, dev, answer>>
     \/ Return(t, "bounds") /\ answer' = "error"
  /\ UNCHANGED <<gVendorModule, deviceVars, raced>>

\* Mutant: the vendor's refusal is not looked at, and the wrapper completed.
VendorOpenFailsUnnoticed(t) ==
  /\ gVendorModule
  /\ \E d \in Devices \ vendor : dev' = [dev EXCEPT ![t] = d]
  /\ Goto(t, "vendor_open", "alloc_ops")
  /\ UNCHANGED <<gVendorModule, gCameraWrapperLock, entry, id, deviceVars, raced, answer>>

\* The vendor may refuse, and does so for a camera that does not exist.
VendorOpenFails(t) ==
  /\ gVendorModule
  /\ Return(t, "vendor_open")
  /\ answer' = "error"
  /\ UNCHANGED <<gVendorModule, deviceVars, raced>>

VendorOpen(t) ==
  /\ gVendorModule
  /\ id[t] \in 0..NumCameras - 1
  /\ \E d \in Devices \ vendor :
       /\ vendor' = vendor \cup {d}
       /\ dev' = [dev EXCEPT ![t] = d]
  /\ Goto(t, "vendor_open", "alloc_ops")
  /\ UNCHANGED <<gVendorModule, gCameraWrapperLock, entry, id, handle, leaked, errorVars, raced, answer>>

OpenSucceeds(t) ==
  /\ Return(t, "alloc_ops")
  /\ answer' = "success"
  /\ handle' = [handle EXCEPT ![dev[t]] = "wrapper"]
  /\ UNCHANGED <<gVendorModule, vendor, leaked, errorVars, raced>>

\* Mutant: the wrapper is handed out although it has been freed.
AllocOpsFailsUnnoticed(t) ==
  /\ Return(t, "alloc_ops")
  /\ answer' = "success"
  /\ handle' = [handle EXCEPT ![dev[t]] = "wrapper"]
  /\ leaked' = leaked \cup {dev[t]}
  /\ UNCHANGED <<gVendorModule, vendor, errorVars, raced>>

\* Mutant: the answer is still the one of the vendor's open.
AllocOpsFailsWithVendorsAnswer(t) ==
  /\ Return(t, "alloc_ops")
  /\ answer' = "success"
  /\ leaked' = leaked \cup {dev[t]}
  /\ UNCHANGED <<gVendorModule, vendor, handle, errorVars, raced>>

\* Without memory for the operations the wrapper is freed, and with it the only
\* pointer to the vendor's device, which stays open.
AllocOpsFails(t) ==
  /\ Return(t, "alloc_ops")
  /\ answer' = "error"
  /\ leaked' = leaked \cup {dev[t]}
  /\ UNCHANGED <<gVendorModule, vendor, handle, errorVars, raced>>

-----------------------------------------------------------------------------
(* The operations of an open wrapper.                                      *)

UseDevice(t, e, d) ==
  /\ handle[d] = "wrapper"
  /\ Goto(t, "idle", "device")
  /\ entry' = [entry EXCEPT ![t] = e]
  /\ dev' = [dev EXCEPT ![t] = d]
  /\ UNCHANGED <<gVendorModule, gCameraWrapperLock, id, deviceVars, raced, answer>>

\* initialize, configure_streams, process_capture_request, flush, dump and the
\* metadata's tags pass the vendor's answer on as it is.
VendorDeviceCall(t) ==
  /\ entry[t] = "device"
  /\ Return(t, "device")
  /\ UNCHANGED <<gVendorModule, deviceVars, raced, answer>>

\* CameraMetadata's assignment and update: a clone of the vendor's settings, none
\* of NULL, to which an entry is added, in a new buffer if there is none yet.  The
\* update fails if there is no memory.
Updated(settings) == IF settings = "NULL" THEN {"NULL", "settings"} ELSE {"settings"}

\* construct_default_request_settings adds the focus mode to the vendor's
\* settings, which are NULL after a fatal error.
DefaultSettings(t) ==
  /\ entry[t] = "settings"
  /\ Return(t, "device")
  /\ LET vendors == IF dev[t] \in fatal THEN "NULL" ELSE "settings"
     IN \E settings \in Updated(vendors) : masked' = (masked \/ settings # vendors)
  /\ UNCHANGED <<gVendorModule, vendor, handle, leaked, fatal, raced, answer>>

\* An open vendor device meets a fatal error and notifies the service.
DeviceFails(d) ==
  /\ d \in vendor
  /\ fatal' = fatal \cup {d}
  /\ UNCHANGED <<gVendorModule, gCameraWrapperLock, localVars, vendor, handle, leaked, masked, raced, answer>>

-----------------------------------------------------------------------------
(* Closing.                                                                *)

InUse(d) == \E t \in Threads : pc[t] = "device" /\ dev[t] = d

\* The service closes a device when no other call of it is under way, and gives
\* its handle up with the call; a wrapper goes through camera_device_close, a
\* vendor's device does not.
CallClose(t, d) ==
  /\ handle[d] = "wrapper"
  /\ ~InUse(d)
  /\ Goto(t, "idle", "close_lock")
  /\ entry' = [entry EXCEPT ![t] = "close"]
  /\ dev' = [dev EXCEPT ![t] = d]
  /\ handle' = [handle EXCEPT ![d] = "none"]
  /\ UNCHANGED <<gVendorModule, gCameraWrapperLock, id, vendor, leaked, errorVars, raced, answer>>

CloseLegacy(t, d) ==
  /\ pc[t] = "idle" /\ handle[d] = "vendor's"
  /\ handle' = [handle EXCEPT ![d] = "none"]
  /\ vendor' = vendor \ {d} /\ fatal' = fatal \ {d}
  /\ UNCHANGED <<gVendorModule, gCameraWrapperLock, localVars, leaked, masked, raced, answer>>

\* Mutant: the wrapper is freed and its vendor device not closed.
CloseWrapperOnly(t) ==
  /\ Return(t, "close")
  /\ UNCHANGED <<gVendorModule, deviceVars, raced, answer>>

Close(t) ==
  /\ Return(t, "close")
  /\ vendor' = vendor \ {dev[t]} /\ fatal' = fatal \ {dev[t]}
  /\ UNCHANGED <<gVendorModule, handle, leaked, masked, raced, answer>>

\* The process dies, of a NULL gVendorModule or of anything else.
Crash ==
  /\ gVendorModule' = FALSE
  /\ gCameraWrapperLock' = NoThread
  /\ pc' = [t \in Threads |-> "idle"]
  /\ dev' = [t \in Threads |-> NoDevice]
  /\ vendor' = {} /\ handle' = [d \in Devices |-> "none"] /\ leaked' = {}
  /\ fatal' = {} /\ masked' = FALSE
  /\ raced' = FALSE /\ answer' = "none"
  /\ UNCHANGED <<entry, id>>

-----------------------------------------------------------------------------

OpenStep(t) ==
  \/ OpenRefused(t) \/ AllocDevice(t) \/ VendorOpenFails(t) \/ VendorOpen(t)
  \/ OpenSucceeds(t) \/ AllocOpsFails(t)

CamNext ==
  \/ \E t \in Threads :
       \/ \E e \in ModuleEntries, i \in Ids : Enter(t, e, i)
       \/ Lock(t) \/ CheckVendorModule(t) \/ Load(t) \/ LoadFails(t)
       \/ VendorCall(t) \/ OpenLegacy(t) \/ OpenStep(t) \/ Close(t)
       \/ VendorDeviceCall(t) \/ DefaultSettings(t)
       \/ \E d \in Devices : CallClose(t, d) \/ CloseLegacy(t, d)
       \/ \E e \in DeviceEntries, d \in Devices : UseDevice(t, e, d)
  \/ \E d \in Devices : DeviceFails(d)
  \/ Crash

CamSpec == CamInit /\ [][CamNext]_camVars

=============================================================================
