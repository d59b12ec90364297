---------------------------- MODULE CameraProofs ----------------------------
(***************************************************************************)
(* Proofs about CameraWrapper for every set of threads, devices and camera *)
(* ids: the parts of CamInv are kept by every step.                        *)
(***************************************************************************)
EXTENDS CameraProps, TLAPS

\* Every entry point keeps the types.
LEMMA CamTypeStep ==
  ASSUME CamTypeOK, PlaceInv, [CamNext]_camVars
  PROVE  CamTypeOK'
<1> USE CameraAssumption DEF CamTypeOK, PCs, Entries, ModuleEntries, DeviceEntries, localVars, deviceVars, errorVars, PlaceInv, Holding, Unlocked
<1>1. ASSUME NEW t \in Threads, NEW e \in ModuleEntries, NEW i \in Ids, Enter(t, e, i) PROVE CamTypeOK'
  BY <1>1 DEF Enter, Goto
<1>2. ASSUME NEW t \in Threads, Lock(t) PROVE CamTypeOK'
  BY <1>2 DEF Lock, Goto
<1>3. ASSUME NEW t \in Threads, CheckVendorModule(t) PROVE CamTypeOK'
  BY <1>3 DEF CheckVendorModule, Goto, Ready
<1>4. ASSUME NEW t \in Threads, Load(t) PROVE CamTypeOK'
  BY <1>4 DEF Load, Goto, Ready
<1>5. ASSUME NEW t \in Threads, LoadFails(t) PROVE CamTypeOK'
  BY <1>5 DEF LoadFails, Return, Goto
<1>6. ASSUME NEW t \in Threads, VendorCall(t) PROVE CamTypeOK'
  BY <1>6 DEF VendorCall, Return, Goto
<1>7. ASSUME NEW t \in Threads, OpenLegacy(t) PROVE CamTypeOK'
  BY <1>7 DEF OpenLegacy, Return, Goto
<1>8. ASSUME NEW t \in Threads, OpenRefused(t) PROVE CamTypeOK'
  BY <1>8 DEF OpenRefused, Return, Goto
<1>9. ASSUME NEW t \in Threads, AllocDevice(t) PROVE CamTypeOK'
  BY <1>9 DEF AllocDevice, Return, Goto
<1>10. ASSUME NEW t \in Threads, VendorOpenFails(t) PROVE CamTypeOK'
  BY <1>10 DEF VendorOpenFails, Return, Goto
<1>11. ASSUME NEW t \in Threads, VendorOpen(t) PROVE CamTypeOK'
  BY <1>11 DEF VendorOpen, Goto
<1>12. ASSUME NEW t \in Threads, OpenSucceeds(t) PROVE CamTypeOK'
  BY <1>12 DEF OpenSucceeds, Return, Goto
<1>13. ASSUME NEW t \in Threads, AllocOpsFails(t) PROVE CamTypeOK'
  BY <1>13 DEF AllocOpsFails, Return, Goto
<1>14. ASSUME NEW t \in Threads, Close(t) PROVE CamTypeOK'
  BY <1>14 DEF Close, Return, Goto
<1>15. ASSUME NEW t \in Threads, NEW d \in Devices, CallClose(t, d) PROVE CamTypeOK'
  BY <1>15 DEF CallClose, Goto
<1>16. ASSUME NEW t \in Threads, NEW d \in Devices, CloseLegacy(t, d) PROVE CamTypeOK'
  BY <1>16 DEF CloseLegacy
<1>17. ASSUME NEW t \in Threads, VendorDeviceCall(t) PROVE CamTypeOK'
  BY <1>17 DEF VendorDeviceCall, Return, Goto
<1>18. ASSUME NEW t \in Threads, DefaultSettings(t) PROVE CamTypeOK'
  <2>1. masked' \in BOOLEAN
    BY <1>18, Zenon DEF DefaultSettings
  <2> QED BY <1>18, <2>1 DEF DefaultSettings, Return, Goto
<1>19. ASSUME NEW t \in Threads, NEW e \in DeviceEntries, NEW d \in Devices, UseDevice(t, e, d) PROVE CamTypeOK'
  BY <1>19 DEF UseDevice, Goto
<1>20. ASSUME NEW d \in Devices, DeviceFails(d) PROVE CamTypeOK'
  BY <1>20 DEF DeviceFails
<1>21. CASE Crash
  BY <1>21 DEF Crash
<1>22. CASE UNCHANGED camVars
  BY <1>22 DEF camVars
<1> QED
  BY <1>1, <1>2, <1>3, <1>4, <1>5, <1>6, <1>7, <1>8, <1>9,
     <1>10, <1>11, <1>12, <1>13, <1>14, <1>15, <1>16, <1>17, <1>18,
     <1>19, <1>20, <1>21, <1>22 DEF CamNext, OpenStep

\* A thread is only where its entry point can take it, and has a vendor device
\* in hand exactly between opening it and letting go of it.
LEMMA PlaceStep ==
  ASSUME CamTypeOK, PlaceInv, [CamNext]_camVars
  PROVE  PlaceInv'
<1> USE CameraAssumption DEF CamTypeOK, PCs, Entries, ModuleEntries, DeviceEntries, localVars, deviceVars, errorVars, PlaceInv, Holding, Unlocked
<1>1. ASSUME NEW t \in Threads, NEW e \in ModuleEntries, NEW i \in Ids, Enter(t, e, i) PROVE PlaceInv'
  BY <1>1 DEF Enter, Goto
<1>2. ASSUME NEW t \in Threads, Lock(t) PROVE PlaceInv'
  BY <1>2 DEF Lock, Goto
<1>3. ASSUME NEW t \in Threads, CheckVendorModule(t) PROVE PlaceInv'
  BY <1>3 DEF CheckVendorModule, Goto, Ready
<1>4. ASSUME NEW t \in Threads, Load(t) PROVE PlaceInv'
  BY <1>4 DEF Load, Goto, Ready
<1>5. ASSUME NEW t \in Threads, LoadFails(t) PROVE PlaceInv'
  BY <1>5 DEF LoadFails, Return, Goto
<1>6. ASSUME NEW t \in Threads, VendorCall(t) PROVE PlaceInv'
  BY <1>6 DEF VendorCall, Return, Goto
<1>7. ASSUME NEW t \in Threads, OpenLegacy(t) PROVE PlaceInv'
  BY <1>7 DEF OpenLegacy, Return, Goto
<1>8. ASSUME NEW t \in Threads, OpenRefused(t) PROVE PlaceInv'
  BY <1>8 DEF OpenRefused, Return, Goto
<1>9. ASSUME NEW t \in Threads, AllocDevice(t) PROVE PlaceInv'
  BY <1>9 DEF AllocDevice, Return, Goto
<1>10. ASSUME NEW t \in Threads, VendorOpenFails(t) PROVE PlaceInv'
  BY <1>10 DEF VendorOpenFails, Return, Goto
<1>11. ASSUME NEW t \in Threads, VendorOpen(t) PROVE PlaceInv'
  BY <1>11 DEF VendorOpen, Goto
<1>12. ASSUME NEW t \in Threads, OpenSucceeds(t) PROVE PlaceInv'
  BY <1>12 DEF OpenSucceeds, Return, Goto
<1>13. ASSUME NEW t \in Threads, AllocOpsFails(t) PROVE PlaceInv'
  BY <1>13 DEF AllocOpsFails, Return, Goto
<1>14. ASSUME NEW t \in Threads, Close(t) PROVE PlaceInv'
  BY <1>14 DEF Close, Return, Goto
<1>15. ASSUME NEW t \in Threads, NEW d \in Devices, CallClose(t, d) PROVE PlaceInv'
  BY <1>15 DEF CallClose, Goto
<1>16. ASSUME NEW t \in Threads, NEW d \in Devices, CloseLegacy(t, d) PROVE PlaceInv'
  BY <1>16 DEF CloseLegacy
<1>17. ASSUME NEW t \in Threads, VendorDeviceCall(t) PROVE PlaceInv'
  BY <1>17 DEF VendorDeviceCall, Return, Goto
<1>18. ASSUME NEW t \in Threads, DefaultSettings(t) PROVE PlaceInv'
  BY <1>18 DEF DefaultSettings, Return, Goto
<1>19. ASSUME NEW t \in Threads, NEW e \in DeviceEntries, NEW d \in Devices, UseDevice(t, e, d) PROVE PlaceInv'
  BY <1>19 DEF UseDevice, Goto
<1>20. ASSUME NEW d \in Devices, DeviceFails(d) PROVE PlaceInv'
  BY <1>20 DEF DeviceFails
<1>21. CASE Crash
  BY <1>21 DEF Crash
<1>22. CASE UNCHANGED camVars
  BY <1>22 DEF camVars
<1> QED
  BY <1>1, <1>2, <1>3, <1>4, <1>5, <1>6, <1>7, <1>8, <1>9,
     <1>10, <1>11, <1>12, <1>13, <1>14, <1>15, <1>16, <1>17, <1>18,
     <1>19, <1>20, <1>21, <1>22 DEF CamNext, OpenStep

\* gCameraWrapperLock covers camera_device_open and camera_device_close to their
\* last early return (CameraWrapper.cpp:220, CameraWrapper.cpp:253).
LEMMA CamLockStep ==
  ASSUME CamTypeOK, PlaceInv, CamLockInv, [CamNext]_camVars
  PROVE  CamLockInv'
<1> USE CameraAssumption DEF CamTypeOK, PCs, Entries, ModuleEntries, DeviceEntries, localVars, deviceVars, errorVars, PlaceInv, Holding, Unlocked, CamLockInv
<1>1. ASSUME NEW t \in Threads, NEW e \in ModuleEntries, NEW i \in Ids, Enter(t, e, i) PROVE CamLockInv'
  BY <1>1 DEF Enter, Goto
<1>2. ASSUME NEW t \in Threads, Lock(t) PROVE CamLockInv'
  BY <1>2 DEF Lock, Goto
<1>3. ASSUME NEW t \in Threads, CheckVendorModule(t) PROVE CamLockInv'
  BY <1>3 DEF CheckVendorModule, Goto, Ready
<1>4. ASSUME NEW t \in Threads, Load(t) PROVE CamLockInv'
  BY <1>4 DEF Load, Goto, Ready
<1>5. ASSUME NEW t \in Threads, LoadFails(t) PROVE CamLockInv'
  BY <1>5 DEF LoadFails, Return, Goto
<1>6. ASSUME NEW t \in Threads, VendorCall(t) PROVE CamLockInv'
  BY <1>6 DEF VendorCall, Return, Goto
<1>7. ASSUME NEW t \in Threads, OpenLegacy(t) PROVE CamLockInv'
  BY <1>7 DEF OpenLegacy, Return, Goto
<1>8. ASSUME NEW t \in Threads, OpenRefused(t) PROVE CamLockInv'
  BY <1>8 DEF OpenRefused, Return, Goto
<1>9. ASSUME NEW t \in Threads, AllocDevice(t) PROVE CamLockInv'
  BY <1>9 DEF AllocDevice, Return, Goto
<1>10. ASSUME NEW t \in Threads, VendorOpenFails(t) PROVE CamLockInv'
  BY <1>10 DEF VendorOpenFails, Return, Goto
<1>11. ASSUME NEW t \in Threads, VendorOpen(t) PROVE CamLockInv'
  BY <1>11 DEF VendorOpen, Goto
<1>12. ASSUME NEW t \in Threads, OpenSucceeds(t) PROVE CamLockInv'
  BY <1>12 DEF OpenSucceeds, Return, Goto
<1>13. ASSUME NEW t \in Threads, AllocOpsFails(t) PROVE CamLockInv'
  BY <1>13 DEF AllocOpsFails, Return, Goto
<1>14. ASSUME NEW t \in Threads, Close(t) PROVE CamLockInv'
  BY <1>14 DEF Close, Return, Goto
<1>15. ASSUME NEW t \in Threads, NEW d \in Devices, CallClose(t, d) PROVE CamLockInv'
  BY <1>15 DEF CallClose, Goto
<1>16. ASSUME NEW t \in Threads, NEW d \in Devices, CloseLegacy(t, d) PROVE CamLockInv'
  BY <1>16 DEF CloseLegacy
<1>17. ASSUME NEW t \in Threads, VendorDeviceCall(t) PROVE CamLockInv'
  BY <1>17 DEF VendorDeviceCall, Return, Goto
<1>18. ASSUME NEW t \in Threads, DefaultSettings(t) PROVE CamLockInv'
  BY <1>18 DEF DefaultSettings, Return, Goto
<1>19. ASSUME NEW t \in Threads, NEW e \in DeviceEntries, NEW d \in Devices, UseDevice(t, e, d) PROVE CamLockInv'
  BY <1>19 DEF UseDevice, Goto
<1>20. ASSUME NEW d \in Devices, DeviceFails(d) PROVE CamLockInv'
  BY <1>20 DEF DeviceFails
<1>21. CASE Crash
  BY <1>21 DEF Crash
<1>22. CASE UNCHANGED camVars
  BY <1>22 DEF camVars
<1> QED
  BY <1>1, <1>2, <1>3, <1>4, <1>5, <1>6, <1>7, <1>8, <1>9,
     <1>10, <1>11, <1>12, <1>13, <1>14, <1>15, <1>16, <1>17, <1>18,
     <1>19, <1>20, <1>21, <1>22 DEF CamNext, OpenStep

\* gVendorModule goes back to NULL only by a failed load that another thread had
\* won (CameraWrapper.cpp:98-106).
LEMMA VendorStep ==
  ASSUME CamTypeOK, VendorPresent, [CamNext]_camVars
  PROVE  VendorPresent'
<1> USE CameraAssumption DEF CamTypeOK, PCs, Entries, ModuleEntries, DeviceEntries, localVars, deviceVars, errorVars, VendorPresent, Dereferences
<1>1. ASSUME NEW t \in Threads, NEW e \in ModuleEntries, NEW i \in Ids, Enter(t, e, i) PROVE VendorPresent'
  BY <1>1 DEF Enter, Goto
<1>2. ASSUME NEW t \in Threads, Lock(t) PROVE VendorPresent'
  BY <1>2 DEF Lock, Goto
<1>3. ASSUME NEW t \in Threads, CheckVendorModule(t) PROVE VendorPresent'
  BY <1>3 DEF CheckVendorModule, Goto, Ready
<1>4. ASSUME NEW t \in Threads, Load(t) PROVE VendorPresent'
  BY <1>4 DEF Load, Goto, Ready
<1>5. ASSUME NEW t \in Threads, LoadFails(t) PROVE VendorPresent'
  BY <1>5 DEF LoadFails, Return, Goto
<1>6. ASSUME NEW t \in Threads, VendorCall(t) PROVE VendorPresent'
  BY <1>6 DEF VendorCall, Return, Goto
<1>7. ASSUME NEW t \in Threads, OpenLegacy(t) PROVE VendorPresent'
  BY <1>7 DEF OpenLegacy, Return, Goto
<1>8. ASSUME NEW t \in Threads, OpenRefused(t) PROVE VendorPresent'
  BY <1>8 DEF OpenRefused, Return, Goto
<1>9. ASSUME NEW t \in Threads, AllocDevice(t) PROVE VendorPresent'
  BY <1>9 DEF AllocDevice, Return, Goto
<1>10. ASSUME NEW t \in Threads, VendorOpenFails(t) PROVE VendorPresent'
  BY <1>10 DEF VendorOpenFails, Return, Goto
<1>11. ASSUME NEW t \in Threads, VendorOpen(t) PROVE VendorPresent'
  BY <1>11 DEF VendorOpen, Goto
<1>12. ASSUME NEW t \in Threads, OpenSucceeds(t) PROVE VendorPresent'
  BY <1>12 DEF OpenSucceeds, Return, Goto
<1>13. ASSUME NEW t \in Threads, AllocOpsFails(t) PROVE VendorPresent'
  BY <1>13 DEF AllocOpsFails, Return, Goto
<1>14. ASSUME NEW t \in Threads, Close(t) PROVE VendorPresent'
  BY <1>14 DEF Close, Return, Goto
<1>15. ASSUME NEW t \in Threads, NEW d \in Devices, CallClose(t, d) PROVE VendorPresent'
  BY <1>15 DEF CallClose, Goto
<1>16. ASSUME NEW t \in Threads, NEW d \in Devices, CloseLegacy(t, d) PROVE VendorPresent'
  BY <1>16 DEF CloseLegacy
<1>17. ASSUME NEW t \in Threads, VendorDeviceCall(t) PROVE VendorPresent'
  BY <1>17 DEF VendorDeviceCall, Return, Goto
<1>18. ASSUME NEW t \in Threads, DefaultSettings(t) PROVE VendorPresent'
  BY <1>18 DEF DefaultSettings, Return, Goto
<1>19. ASSUME NEW t \in Threads, NEW e \in DeviceEntries, NEW d \in Devices, UseDevice(t, e, d) PROVE VendorPresent'
  BY <1>19 DEF UseDevice, Goto
<1>20. ASSUME NEW d \in Devices, DeviceFails(d) PROVE VendorPresent'
  BY <1>20 DEF DeviceFails
<1>21. CASE Crash
  BY <1>21 DEF Crash
<1>22. CASE UNCHANGED camVars
  BY <1>22 DEF camVars
<1> QED
  BY <1>1, <1>2, <1>3, <1>4, <1>5, <1>6, <1>7, <1>8, <1>9,
     <1>10, <1>11, <1>12, <1>13, <1>14, <1>15, <1>16, <1>17, <1>18,
     <1>19, <1>20, <1>21, <1>22 DEF CamNext, OpenStep

\* Opening, handing out, failing and closing keep every open vendor device in
\* somebody's hands, or count it as leaked.
LEMMA HeldStep ==
  ASSUME CamTypeOK, PlaceInv, CamLockInv, OpenIsHeld, HeldOnce, [CamNext]_camVars
  PROVE  OpenIsHeld'
<1> USE CameraAssumption DEF CamTypeOK, PCs, Entries, ModuleEntries, DeviceEntries, localVars, deviceVars, errorVars, PlaceInv, Holding, Unlocked, CamLockInv, OpenIsHeld, HeldOnce, Held
<1>1. ASSUME NEW t \in Threads, NEW e \in ModuleEntries, NEW i \in Ids, Enter(t, e, i) PROVE OpenIsHeld'
  BY <1>1 DEF Enter, Goto
<1>2. ASSUME NEW t \in Threads, Lock(t) PROVE OpenIsHeld'
  BY <1>2 DEF Lock, Goto
<1>3. ASSUME NEW t \in Threads, CheckVendorModule(t) PROVE OpenIsHeld'
  BY <1>3 DEF CheckVendorModule, Goto, Ready
<1>4. ASSUME NEW t \in Threads, Load(t) PROVE OpenIsHeld'
  BY <1>4 DEF Load, Goto, Ready
<1>5. ASSUME NEW t \in Threads, LoadFails(t) PROVE OpenIsHeld'
  BY <1>5 DEF LoadFails, Return, Goto
<1>6. ASSUME NEW t \in Threads, VendorCall(t) PROVE OpenIsHeld'
  BY <1>6 DEF VendorCall, Return, Goto
<1>7. ASSUME NEW t \in Threads, OpenLegacy(t) PROVE OpenIsHeld'
  BY <1>7 DEF OpenLegacy, Return, Goto
<1>8. ASSUME NEW t \in Threads, OpenRefused(t) PROVE OpenIsHeld'
  BY <1>8 DEF OpenRefused, Return, Goto
<1>9. ASSUME NEW t \in Threads, AllocDevice(t) PROVE OpenIsHeld'
  BY <1>9 DEF AllocDevice, Return, Goto
<1>10. ASSUME NEW t \in Threads, VendorOpenFails(t) PROVE OpenIsHeld'
  BY <1>10 DEF VendorOpenFails, Return, Goto
<1>11. ASSUME NEW t \in Threads, VendorOpen(t) PROVE OpenIsHeld'
  BY <1>11 DEF VendorOpen, Goto
<1>12. ASSUME NEW t \in Threads, OpenSucceeds(t) PROVE OpenIsHeld'
  BY <1>12 DEF OpenSucceeds, Return, Goto
<1>13. ASSUME NEW t \in Threads, AllocOpsFails(t) PROVE OpenIsHeld'
  BY <1>13 DEF AllocOpsFails, Return, Goto
<1>14. ASSUME NEW t \in Threads, Close(t) PROVE OpenIsHeld'
  BY <1>14 DEF Close, Return, Goto
<1>15. ASSUME NEW t \in Threads, NEW d \in Devices, CallClose(t, d) PROVE OpenIsHeld'
  BY <1>15 DEF CallClose, Goto, InUse
<1>16. ASSUME NEW t \in Threads, NEW d \in Devices, CloseLegacy(t, d) PROVE OpenIsHeld'
  BY <1>16 DEF CloseLegacy
<1>17. ASSUME NEW t \in Threads, VendorDeviceCall(t) PROVE OpenIsHeld'
  BY <1>17 DEF VendorDeviceCall, Return, Goto
<1>18. ASSUME NEW t \in Threads, DefaultSettings(t) PROVE OpenIsHeld'
  BY <1>18 DEF DefaultSettings, Return, Goto
<1>19. ASSUME NEW t \in Threads, NEW e \in DeviceEntries, NEW d \in Devices, UseDevice(t, e, d) PROVE OpenIsHeld'
  BY <1>19 DEF UseDevice, Goto
<1>20. ASSUME NEW d \in Devices, DeviceFails(d) PROVE OpenIsHeld'
  BY <1>20 DEF DeviceFails
<1>21. CASE Crash
  BY <1>21 DEF Crash
<1>22. CASE UNCHANGED camVars
  BY <1>22 DEF camVars
<1> QED
  BY <1>1, <1>2, <1>3, <1>4, <1>5, <1>6, <1>7, <1>8, <1>9,
     <1>10, <1>11, <1>12, <1>13, <1>14, <1>15, <1>16, <1>17, <1>18,
     <1>19, <1>20, <1>21, <1>22 DEF CamNext, OpenStep

\* ... and never in two hands.
LEMMA HeldOnceStep ==
  ASSUME CamTypeOK, PlaceInv, OpenIsHeld, HeldOnce, CallsReachOpenDevice, [CamNext]_camVars
  PROVE  HeldOnce'
<1> USE CameraAssumption DEF CamTypeOK, PCs, Entries, ModuleEntries, DeviceEntries, localVars, deviceVars, errorVars, PlaceInv, Holding, Unlocked, OpenIsHeld, HeldOnce, Held, CallsReachOpenDevice
<1>1. ASSUME NEW t \in Threads, NEW e \in ModuleEntries, NEW i \in Ids, Enter(t, e, i) PROVE HeldOnce'
  BY <1>1 DEF Enter, Goto
<1>2. ASSUME NEW t \in Threads, Lock(t) PROVE HeldOnce'
  BY <1>2 DEF Lock, Goto
<1>3. ASSUME NEW t \in Threads, CheckVendorModule(t) PROVE HeldOnce'
  BY <1>3 DEF CheckVendorModule, Goto, Ready
<1>4. ASSUME NEW t \in Threads, Load(t) PROVE HeldOnce'
  BY <1>4 DEF Load, Goto, Ready
<1>5. ASSUME NEW t \in Threads, LoadFails(t) PROVE HeldOnce'
  BY <1>5 DEF LoadFails, Return, Goto
<1>6. ASSUME NEW t \in Threads, VendorCall(t) PROVE HeldOnce'
  BY <1>6 DEF VendorCall, Return, Goto
<1>7. ASSUME NEW t \in Threads, OpenLegacy(t) PROVE HeldOnce'
  BY <1>7 DEF OpenLegacy, Return, Goto
<1>8. ASSUME NEW t \in Threads, OpenRefused(t) PROVE HeldOnce'
  BY <1>8 DEF OpenRefused, Return, Goto
<1>9. ASSUME NEW t \in Threads, AllocDevice(t) PROVE HeldOnce'
  BY <1>9 DEF AllocDevice, Return, Goto
<1>10. ASSUME NEW t \in Threads, VendorOpenFails(t) PROVE HeldOnce'
  BY <1>10 DEF VendorOpenFails, Return, Goto
<1>11. ASSUME NEW t \in Threads, VendorOpen(t) PROVE HeldOnce'
  BY <1>11 DEF VendorOpen, Goto
<1>12. ASSUME NEW t \in Threads, OpenSucceeds(t) PROVE HeldOnce'
  BY <1>12 DEF OpenSucceeds, Return, Goto
<1>13. ASSUME NEW t \in Threads, AllocOpsFails(t) PROVE HeldOnce'
  BY <1>13 DEF AllocOpsFails, Return, Goto
<1>14. ASSUME NEW t \in Threads, Close(t) PROVE HeldOnce'
  BY <1>14 DEF Close, Return, Goto
<1>15. ASSUME NEW t \in Threads, NEW d \in Devices, CallClose(t, d) PROVE HeldOnce'
  BY <1>15 DEF CallClose, Goto, InUse
<1>16. ASSUME NEW t \in Threads, NEW d \in Devices, CloseLegacy(t, d) PROVE HeldOnce'
  BY <1>16 DEF CloseLegacy
<1>17. ASSUME NEW t \in Threads, VendorDeviceCall(t) PROVE HeldOnce'
  BY <1>17 DEF VendorDeviceCall, Return, Goto
<1>18. ASSUME NEW t \in Threads, DefaultSettings(t) PROVE HeldOnce'
  BY <1>18 DEF DefaultSettings, Return, Goto
<1>19. ASSUME NEW t \in Threads, NEW e \in DeviceEntries, NEW d \in Devices, UseDevice(t, e, d) PROVE HeldOnce'
  BY <1>19 DEF UseDevice, Goto
<1>20. ASSUME NEW d \in Devices, DeviceFails(d) PROVE HeldOnce'
  BY <1>20 DEF DeviceFails
<1>21. CASE Crash
  BY <1>21 DEF Crash
<1>22. CASE UNCHANGED camVars
  BY <1>22 DEF camVars
<1> QED
  BY <1>1, <1>2, <1>3, <1>4, <1>5, <1>6, <1>7, <1>8, <1>9,
     <1>10, <1>11, <1>12, <1>13, <1>14, <1>15, <1>16, <1>17, <1>18,
     <1>19, <1>20, <1>21, <1>22 DEF CamNext, OpenStep

\* The service does not close a wrapper that is in use, and nothing else takes it
\* or its vendor device away (camera3.h:321-328).
LEMMA UseStep ==
  ASSUME CamTypeOK, PlaceInv, OpenIsHeld, HeldOnce, CallsReachOpenDevice, [CamNext]_camVars
  PROVE  CallsReachOpenDevice'
<1> USE CameraAssumption DEF CamTypeOK, PCs, Entries, ModuleEntries, DeviceEntries, localVars, deviceVars, errorVars, PlaceInv, Holding, Unlocked, OpenIsHeld, HeldOnce, Held, CallsReachOpenDevice
<1>1. ASSUME NEW t \in Threads, NEW e \in ModuleEntries, NEW i \in Ids, Enter(t, e, i) PROVE CallsReachOpenDevice'
  BY <1>1 DEF Enter, Goto
<1>2. ASSUME NEW t \in Threads, Lock(t) PROVE CallsReachOpenDevice'
  BY <1>2 DEF Lock, Goto
<1>3. ASSUME NEW t \in Threads, CheckVendorModule(t) PROVE CallsReachOpenDevice'
  BY <1>3 DEF CheckVendorModule, Goto, Ready
<1>4. ASSUME NEW t \in Threads, Load(t) PROVE CallsReachOpenDevice'
  BY <1>4 DEF Load, Goto, Ready
<1>5. ASSUME NEW t \in Threads, LoadFails(t) PROVE CallsReachOpenDevice'
  BY <1>5 DEF LoadFails, Return, Goto
<1>6. ASSUME NEW t \in Threads, VendorCall(t) PROVE CallsReachOpenDevice'
  BY <1>6 DEF VendorCall, Return, Goto
<1>7. ASSUME NEW t \in Threads, OpenLegacy(t) PROVE CallsReachOpenDevice'
  BY <1>7 DEF OpenLegacy, Return, Goto
<1>8. ASSUME NEW t \in Threads, OpenRefused(t) PROVE CallsReachOpenDevice'
  BY <1>8 DEF OpenRefused, Return, Goto
<1>9. ASSUME NEW t \in Threads, AllocDevice(t) PROVE CallsReachOpenDevice'
  BY <1>9 DEF AllocDevice, Return, Goto
<1>10. ASSUME NEW t \in Threads, VendorOpenFails(t) PROVE CallsReachOpenDevice'
  BY <1>10 DEF VendorOpenFails, Return, Goto
<1>11. ASSUME NEW t \in Threads, VendorOpen(t) PROVE CallsReachOpenDevice'
  BY <1>11 DEF VendorOpen, Goto
<1>12. ASSUME NEW t \in Threads, OpenSucceeds(t) PROVE CallsReachOpenDevice'
  BY <1>12 DEF OpenSucceeds, Return, Goto
<1>13. ASSUME NEW t \in Threads, AllocOpsFails(t) PROVE CallsReachOpenDevice'
  BY <1>13 DEF AllocOpsFails, Return, Goto
<1>14. ASSUME NEW t \in Threads, Close(t) PROVE CallsReachOpenDevice'
  BY <1>14 DEF Close, Return, Goto
<1>15. ASSUME NEW t \in Threads, NEW d \in Devices, CallClose(t, d) PROVE CallsReachOpenDevice'
  BY <1>15 DEF CallClose, Goto, InUse
<1>16. ASSUME NEW t \in Threads, NEW d \in Devices, CloseLegacy(t, d) PROVE CallsReachOpenDevice'
  BY <1>16 DEF CloseLegacy
<1>17. ASSUME NEW t \in Threads, VendorDeviceCall(t) PROVE CallsReachOpenDevice'
  BY <1>17 DEF VendorDeviceCall, Return, Goto
<1>18. ASSUME NEW t \in Threads, DefaultSettings(t) PROVE CallsReachOpenDevice'
  BY <1>18 DEF DefaultSettings, Return, Goto
<1>19. ASSUME NEW t \in Threads, NEW e \in DeviceEntries, NEW d \in Devices, UseDevice(t, e, d) PROVE CallsReachOpenDevice'
  BY <1>19 DEF UseDevice, Goto
<1>20. ASSUME NEW d \in Devices, DeviceFails(d) PROVE CallsReachOpenDevice'
  BY <1>20 DEF DeviceFails
<1>21. CASE Crash
  BY <1>21 DEF Crash
<1>22. CASE UNCHANGED camVars
  BY <1>22 DEF camVars
<1> QED
  BY <1>1, <1>2, <1>3, <1>4, <1>5, <1>6, <1>7, <1>8, <1>9,
     <1>10, <1>11, <1>12, <1>13, <1>14, <1>15, <1>16, <1>17, <1>18,
     <1>19, <1>20, <1>21, <1>22 DEF CamNext, OpenStep

-----------------------------------------------------------------------------

\* The invariant holds before the first call.
LEMMA CamInitInv == CamInit => CamInv
<1> SUFFICES ASSUME CamInit PROVE CamInv
  OBVIOUS
<1> USE CameraAssumption DEF CamInit
<1>1. CamTypeOK
  <2>1. gVendorModule \in BOOLEAN /\ raced \in BOOLEAN /\ masked \in BOOLEAN
    BY Zenon
  <2> QED BY <2>1 DEF CamTypeOK, PCs, Entries, ModuleEntries
<1>2. PlaceInv /\ CamLockInv /\ VendorPresent /\ CallsReachOpenDevice
  BY DEF PlaceInv, CamLockInv, VendorPresent, Dereferences, CallsReachOpenDevice, Holding
<1>3. OpenIsHeld /\ HeldOnce
  BY DEF OpenIsHeld, HeldOnce, Held, Holding
<1> QED BY <1>1, <1>2, <1>3 DEF CamInv

\* CamInv is an inductive invariant of the wrapper.
THEOREM CamInductive == CamSpec => []CamInv
<1>1. CamInv /\ [CamNext]_camVars => CamInv'
  BY CamTypeStep, PlaceStep, CamLockStep, VendorStep, HeldStep, HeldOnceStep, UseStep DEF CamInv
<1> QED BY CamInitInv, <1>1, PTL DEF CamSpec

\* check_vendor_module lets nobody through to a missing module, but for the race
\* of two loads (CameraWrapper.cpp:92-107).
THEOREM VendorIsPresent == CamSpec => []VendorPresent
<1>1. CamInv => VendorPresent
  BY DEF CamInv
<1> QED BY CamInductive, <1>1, PTL

\* Every open vendor device has a holder, but for a failed malloc
\* (CameraWrapper.cpp:293-299).
THEOREM NothingElseLeaks == CamSpec => []OpenIsHeld
<1>1. CamInv => OpenIsHeld
  BY DEF CamInv
<1> QED BY CamInductive, <1>1, PTL

\* ... and no more than one (CameraWrapper.cpp:213-238).
THEOREM OneHolder == CamSpec => []HeldOnce
<1>1. CamInv => HeldOnce
  BY DEF CamInv
<1> QED BY CamInductive, <1>1, PTL

\* Every operation of a device finds its wrapper and the vendor's device open
\* (CameraWrapper.cpp:113-209).
THEOREM CallsReachDevice == CamSpec => []CallsReachOpenDevice
<1>1. CamInv => CallsReachOpenDevice
  BY DEF CamInv
<1> QED BY CamInductive, <1>1, PTL

\* Every step answers an open as it should: the device that is handed out is not in
\* the service's hands yet, and is open (CameraWrapper.cpp:257-334).
LEMMA AnswerStep ==
  ASSUME CamInv, [CamNext]_camVars, NEW u \in Threads
  PROVE  OpenAnswered(u)
<1> USE DEF CamInv, CamTypeOK, PlaceInv, Entries, ModuleEntries, DeviceEntries, Unlocked,
      localVars, deviceVars, errorVars, OpenAnswered, HandedOut
<1>1. ASSUME NEW t \in Threads, NEW e \in ModuleEntries, NEW i \in Ids, Enter(t, e, i) PROVE OpenAnswered(u)
  BY <1>1 DEF Enter, Goto
<1>2. ASSUME NEW t \in Threads, Lock(t) \/ CheckVendorModule(t) \/ Load(t) PROVE OpenAnswered(u)
  BY <1>2 DEF Lock, CheckVendorModule, Load, Goto, Ready
<1>3. ASSUME NEW t \in Threads, LoadFails(t) PROVE OpenAnswered(u)
  BY <1>3 DEF LoadFails, Return, Goto
<1>4. ASSUME NEW t \in Threads, VendorCall(t) PROVE OpenAnswered(u)
  BY <1>4 DEF VendorCall, Return, Goto
<1>5. ASSUME NEW t \in Threads, OpenLegacy(t) PROVE OpenAnswered(u)
  <2>1. CASE answer' = "error" /\ UNCHANGED <<vendor, handle>>
    BY <1>5, <2>1 DEF OpenLegacy, Return, Goto
  <2>2. ASSUME NEW d \in Devices \ vendor, answer' = "success", vendor' = vendor \cup {d},
               handle' = [handle EXCEPT ![d] = "vendor's"]
        PROVE  OpenAnswered(u)
    <3>1. handle[d] = "none" /\ handle'[d] # "none" /\ d \in vendor'
      BY <2>2 DEF OpenIsHeld, Held
    <3> QED BY <2>2, <3>1
  <2> QED BY <1>5, <2>1, <2>2 DEF OpenLegacy
<1>6. ASSUME NEW t \in Threads, OpenRefused(t) \/ AllocDevice(t) \/ VendorOpenFails(t) PROVE OpenAnswered(u)
  BY <1>6 DEF OpenRefused, AllocDevice, VendorOpenFails, Return, Goto
<1>7. ASSUME NEW t \in Threads, VendorOpen(t) PROVE OpenAnswered(u)
  BY <1>7 DEF VendorOpen, Goto
<1>8. ASSUME NEW t \in Threads, OpenSucceeds(t) PROVE OpenAnswered(u)
  <2>1. /\ pc[t] = "alloc_ops" /\ answer' = "success" /\ vendor' = vendor
        /\ handle' = [handle EXCEPT ![dev[t]] = "wrapper"]
    BY <1>8 DEF OpenSucceeds, Return, Goto
  <2>2. dev[t] \in Devices /\ handle[dev[t]] = "none" /\ dev[t] \in vendor
    BY <2>1 DEF Holding, HeldOnce, OpenIsHeld, Held
  <2> QED BY <2>1, <2>2
<1>9. ASSUME NEW t \in Threads, AllocOpsFails(t) PROVE OpenAnswered(u)
  BY <1>9 DEF AllocOpsFails, Return, Goto
<1>10. ASSUME NEW t \in Threads, Close(t) \/ VendorDeviceCall(t) \/ DefaultSettings(t) PROVE OpenAnswered(u)
  BY <1>10 DEF Close, VendorDeviceCall, DefaultSettings, Return, Goto
<1>11. ASSUME NEW t \in Threads, NEW d \in Devices, CallClose(t, d) \/ CloseLegacy(t, d) PROVE OpenAnswered(u)
  BY <1>11 DEF CallClose, CloseLegacy, Goto
<1>12. ASSUME NEW t \in Threads, NEW e \in DeviceEntries, NEW d \in Devices, UseDevice(t, e, d) PROVE OpenAnswered(u)
  BY <1>12 DEF UseDevice, Goto
<1>13. ASSUME NEW d \in Devices, DeviceFails(d) PROVE OpenAnswered(u)
  BY <1>13 DEF DeviceFails
<1>14. CASE Crash
  BY <1>14 DEF Crash
<1>15. CASE UNCHANGED camVars
  BY <1>15 DEF camVars
<1> QED
  BY <1>1, <1>2, <1>3, <1>4, <1>5, <1>6, <1>7, <1>8, <1>9, <1>10, <1>11, <1>12, <1>13, <1>14, <1>15
  DEF CamNext, OpenStep

\* An open answers 0 exactly if it hands out an open device, but for open_legacy
\* without the vendor's module (CameraWrapper.cpp:257-334, CameraWrapper.cpp:372-380).
THEOREM AnswerIsTrue == CamSpec => SuccessHasDevice
<1>1. CamInv /\ [CamNext]_camVars => [\A t \in Threads : OpenAnswered(t)]_camVars
  BY AnswerStep
<1> QED BY CamInductive, <1>1, PTL DEF CamSpec, SuccessHasDevice

-----------------------------------------------------------------------------
(* Refinement of DeviceLease.                                              *)

\* Of the tests of LeaseOf at most one is true, so that they can be made in any order.
LeaseRead ==
  \A d \in Devices :
    LeaseOf[d] = IF d \in leaked THEN "lost"
                 ELSE IF handle[d] # "none" THEN handle[d]
                 ELSE IF InHand(d, {"alloc_ops"}) THEN "opening"
                 ELSE IF InHand(d, {"close_lock", "close"}) THEN "closing"
                 ELSE "free"

\* ... which is what keeping every device in one hand is good for.
LEMMA LeaseValue == CamInv => LeaseRead
<1> SUFFICES ASSUME CamInv PROVE LeaseRead
  OBVIOUS
<1>1. ASSUME NEW d \in Devices
      PROVE  /\ d \in leaked => handle[d] = "none"
             /\ d \in leaked \/ handle[d] # "none" =>
                  ~InHand(d, {"alloc_ops"}) /\ ~InHand(d, {"close_lock", "close"})
             /\ InHand(d, {"alloc_ops"}) => ~InHand(d, {"close_lock", "close"})
  BY DEF CamInv, HeldOnce, InHand, Holding
<1> QED BY <1>1 DEF LeaseRead, LeaseOf

\* The open devices of the vendor are those that are leased.
LEMMA OpenIsLeased == CamInv => vendor = {d \in Devices : LeaseOf[d] # "free"}
<1> SUFFICES ASSUME CamInv PROVE vendor = {d \in Devices : LeaseOf[d] # "free"}
  OBVIOUS
<1>1. ASSUME NEW d \in Devices
      PROVE  d \in vendor <=> LeaseOf[d] # "free"
  <2>1. handle[d] \in {"none", "wrapper", "vendor's"}
    BY DEF CamInv, CamTypeOK
  <2>2. d \in vendor <=> d \in leaked \/ handle[d] # "none" \/ InHand(d, {"alloc_ops"})
                          \/ InHand(d, {"close_lock", "close"})
    BY DEF CamInv, OpenIsHeld, Held, InHand, Holding
  <2> QED BY <2>1, <2>2, LeaseValue DEF LeaseRead
<1>2. vendor \subseteq Devices
  BY DEF CamInv, CamTypeOK
<1> QED BY <1>1, <1>2

\* A lease moves on when its own value does and no other one changes.
LEMMA Moved ==
  ASSUME NEW d \in Devices, NEW s, <<LeaseOf[d], s>> \in Lease!Moves,
         LeaseOf'[d] = s, \A e \in Devices \ {d} : LeaseOf'[e] = LeaseOf[e]
  PROVE  Lease!Move(d, s)
<1>1. LeaseOf = [e \in Devices |-> LeaseOf[e]]
  BY DEF LeaseOf
<1>2. LeaseOf' = [e \in Devices |-> LeaseOf'[e]]
  BY DEF LeaseOf
<1>3. LeaseOf' = [LeaseOf EXCEPT ![d] = s]
  BY <1>1, <1>2
<1> QED BY <1>3 DEF Lease!Move

\* A thread that neither takes a device in hand nor lets go of one moves no lease.
LEMMA LeaseStays ==
  ASSUME UNCHANGED <<handle, leaked>>,
         \A u \in Threads :
           pc[u] \in Holding \/ pc'[u] \in Holding =>
             /\ dev'[u] = dev[u]
             /\ pc[u] = "alloc_ops" <=> pc'[u] = "alloc_ops"
             /\ pc[u] \in {"close_lock", "close"} <=> pc'[u] \in {"close_lock", "close"}
  PROVE  LeaseOf' = LeaseOf
<1>1. ASSUME NEW d \in Devices
      PROVE  InHand(d, {"alloc_ops"})' <=> InHand(d, {"alloc_ops"})
  BY DEF InHand, Holding
<1>2. ASSUME NEW d \in Devices
      PROVE  InHand(d, {"close_lock", "close"})' <=> InHand(d, {"close_lock", "close"})
  BY DEF InHand, Holding
<1> QED BY <1>1, <1>2 DEF LeaseOf

\* Every step of the wrapper takes one device one step on its way, or none
\* (CameraWrapper.cpp:213-334), or ends them all.
LEMMA LeaseStep ==
  ASSUME CamInv, CamInv', [CamNext]_camVars
  PROVE  \/ \E d \in Devices, s \in Lease!Leases : Lease!Move(d, s)
         \/ LeaseOf' = [d \in Devices |-> "free"]
         \/ LeaseOf' = LeaseOf
<1> USE CameraAssumption DEF CamTypeOK, PCs, Entries, ModuleEntries, DeviceEntries, localVars, deviceVars,
      errorVars, PlaceInv, Holding, Unlocked, CamInv, Return, Goto
<1>1. LeaseRead /\ LeaseRead' /\ \A d \in Devices : d \in vendor <=> LeaseOf[d] # "free"
  <2>1. CamInv' => LeaseRead'
    BY LeaseValue, PTL
  <2> QED BY <2>1, LeaseValue, OpenIsLeased
<1>2. \A s \in {"opening", "wrapper", "closing", "vendor's", "lost", "free"} : s \in Lease!Leases
  BY DEF Lease!Leases
<1>3. \A t \in Threads : pc[t] \in Holding => dev[t] \in Devices
  OBVIOUS
<1>4. ASSUME NEW t \in Threads, NEW e \in ModuleEntries, NEW i \in Ids, Enter(t, e, i) PROVE LeaseOf' = LeaseOf
  BY <1>4, LeaseStays DEF Enter
<1>5. ASSUME NEW t \in Threads, Lock(t) PROVE LeaseOf' = LeaseOf
  BY <1>5, LeaseStays DEF Lock
<1>6. ASSUME NEW t \in Threads, CheckVendorModule(t) PROVE LeaseOf' = LeaseOf
  BY <1>6, LeaseStays DEF CheckVendorModule, Ready
<1>7. ASSUME NEW t \in Threads, Load(t) PROVE LeaseOf' = LeaseOf
  BY <1>7, LeaseStays DEF Load, Ready
<1>8. ASSUME NEW t \in Threads, LoadFails(t) PROVE LeaseOf' = LeaseOf
  BY <1>8, LeaseStays DEF LoadFails
<1>9. ASSUME NEW t \in Threads, VendorCall(t) PROVE LeaseOf' = LeaseOf
  BY <1>9, LeaseStays DEF VendorCall
<1>10. ASSUME NEW t \in Threads, OpenLegacy(t)
      PROVE  LeaseOf' = LeaseOf \/ \E d \in Devices : Lease!Move(d, "vendor's")
  <2>1. CASE UNCHANGED <<vendor, handle>>
    BY <1>10, <2>1, LeaseStays DEF OpenLegacy
  <2>2. ASSUME NEW d \in Devices \ vendor, handle' = [handle EXCEPT ![d] = "vendor's"]
        PROVE  Lease!Move(d, "vendor's")
    <3>1. LeaseOf[d] = "free"
      BY <1>1
    <3>2. \A e \in Devices, places \in {{"alloc_ops"}, {"close_lock", "close"}} : InHand(e, places)' <=> InHand(e, places)
      BY <1>10 DEF OpenLegacy, InHand
    <3>3. LeaseOf'[d] = "vendor's" /\ \A e \in Devices \ {d} : LeaseOf'[e] = LeaseOf[e]
      BY <1>1, <1>10, <2>2, <3>1, <3>2 DEF OpenLegacy, LeaseRead
    <3> QED BY <3>1, <3>3, Moved DEF Lease!Moves
  <2> QED BY <1>10, <2>1, <2>2 DEF OpenLegacy
<1>11. ASSUME NEW t \in Threads, OpenRefused(t) PROVE LeaseOf' = LeaseOf
  BY <1>11, LeaseStays DEF OpenRefused
<1>12. ASSUME NEW t \in Threads, AllocDevice(t) PROVE LeaseOf' = LeaseOf
  BY <1>12, LeaseStays DEF AllocDevice
<1>13. ASSUME NEW t \in Threads, VendorOpenFails(t) PROVE LeaseOf' = LeaseOf
  BY <1>13, LeaseStays DEF VendorOpenFails
<1>14. ASSUME NEW t \in Threads, VendorOpen(t)
       PROVE  \E d \in Devices : Lease!Move(d, "opening")
  <2>1. PICK d \in Devices \ vendor : dev' = [dev EXCEPT ![t] = d]
    BY <1>14 DEF VendorOpen
  <2>2. LeaseOf[d] = "free"
    BY <1>1
  <2>3. InHand(d, {"alloc_ops"})'
    BY <1>14, <2>1 DEF VendorOpen, InHand
  <2>4. \A e \in Devices \ {d} : InHand(e, {"alloc_ops"})' <=> InHand(e, {"alloc_ops"})
    BY <1>14, <2>1 DEF VendorOpen, InHand
  <2>5. \A e \in Devices : InHand(e, {"close_lock", "close"})' <=> InHand(e, {"close_lock", "close"})
    BY <1>14, <2>1 DEF VendorOpen, InHand
  <2>6. LeaseOf'[d] = "opening" /\ \A e \in Devices \ {d} : LeaseOf'[e] = LeaseOf[e]
    BY <1>1, <1>14, <2>2, <2>3, <2>4, <2>5 DEF VendorOpen, LeaseRead
  <2> QED BY <2>2, <2>6, Moved DEF Lease!Moves
<1>15. ASSUME NEW t \in Threads, OpenSucceeds(t)
       PROVE  Lease!Move(dev[t], "wrapper")
  <2>1. dev[t] \in Devices /\ handle[dev[t]] = "none" /\ dev[t] \notin leaked
    BY <1>15 DEF OpenSucceeds, HeldOnce
  <2>2. InHand(dev[t], {"alloc_ops"})
    BY <1>15, <2>1 DEF OpenSucceeds, InHand
  <2>3. \A e \in Devices \ {dev[t]} : InHand(e, {"alloc_ops"})' <=> InHand(e, {"alloc_ops"})
    BY <1>15 DEF OpenSucceeds, InHand
  <2>4. \A e \in Devices : InHand(e, {"close_lock", "close"})' <=> InHand(e, {"close_lock", "close"})
    BY <1>15 DEF OpenSucceeds, InHand
  <2>5. LeaseOf[dev[t]] = "opening"
    BY <1>1, <2>1, <2>2 DEF LeaseRead
  <2>6. LeaseOf'[dev[t]] = "wrapper"
    BY <1>1, <1>15, <2>1 DEF OpenSucceeds, LeaseRead
  <2>7. \A e \in Devices \ {dev[t]} : LeaseOf'[e] = LeaseOf[e]
    BY <1>1, <1>15, <2>1, <2>3, <2>4 DEF OpenSucceeds, LeaseRead
  <2> QED BY <2>1, <2>5, <2>6, <2>7, Moved DEF Lease!Moves
<1>16. ASSUME NEW t \in Threads, AllocOpsFails(t)
       PROVE  Lease!Move(dev[t], "lost")
  <2>1. dev[t] \in Devices /\ handle[dev[t]] = "none" /\ dev[t] \notin leaked
    BY <1>16 DEF AllocOpsFails, HeldOnce
  <2>2. InHand(dev[t], {"alloc_ops"})
    BY <1>16, <2>1 DEF AllocOpsFails, InHand
  <2>3. \A e \in Devices \ {dev[t]} : InHand(e, {"alloc_ops"})' <=> InHand(e, {"alloc_ops"})
    BY <1>16 DEF AllocOpsFails, InHand
  <2>4. \A e \in Devices : InHand(e, {"close_lock", "close"})' <=> InHand(e, {"close_lock", "close"})
    BY <1>16 DEF AllocOpsFails, InHand
  <2>5. LeaseOf[dev[t]] = "opening"
    BY <1>1, <2>1, <2>2 DEF LeaseRead
  <2>6. LeaseOf'[dev[t]] = "lost"
    BY <1>1, <1>16, <2>1 DEF AllocOpsFails, LeaseRead
  <2>7. \A e \in Devices \ {dev[t]} : LeaseOf'[e] = LeaseOf[e]
    BY <1>1, <1>16, <2>1, <2>3, <2>4 DEF AllocOpsFails, LeaseRead
  <2> QED BY <2>1, <2>5, <2>6, <2>7, Moved DEF Lease!Moves
<1>17. ASSUME NEW t \in Threads, Close(t)
       PROVE  Lease!Move(dev[t], "free")
  <2>1. dev[t] \in Devices /\ handle[dev[t]] = "none" /\ dev[t] \notin leaked
    BY <1>17 DEF Close, HeldOnce
  <2>2. InHand(dev[t], {"close_lock", "close"})
    BY <1>17, <2>1 DEF Close, InHand
  <2>3. \A e \in Devices : InHand(e, {"alloc_ops"})' <=> InHand(e, {"alloc_ops"})
    BY <1>17 DEF Close, InHand
  <2>4. \A e \in Devices \ {dev[t]} : InHand(e, {"close_lock", "close"})' <=> InHand(e, {"close_lock", "close"})
    BY <1>17 DEF Close, InHand
  <2>5. \A d \in {dev[t]} : ~InHand(d, {"alloc_ops"}) /\ ~InHand(d, {"close_lock", "close"})'
    BY <1>17, <2>1 DEF Close, InHand, HeldOnce
  <2>6. LeaseOf[dev[t]] = "closing"
    BY <1>1, <2>1, <2>2, <2>5 DEF LeaseRead
  <2>8. UNCHANGED <<handle, leaked>>
    BY <1>17 DEF Close
  <2>9. LeaseOf'[dev[t]] = "free"
    BY <1>1, <2>1, <2>3, <2>5, <2>8 DEF LeaseRead
  <2>7. \A e \in Devices \ {dev[t]} : LeaseOf'[e] = LeaseOf[e]
    BY <1>1, <1>17, <2>1, <2>3, <2>4 DEF Close, LeaseRead
  <2> QED BY <2>1, <2>6, <2>7, <2>9, Moved DEF Lease!Moves
<1>18. ASSUME NEW t \in Threads, NEW d \in Devices, CallClose(t, d)
       PROVE  Lease!Move(d, "closing")
  <2>1. d \notin leaked
    BY <1>18 DEF CallClose, HeldOnce
  <2>2. \A e \in Devices : InHand(e, {"alloc_ops"})' <=> InHand(e, {"alloc_ops"})
    BY <1>18 DEF CallClose, InHand
  <2>3. InHand(d, {"close_lock", "close"})'
    BY <1>18 DEF CallClose, InHand
  <2>4. \A e \in Devices \ {d} : InHand(e, {"close_lock", "close"})' <=> InHand(e, {"close_lock", "close"})
    BY <1>18 DEF CallClose, InHand
  <2>5. LeaseOf[d] = "wrapper" /\ ~InHand(d, {"alloc_ops"})
    BY <1>1, <1>18, <2>1 DEF CallClose, LeaseRead, InHand, HeldOnce
  <2>6. LeaseOf'[d] = "closing"
    BY <1>1, <1>18, <2>1, <2>2, <2>3, <2>5 DEF CallClose, LeaseRead
  <2>7. \A e \in Devices \ {d} : LeaseOf'[e] = LeaseOf[e]
    BY <1>1, <1>18, <2>2, <2>4 DEF CallClose, LeaseRead
  <2> QED BY <2>5, <2>6, <2>7, Moved DEF Lease!Moves
<1>19. ASSUME NEW t \in Threads, NEW d \in Devices, CloseLegacy(t, d)
       PROVE  Lease!Move(d, "free")
  <2>1. d \notin leaked /\ ~InHand(d, {"alloc_ops"}) /\ ~InHand(d, {"close_lock", "close"})
    BY <1>19 DEF CloseLegacy, HeldOnce, InHand
  <2>2. \A e \in Devices : InHand(e, {"alloc_ops"})' <=> InHand(e, {"alloc_ops"})
    BY <1>19 DEF CloseLegacy, InHand
  <2>5. \A e \in Devices : InHand(e, {"close_lock", "close"})' <=> InHand(e, {"close_lock", "close"})
    BY <1>19 DEF CloseLegacy, InHand
  <2>6. handle[d] = "vendor's" /\ handle' = [handle EXCEPT ![d] = "none"] /\ leaked' = leaked
    BY <1>19 DEF CloseLegacy
  <2>3. LeaseOf[d] = "vendor's"
    BY <1>1, <2>1, <2>6 DEF LeaseRead
  <2>7. LeaseOf'[d] = "free"
    BY <1>1, <2>1, <2>2, <2>5, <2>6 DEF LeaseRead
  <2>4. \A e \in Devices \ {d} : LeaseOf'[e] = LeaseOf[e]
    BY <1>1, <2>2, <2>5, <2>6 DEF LeaseRead
  <2> QED BY <2>3, <2>4, <2>7, Moved DEF Lease!Moves
<1>20. ASSUME NEW t \in Threads, VendorDeviceCall(t) PROVE LeaseOf' = LeaseOf
  BY <1>20, LeaseStays DEF VendorDeviceCall
<1>21. ASSUME NEW t \in Threads, DefaultSettings(t) PROVE LeaseOf' = LeaseOf
  BY <1>21, LeaseStays DEF DefaultSettings
<1>22. ASSUME NEW t \in Threads, NEW e \in DeviceEntries, NEW d \in Devices, UseDevice(t, e, d) PROVE LeaseOf' = LeaseOf
  BY <1>22, LeaseStays DEF UseDevice
<1>23. ASSUME NEW d \in Devices, DeviceFails(d) PROVE LeaseOf' = LeaseOf
  BY <1>23, LeaseStays DEF DeviceFails
<1>24. CASE Crash
  BY <1>24 DEF Crash, LeaseOf, InHand
<1>25. CASE UNCHANGED camVars
  BY <1>25, LeaseStays DEF camVars
<1> QED
  BY <1>2, <1>3, <1>4, <1>5, <1>6, <1>7, <1>8, <1>9, <1>10, <1>11, <1>12, <1>13,
     <1>14, <1>15, <1>16, <1>17, <1>18, <1>19, <1>20, <1>21, <1>22, <1>23, <1>24, <1>25 DEF CamNext, OpenStep, OpenSucceeds, AllocOpsFails, Close

\* The wrapper implements the lease of each vendor device (module DeviceLease).
THEOREM LeaseImplemented == CamSpec => ImplementsLease
<1>1. CamInit => Lease!LeaseInit
  BY DEF CamInit, Lease!LeaseInit, Lease!AllFree, Lease!OpenOnes, LeaseOf, InHand
<1>2. CamInv /\ CamInv' /\ [CamNext]_camVars => [Lease!LeaseNext]_<<LeaseOf, vendor>>
  <2> SUFFICES ASSUME CamInv, CamInv', [CamNext]_camVars
               PROVE  Lease!LeaseNext \/ UNCHANGED <<LeaseOf, vendor>>
    OBVIOUS
  <2>1. vendor = Lease!OpenOnes /\ vendor' = Lease!OpenOnes'
    <3>1. CamInv' => (vendor = {d \in Devices : LeaseOf[d] # "free"})'
      BY OpenIsLeased, PTL
    <3> QED BY <3>1, OpenIsLeased DEF Lease!OpenOnes
  <2>2. LeaseOf' = LeaseOf => vendor' = vendor
    BY <2>1 DEF Lease!OpenOnes
  <2> QED BY <2>1, <2>2, LeaseStep DEF Lease!LeaseNext, Lease!Die, Lease!AllFree
<1> QED BY CamInductive, <1>1, <1>2, PTL DEF CamSpec, ImplementsLease, Lease!LeaseSpec

=============================================================================
