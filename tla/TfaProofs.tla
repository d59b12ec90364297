----------------------------- MODULE TfaProofs ------------------------------
(***************************************************************************)
(* Proofs about Tfa for every set of callers and writers and every vendor  *)
(* library: the parts of IInv are kept by every step, one lemma per part   *)
(* and one step of it per action, and the safety properties of TfaProps    *)
(* and the refinement of TfaPower follow from IInv.                        *)
(***************************************************************************)
EXTENDS TfaProps, TLAPS

\* Every action keeps the types: tfa.c's flags stay flags and a caller's result
\* is one that tfa_enable returned.
LEMMA TypeStep == TypeOK /\ [Next]_vars => TypeOK'
<1> SUFFICES ASSUME TypeOK, [Next]_vars PROVE TypeOK'
  OBVIOUS
<1> USE TfaAssumption DEF TypeOK, Phases, CallerPCs, WriterPCs, deviceVars, flagVars, writerVars
<1>1. ASSUME NEW c \in Callers, Progress(c) PROVE TypeOK'
  <2>1. CASE Lock(c)  BY <2>1 DEF Lock, Goto
  <2>2. CASE ClockOn(c)
    <3>1. initializing' \in BOOLEAN
      BY <2>2, Zenon DEF ClockOn
    <3>2. /\ wpc' \in [Writers -> WriterPCs] /\ signaled' \in [Writers -> BOOLEAN]
          /\ write_thread' \in Writers \cup {NoThread}
      BY <2>2 DEF ClockOn, WriterGoto
    <3>3. pc' \in [Callers -> CallerPCs]
      BY <2>2 DEF ClockOn, Goto
    <3> QED BY <2>2, <3>1, <3>2, <3>3 DEF ClockOn
  <2>3. CASE Mutex(c)  BY <2>3 DEF Mutex, Goto
  <2>4. CASE Wait(c)  BY <2>4 DEF Wait, Goto
  <2>5. CASE ClocksEnabled(c)  BY <2>5 DEF ClocksEnabled, Goto
  <2>6. CASE Enable(c)  BY <2>6 DEF Enable, Goto
  <2>7. CASE ClockOff(c)  BY <2>7 DEF ClockOff, Goto
  <2>8. CASE ClockAlreadyOff(c)  BY <2>8 DEF ClockAlreadyOff, Goto
  <2>9. CASE Join(c)  BY <2>9 DEF Join, Goto, WriterGoto
  <2>10. CASE JoinNoThread(c)  BY <2>10 DEF JoinNoThread, Goto
  <2>11. CASE Unlock(c)  BY <2>11 DEF Unlock, Goto
  <2> QED BY <1>1, <2>1, <2>2, <2>3, <2>4, <2>5, <2>6, <2>7, <2>8, <2>9, <2>10, <2>11 DEF Progress
<1>2. ASSUME NEW c \in Callers, SpuriousWakeup(c) PROVE TypeOK'
  BY <1>2 DEF SpuriousWakeup, Goto
<1>3. ASSUME NEW c \in Callers, Lifecycle(c) PROVE TypeOK'
  <2>1. CASE Power(c)  BY <2>1 DEF Power, Enter, Goto
  <2>2. CASE Open(c)  BY <2>2 DEF Open, Enter, Goto
  <2>3. CASE OpenFails(c)  BY <2>3 DEF OpenFails, Goto
  <2>4. CASE InitClockThenPowerUp(c)  BY <2>4 DEF InitClockThenPowerUp, Enter, Goto
  <2>5. CASE PowerDownAgain(c)  BY <2>5 DEF PowerDownAgain, Enter, Goto
  <2>6. CASE OpenSucceeds(c)  BY <2>6 DEF OpenSucceeds, Goto
  <2>7. CASE Close(c)  BY <2>7 DEF Close, Enter, Goto
  <2>8. CASE Free(c)  BY <2>8 DEF Free, Goto
  <2> QED BY <1>3, <2>1, <2>2, <2>3, <2>4, <2>5, <2>6, <2>7, <2>8 DEF Lifecycle
<1>4. ASSUME NEW w \in Writers, WriterStep(w) PROVE TypeOK'
  <2>1. CASE PcmOpen(w)  BY <2>1 DEF PcmOpen, callerVars, WriterGoto
  <2>2. CASE PcmOpenFails(w)  BY <2>2 DEF PcmOpenFails, callerVars, WriterGoto
  <2>3. CASE Calloc(w)  BY <2>3 DEF Calloc, callerVars, WriterGoto
  <2>4. CASE CallocFails(w)  BY <2>4 DEF CallocFails, callerVars, WriterGoto
  <2>5. CASE PcmWrite(w)
    <3>1. fault' \in BOOLEAN
      BY <2>5, Zenon DEF PcmWrite
    <3>2. pcm' \in [Writers -> {"closed", "open", "running"}]
      BY <2>5 DEF PcmWrite
    <3>3. wpc' \in [Writers -> WriterPCs]
      BY <2>5 DEF PcmWrite, WriterGoto
    <3> QED BY <2>5, <3>1, <3>2, <3>3 DEF PcmWrite, callerVars
  <2>6. CASE WriterLock(w)  BY <2>6 DEF WriterLock, callerVars, WriterGoto
  <2>7. CASE Signal(w)  BY <2>7 DEF Signal, callerVars, WriterGoto
  <2>8. CASE Test(w)  BY <2>8 DEF Test, callerVars, WriterGoto
  <2>9. CASE Reset(w)  BY <2>9 DEF Reset, callerVars, WriterGoto
  <2>10. CASE PcmClose(w)  BY <2>10 DEF PcmClose, callerVars, WriterGoto
  <2>11. CASE Exit(w)  BY <2>11 DEF Exit, callerVars, WriterGoto
  <2> QED BY <1>4, <2>1, <2>2, <2>3, <2>4, <2>5, <2>6, <2>7, <2>8, <2>9, <2>10, <2>11 DEF WriterStep
<1>5. CASE Crash  BY <1>5 DEF Crash
<1>6. CASE UNCHANGED vars  BY <1>6 DEF vars
<1> QED BY <1>1, <1>2, <1>3, <1>4, <1>5, <1>6 DEF Next

\* tfa_lock and the handshake mutex stay with whoever took them (tfa.c:185-205,
\* tfa.c:73-76, tfa.c:107-111) until that thread gives them back.
LEMMA LockStep == TypeOK /\ LockInv /\ [Next]_vars => LockInv'
<1> SUFFICES ASSUME TypeOK, LockInv, [Next]_vars PROVE LockInv'
  OBVIOUS
<1> USE TfaAssumption DEF TypeOK, Phases, CallerPCs, WriterPCs, LockInv, Inside, deviceVars, flagVars, writerVars
<1>1. ASSUME NEW c \in Callers, Progress(c) PROVE LockInv'
  <2>1. CASE Lock(c)  BY <2>1 DEF Lock, Goto
  <2>2. CASE ClockOn(c)  BY <2>2 DEF ClockOn, Goto, WriterGoto
  <2>3. CASE Mutex(c)  BY <2>3 DEF Mutex, Goto
  <2>4. CASE Wait(c)  BY <2>4 DEF Wait, Goto
  <2>5. CASE ClocksEnabled(c)  BY <2>5 DEF ClocksEnabled, Goto
  <2>6. CASE Enable(c)  BY <2>6 DEF Enable, Goto
  <2>7. CASE ClockOff(c)  BY <2>7 DEF ClockOff, Goto
  <2>8. CASE ClockAlreadyOff(c)  BY <2>8 DEF ClockAlreadyOff, Goto
  <2>9. CASE Join(c)  BY <2>9 DEF Join, Goto, WriterGoto
  <2>10. CASE JoinNoThread(c)  BY <2>10 DEF JoinNoThread, Goto
  <2>11. CASE Unlock(c)  BY <2>11 DEF Unlock, Goto
  <2> QED BY <1>1, <2>1, <2>2, <2>3, <2>4, <2>5, <2>6, <2>7, <2>8, <2>9, <2>10, <2>11 DEF Progress
<1>2. ASSUME NEW c \in Callers, SpuriousWakeup(c) PROVE LockInv'
  BY <1>2 DEF SpuriousWakeup, Goto
<1>3. ASSUME NEW c \in Callers, Lifecycle(c) PROVE LockInv'
  <2>1. CASE Power(c)  BY <2>1 DEF Power, Enter, Goto
  <2>2. CASE Open(c)  BY <2>2 DEF Open, Enter, Goto
  <2>3. CASE OpenFails(c)  BY <2>3 DEF OpenFails, Goto
  <2>4. CASE InitClockThenPowerUp(c)  BY <2>4 DEF InitClockThenPowerUp, Enter, Goto
  <2>5. CASE PowerDownAgain(c)  BY <2>5 DEF PowerDownAgain, Enter, Goto
  <2>6. CASE OpenSucceeds(c)  BY <2>6 DEF OpenSucceeds, Goto
  <2>7. CASE Close(c)  BY <2>7 DEF Close, Enter, Goto
  <2>8. CASE Free(c)  BY <2>8 DEF Free, Goto
  <2> QED BY <1>3, <2>1, <2>2, <2>3, <2>4, <2>5, <2>6, <2>7, <2>8 DEF Lifecycle
<1>4. ASSUME NEW w \in Writers, WriterStep(w) PROVE LockInv'
  <2>1. CASE PcmOpen(w)  BY <2>1 DEF PcmOpen, callerVars, WriterGoto
  <2>2. CASE PcmOpenFails(w)  BY <2>2 DEF PcmOpenFails, callerVars, WriterGoto
  <2>3. CASE Calloc(w)  BY <2>3 DEF Calloc, callerVars, WriterGoto
  <2>4. CASE CallocFails(w)  BY <2>4 DEF CallocFails, callerVars, WriterGoto
  <2>5. CASE PcmWrite(w)  BY <2>5 DEF PcmWrite, callerVars, WriterGoto
  <2>6. CASE WriterLock(w)  BY <2>6 DEF WriterLock, callerVars, WriterGoto
  <2>7. CASE Signal(w)  BY <2>7 DEF Signal, callerVars, WriterGoto
  <2>8. CASE Test(w)  BY <2>8 DEF Test, callerVars, WriterGoto
  <2>9. CASE Reset(w)  BY <2>9 DEF Reset, callerVars, WriterGoto
  <2>10. CASE PcmClose(w)  BY <2>10 DEF PcmClose, callerVars, WriterGoto
  <2>11. CASE Exit(w)  BY <2>11 DEF Exit, callerVars, WriterGoto
  <2> QED BY <1>4, <2>1, <2>2, <2>3, <2>4, <2>5, <2>6, <2>7, <2>8, <2>9, <2>10, <2>11 DEF WriterStep
<1>5. CASE Crash  BY <1>5 DEF Crash
<1>6. CASE UNCHANGED vars  BY <1>6 DEF vars
<1> QED BY <1>1, <1>2, <1>3, <1>4, <1>5, <1>6 DEF Next

\* Only the thread inside tfa_device_open or tfa_device_close uses a device that
\* is not open (tfa.c:215-295).
LEMMA PhaseStep == TypeOK /\ PhaseInv /\ [Next]_vars => PhaseInv'
<1> SUFFICES ASSUME TypeOK, PhaseInv, [Next]_vars PROVE PhaseInv'
  OBVIOUS
<1> USE TfaAssumption DEF TypeOK, Phases, CallerPCs, WriterPCs, PhaseInv, deviceVars, flagVars, writerVars
<1>1. ASSUME NEW c \in Callers, Progress(c) PROVE PhaseInv'
  <2>1. CASE Lock(c)  BY <2>1 DEF Lock, Goto
  <2>2. CASE ClockOn(c)  BY <2>2 DEF ClockOn, Goto, WriterGoto
  <2>3. CASE Mutex(c)  BY <2>3 DEF Mutex, Goto
  <2>4. CASE Wait(c)  BY <2>4 DEF Wait, Goto
  <2>5. CASE ClocksEnabled(c)  BY <2>5 DEF ClocksEnabled, Goto
  <2>6. CASE Enable(c)  BY <2>6 DEF Enable, Goto
  <2>7. CASE ClockOff(c)  BY <2>7 DEF ClockOff, Goto
  <2>8. CASE ClockAlreadyOff(c)  BY <2>8 DEF ClockAlreadyOff, Goto
  <2>9. CASE Join(c)  BY <2>9 DEF Join, Goto, WriterGoto
  <2>10. CASE JoinNoThread(c)  BY <2>10 DEF JoinNoThread, Goto
  <2>11. CASE Unlock(c)  BY <2>11 DEF Unlock, Goto
  <2> QED BY <1>1, <2>1, <2>2, <2>3, <2>4, <2>5, <2>6, <2>7, <2>8, <2>9, <2>10, <2>11 DEF Progress
<1>2. ASSUME NEW c \in Callers, SpuriousWakeup(c) PROVE PhaseInv'
  BY <1>2 DEF SpuriousWakeup, Goto
<1>3. ASSUME NEW c \in Callers, Lifecycle(c) PROVE PhaseInv'
  <2>1. CASE Power(c)  BY <2>1 DEF Power, Enter, Goto
  <2>2. CASE Open(c)  BY <2>2 DEF Open, Enter, Goto
  <2>3. CASE OpenFails(c)  BY <2>3 DEF OpenFails, Goto
  <2>4. CASE InitClockThenPowerUp(c)  BY <2>4 DEF InitClockThenPowerUp, Enter, Goto
  <2>5. CASE PowerDownAgain(c)  BY <2>5 DEF PowerDownAgain, Enter, Goto
  <2>6. CASE OpenSucceeds(c)  BY <2>6 DEF OpenSucceeds, Goto
  <2>7. CASE Close(c)  BY <2>7 DEF Close, Enter, Goto
  <2>8. CASE Free(c)  BY <2>8 DEF Free, Goto
  <2> QED BY <1>3, <2>1, <2>2, <2>3, <2>4, <2>5, <2>6, <2>7, <2>8 DEF Lifecycle
<1>4. ASSUME NEW w \in Writers, WriterStep(w) PROVE PhaseInv'
  <2>1. CASE PcmOpen(w)  BY <2>1 DEF PcmOpen, callerVars, WriterGoto
  <2>2. CASE PcmOpenFails(w)  BY <2>2 DEF PcmOpenFails, callerVars, WriterGoto
  <2>3. CASE Calloc(w)  BY <2>3 DEF Calloc, callerVars, WriterGoto
  <2>4. CASE CallocFails(w)  BY <2>4 DEF CallocFails, callerVars, WriterGoto
  <2>5. CASE PcmWrite(w)  BY <2>5 DEF PcmWrite, callerVars, WriterGoto
  <2>6. CASE WriterLock(w)  BY <2>6 DEF WriterLock, callerVars, WriterGoto
  <2>7. CASE Signal(w)  BY <2>7 DEF Signal, callerVars, WriterGoto
  <2>8. CASE Test(w)  BY <2>8 DEF Test, callerVars, WriterGoto
  <2>9. CASE Reset(w)  BY <2>9 DEF Reset, callerVars, WriterGoto
  <2>10. CASE PcmClose(w)  BY <2>10 DEF PcmClose, callerVars, WriterGoto
  <2>11. CASE Exit(w)  BY <2>11 DEF Exit, callerVars, WriterGoto
  <2> QED BY <1>4, <2>1, <2>2, <2>3, <2>4, <2>5, <2>6, <2>7, <2>8, <2>9, <2>10, <2>11 DEF WriterStep
<1>5. CASE Crash  BY <1>5 DEF Crash
<1>6. CASE UNCHANGED vars  BY <1>6 DEF vars
<1> QED BY <1>1, <1>2, <1>3, <1>4, <1>5, <1>6 DEF Next

\* The flags of the clock and the program counter of the thread inside tfa_power
\* keep agreeing (tfa.c:98-133, tfa.c:181-208).
LEMMA ClockStep == TypeOK /\ LockInv /\ PhaseInv /\ ClockInv /\ WriterInv /\ [Next]_vars => ClockInv'
<1> SUFFICES ASSUME TypeOK, LockInv, PhaseInv, ClockInv, WriterInv, [Next]_vars PROVE ClockInv'
  OBVIOUS
<1> USE TfaAssumption DEF TypeOK, Phases, CallerPCs, WriterPCs, LockInv, Inside, PhaseInv, ClockInv, WriterInv, Streaming, deviceVars, flagVars, writerVars
<1>1. ASSUME NEW c \in Callers, Progress(c) PROVE ClockInv'
  <2>1. CASE Lock(c)  BY <2>1 DEF Lock, Goto
  <2>2. CASE ClockOn(c)  BY <2>2 DEF ClockOn, Goto, WriterGoto
  <2>3. CASE Mutex(c)  BY <2>3 DEF Mutex, Goto
  <2>4. CASE Wait(c)  BY <2>4 DEF Wait, Goto
  <2>5. CASE ClocksEnabled(c)  BY <2>5 DEF ClocksEnabled, Goto
  <2>6. CASE Enable(c)  BY <2>6 DEF Enable, Goto
  <2>7. CASE ClockOff(c)  BY <2>7 DEF ClockOff, Goto
  <2>8. CASE ClockAlreadyOff(c)  BY <2>8 DEF ClockAlreadyOff, Goto
  <2>9. CASE Join(c)  BY <2>9 DEF Join, Goto, WriterGoto
  <2>10. CASE JoinNoThread(c)  BY <2>10 DEF JoinNoThread, Goto
  <2>11. CASE Unlock(c)  BY <2>11 DEF Unlock, Goto
  <2> QED BY <1>1, <2>1, <2>2, <2>3, <2>4, <2>5, <2>6, <2>7, <2>8, <2>9, <2>10, <2>11 DEF Progress
<1>2. ASSUME NEW c \in Callers, SpuriousWakeup(c) PROVE ClockInv'
  BY <1>2 DEF SpuriousWakeup, Goto
<1>3. ASSUME NEW c \in Callers, Lifecycle(c) PROVE ClockInv'
  <2>1. CASE Power(c)  BY <2>1 DEF Power, Enter, Goto
  <2>2. CASE Open(c)  BY <2>2 DEF Open, Enter, Goto
  <2>3. CASE OpenFails(c)  BY <2>3 DEF OpenFails, Goto
  <2>4. CASE InitClockThenPowerUp(c)  BY <2>4 DEF InitClockThenPowerUp, Enter, Goto
  <2>5. CASE PowerDownAgain(c)  BY <2>5 DEF PowerDownAgain, Enter, Goto
  <2>6. CASE OpenSucceeds(c)  BY <2>6 DEF OpenSucceeds, Goto
  <2>7. CASE Close(c)  BY <2>7 DEF Close, Enter, Goto
  <2>8. CASE Free(c)  BY <2>8 DEF Free, Goto
  <2> QED BY <1>3, <2>1, <2>2, <2>3, <2>4, <2>5, <2>6, <2>7, <2>8 DEF Lifecycle
<1>4. ASSUME NEW w \in Writers, WriterStep(w) PROVE ClockInv'
  <2>1. CASE PcmOpen(w)  BY <2>1 DEF PcmOpen, callerVars, WriterGoto
  <2>2. CASE PcmOpenFails(w)  BY <2>2 DEF PcmOpenFails, callerVars, WriterGoto
  <2>3. CASE Calloc(w)  BY <2>3 DEF Calloc, callerVars, WriterGoto
  <2>4. CASE CallocFails(w)  BY <2>4 DEF CallocFails, callerVars, WriterGoto
  <2>5. CASE PcmWrite(w)  BY <2>5 DEF PcmWrite, callerVars, WriterGoto
  <2>6. CASE WriterLock(w)  BY <2>6 DEF WriterLock, callerVars, WriterGoto
  <2>7. CASE Signal(w)  BY <2>7 DEF Signal, callerVars, WriterGoto
  <2>8. CASE Test(w)  BY <2>8 DEF Test, callerVars, WriterGoto
  <2>9. CASE Reset(w)  BY <2>9 DEF Reset, callerVars, WriterGoto
  <2>10. CASE PcmClose(w)  BY <2>10 DEF PcmClose, callerVars, WriterGoto
  <2>11. CASE Exit(w)  BY <2>11 DEF Exit, callerVars, WriterGoto
  <2> QED BY <1>4, <2>1, <2>2, <2>3, <2>4, <2>5, <2>6, <2>7, <2>8, <2>9, <2>10, <2>11 DEF WriterStep
<1>5. CASE Crash  BY <1>5 DEF Crash
<1>6. CASE UNCHANGED vars  BY <1>6 DEF vars
<1> QED BY <1>1, <1>2, <1>3, <1>4, <1>5, <1>6 DEF Next

\* There is a writer exactly while write_thread names it, and it gets past its
\* loop only when the caller that clears `initializing' is about to join it.
LEMMA WriterInvStep == TypeOK /\ LockInv /\ PhaseInv /\ ClockInv /\ WriterInv /\ [Next]_vars => WriterInv'
<1> SUFFICES ASSUME TypeOK, LockInv, PhaseInv, ClockInv, WriterInv, [Next]_vars PROVE WriterInv'
  OBVIOUS
<1> USE TfaAssumption DEF TypeOK, Phases, CallerPCs, WriterPCs, LockInv, Inside, PhaseInv, ClockInv, WriterInv, Streaming, deviceVars, flagVars, writerVars
<1>1. ASSUME NEW c \in Callers, Progress(c) PROVE WriterInv'
  <2>1. CASE Lock(c)  BY <2>1 DEF Lock, Goto
  <2>2. CASE ClockOn(c)  BY <2>2 DEF ClockOn, Goto, WriterGoto
  <2>3. CASE Mutex(c)  BY <2>3 DEF Mutex, Goto
  <2>4. CASE Wait(c)  BY <2>4 DEF Wait, Goto
  <2>5. CASE ClocksEnabled(c)  BY <2>5 DEF ClocksEnabled, Goto
  <2>6. CASE Enable(c)  BY <2>6 DEF Enable, Goto
  <2>7. CASE ClockOff(c)  BY <2>7 DEF ClockOff, Goto
  <2>8. CASE ClockAlreadyOff(c)  BY <2>8 DEF ClockAlreadyOff, Goto
  <2>9. CASE Join(c)  BY <2>9 DEF Join, Goto, WriterGoto
  <2>10. CASE JoinNoThread(c)  BY <2>10 DEF JoinNoThread, Goto
  <2>11. CASE Unlock(c)  BY <2>11 DEF Unlock, Goto
  <2> QED BY <1>1, <2>1, <2>2, <2>3, <2>4, <2>5, <2>6, <2>7, <2>8, <2>9, <2>10, <2>11 DEF Progress
<1>2. ASSUME NEW c \in Callers, SpuriousWakeup(c) PROVE WriterInv'
  BY <1>2 DEF SpuriousWakeup, Goto
<1>3. ASSUME NEW c \in Callers, Lifecycle(c) PROVE WriterInv'
  <2>1. CASE Power(c)  BY <2>1 DEF Power, Enter, Goto
  <2>2. CASE Open(c)  BY <2>2 DEF Open, Enter, Goto
  <2>3. CASE OpenFails(c)  BY <2>3 DEF OpenFails, Goto
  <2>4. CASE InitClockThenPowerUp(c)  BY <2>4 DEF InitClockThenPowerUp, Enter, Goto
  <2>5. CASE PowerDownAgain(c)  BY <2>5 DEF PowerDownAgain, Enter, Goto
  <2>6. CASE OpenSucceeds(c)  BY <2>6 DEF OpenSucceeds, Goto
  <2>7. CASE Close(c)  BY <2>7 DEF Close, Enter, Goto
  <2>8. CASE Free(c)  BY <2>8 DEF Free, Goto
  <2> QED BY <1>3, <2>1, <2>2, <2>3, <2>4, <2>5, <2>6, <2>7, <2>8 DEF Lifecycle
<1>4. ASSUME NEW w \in Writers, WriterStep(w) PROVE WriterInv'
  <2>1. CASE PcmOpen(w)  BY <2>1 DEF PcmOpen, callerVars, WriterGoto
  <2>2. CASE PcmOpenFails(w)  BY <2>2 DEF PcmOpenFails, callerVars, WriterGoto
  <2>3. CASE Calloc(w)  BY <2>3 DEF Calloc, callerVars, WriterGoto
  <2>4. CASE CallocFails(w)  BY <2>4 DEF CallocFails, callerVars, WriterGoto
  <2>5. CASE PcmWrite(w)  BY <2>5 DEF PcmWrite, callerVars, WriterGoto
  <2>6. CASE WriterLock(w)  BY <2>6 DEF WriterLock, callerVars, WriterGoto
  <2>7. CASE Signal(w)  BY <2>7 DEF Signal, callerVars, WriterGoto
  <2>8. CASE Test(w)  BY <2>8 DEF Test, callerVars, WriterGoto
  <2>9. CASE Reset(w)  BY <2>9 DEF Reset, callerVars, WriterGoto
  <2>10. CASE PcmClose(w)  BY <2>10 DEF PcmClose, callerVars, WriterGoto
  <2>11. CASE Exit(w)  BY <2>11 DEF Exit, callerVars, WriterGoto
  <2> QED BY <1>4, <2>1, <2>2, <2>3, <2>4, <2>5, <2>6, <2>7, <2>8, <2>9, <2>10, <2>11 DEF WriterStep
<1>5. CASE Crash  BY <1>5 DEF Crash
<1>6. CASE UNCHANGED vars  BY <1>6 DEF vars
<1> QED BY <1>1, <1>2, <1>3, <1>4, <1>5, <1>6 DEF Next

\* `writing' says that the writer has its stream running, unless a writer has
\* failed (tfa.c:68-93).
LEMMA HandshakeStep == TypeOK /\ LockInv /\ PhaseInv /\ ClockInv /\ WriterInv /\ HandshakeInv /\ [Next]_vars => HandshakeInv'
<1> SUFFICES ASSUME TypeOK, LockInv, PhaseInv, ClockInv, WriterInv, HandshakeInv, [Next]_vars PROVE HandshakeInv'
  OBVIOUS
<1> USE TfaAssumption DEF TypeOK, Phases, CallerPCs, WriterPCs, LockInv, Inside, PhaseInv, ClockInv, WriterInv, Streaming, HandshakeInv, deviceVars, flagVars, writerVars
<1>1. ASSUME NEW c \in Callers, Progress(c) PROVE HandshakeInv'
  <2>1. CASE Lock(c)  BY <2>1 DEF Lock, Goto
  <2>2. CASE ClockOn(c)  BY <2>2 DEF ClockOn, Goto, WriterGoto
  <2>3. CASE Mutex(c)  BY <2>3 DEF Mutex, Goto
  <2>4. CASE Wait(c)  BY <2>4 DEF Wait, Goto
  <2>5. CASE ClocksEnabled(c)  BY <2>5 DEF ClocksEnabled, Goto
  <2>6. CASE Enable(c)  BY <2>6 DEF Enable, Goto
  <2>7. CASE ClockOff(c)  BY <2>7 DEF ClockOff, Goto
  <2>8. CASE ClockAlreadyOff(c)  BY <2>8 DEF ClockAlreadyOff, Goto
  <2>9. CASE Join(c)  BY <2>9 DEF Join, Goto, WriterGoto
  <2>10. CASE JoinNoThread(c)  BY <2>10 DEF JoinNoThread, Goto
  <2>11. CASE Unlock(c)  BY <2>11 DEF Unlock, Goto
  <2> QED BY <1>1, <2>1, <2>2, <2>3, <2>4, <2>5, <2>6, <2>7, <2>8, <2>9, <2>10, <2>11 DEF Progress
<1>2. ASSUME NEW c \in Callers, SpuriousWakeup(c) PROVE HandshakeInv'
  BY <1>2 DEF SpuriousWakeup, Goto
<1>3. ASSUME NEW c \in Callers, Lifecycle(c) PROVE HandshakeInv'
  <2>1. CASE Power(c)  BY <2>1 DEF Power, Enter, Goto
  <2>2. CASE Open(c)  BY <2>2 DEF Open, Enter, Goto
  <2>3. CASE OpenFails(c)  BY <2>3 DEF OpenFails, Goto
  <2>4. CASE InitClockThenPowerUp(c)  BY <2>4 DEF InitClockThenPowerUp, Enter, Goto
  <2>5. CASE PowerDownAgain(c)  BY <2>5 DEF PowerDownAgain, Enter, Goto
  <2>6. CASE OpenSucceeds(c)  BY <2>6 DEF OpenSucceeds, Goto
  <2>7. CASE Close(c)  BY <2>7 DEF Close, Enter, Goto
  <2>8. CASE Free(c)  BY <2>8 DEF Free, Goto
  <2> QED BY <1>3, <2>1, <2>2, <2>3, <2>4, <2>5, <2>6, <2>7, <2>8 DEF Lifecycle
<1>4. ASSUME NEW w \in Writers, WriterStep(w) PROVE HandshakeInv'
  <2>1. CASE PcmOpen(w)  BY <2>1 DEF PcmOpen, callerVars, WriterGoto
  <2>2. CASE PcmOpenFails(w)  BY <2>2 DEF PcmOpenFails, callerVars, WriterGoto
  <2>3. CASE Calloc(w)  BY <2>3 DEF Calloc, callerVars, WriterGoto
  <2>4. CASE CallocFails(w)  BY <2>4 DEF CallocFails, callerVars, WriterGoto
  <2>5. CASE PcmWrite(w)
    <3>1. CASE pcm' = [pcm EXCEPT ![w] = "running"] /\ UNCHANGED fault
      BY <2>5, <3>1 DEF PcmWrite, callerVars, WriterGoto
    <3>2. CASE fault' /\ UNCHANGED pcm
      BY <2>5, <3>2 DEF PcmWrite, callerVars, WriterGoto
    <3> QED BY <2>5, <3>1, <3>2 DEF PcmWrite
  <2>6. CASE WriterLock(w)  BY <2>6 DEF WriterLock, callerVars, WriterGoto
  <2>7. CASE Signal(w)  BY <2>7 DEF Signal, callerVars, WriterGoto
  <2>8. CASE Test(w)  BY <2>8 DEF Test, callerVars, WriterGoto
  <2>9. CASE Reset(w)  BY <2>9 DEF Reset, callerVars, WriterGoto
  <2>10. CASE PcmClose(w)  BY <2>10 DEF PcmClose, callerVars, WriterGoto
  <2>11. CASE Exit(w)  BY <2>11 DEF Exit, callerVars, WriterGoto
  <2> QED BY <1>4, <2>1, <2>2, <2>3, <2>4, <2>5, <2>6, <2>7, <2>8, <2>9, <2>10, <2>11 DEF WriterStep
<1>5. CASE Crash  BY <1>5 DEF Crash
<1>6. CASE UNCHANGED vars  BY <1>6 DEF vars
<1> QED BY <1>1, <1>2, <1>3, <1>4, <1>5, <1>6 DEF Next

\* A caller that has passed pthread_create has a thread to join (tfa.c:105-127).
LEMMA ThreadStep == TypeOK /\ LockInv /\ PhaseInv /\ ClockInv /\ ThreadInv /\ [Next]_vars => ThreadInv'
<1> SUFFICES ASSUME TypeOK, LockInv, PhaseInv, ClockInv, ThreadInv, [Next]_vars PROVE ThreadInv'
  OBVIOUS
<1> USE TfaAssumption DEF TypeOK, Phases, CallerPCs, WriterPCs, LockInv, Inside, PhaseInv, ClockInv, ThreadInv, deviceVars, flagVars, writerVars
<1>1. ASSUME NEW c \in Callers, Progress(c) PROVE ThreadInv'
  <2>1. CASE Lock(c)  BY <2>1 DEF Lock, Goto
  <2>2. CASE ClockOn(c)  BY <2>2 DEF ClockOn, Goto, WriterGoto
  <2>3. CASE Mutex(c)  BY <2>3 DEF Mutex, Goto
  <2>4. CASE Wait(c)  BY <2>4 DEF Wait, Goto
  <2>5. CASE ClocksEnabled(c)  BY <2>5 DEF ClocksEnabled, Goto
  <2>6. CASE Enable(c)  BY <2>6 DEF Enable, Goto
  <2>7. CASE ClockOff(c)  BY <2>7 DEF ClockOff, Goto
  <2>8. CASE ClockAlreadyOff(c)  BY <2>8 DEF ClockAlreadyOff, Goto
  <2>9. CASE Join(c)  BY <2>9 DEF Join, Goto, WriterGoto
  <2>10. CASE JoinNoThread(c)  BY <2>10 DEF JoinNoThread, Goto
  <2>11. CASE Unlock(c)  BY <2>11 DEF Unlock, Goto
  <2> QED BY <1>1, <2>1, <2>2, <2>3, <2>4, <2>5, <2>6, <2>7, <2>8, <2>9, <2>10, <2>11 DEF Progress
<1>2. ASSUME NEW c \in Callers, SpuriousWakeup(c) PROVE ThreadInv'
  BY <1>2 DEF SpuriousWakeup, Goto
<1>3. ASSUME NEW c \in Callers, Lifecycle(c) PROVE ThreadInv'
  <2>1. CASE Power(c)  BY <2>1 DEF Power, Enter, Goto
  <2>2. CASE Open(c)  BY <2>2 DEF Open, Enter, Goto
  <2>3. CASE OpenFails(c)  BY <2>3 DEF OpenFails, Goto
  <2>4. CASE InitClockThenPowerUp(c)  BY <2>4 DEF InitClockThenPowerUp, Enter, Goto
  <2>5. CASE PowerDownAgain(c)  BY <2>5 DEF PowerDownAgain, Enter, Goto
  <2>6. CASE OpenSucceeds(c)  BY <2>6 DEF OpenSucceeds, Goto
  <2>7. CASE Close(c)  BY <2>7 DEF Close, Enter, Goto
  <2>8. CASE Free(c)  BY <2>8 DEF Free, Goto
  <2> QED BY <1>3, <2>1, <2>2, <2>3, <2>4, <2>5, <2>6, <2>7, <2>8 DEF Lifecycle
<1>4. ASSUME NEW w \in Writers, WriterStep(w) PROVE ThreadInv'
  <2>1. CASE PcmOpen(w)  BY <2>1 DEF PcmOpen, callerVars, WriterGoto
  <2>2. CASE PcmOpenFails(w)  BY <2>2 DEF PcmOpenFails, callerVars, WriterGoto
  <2>3. CASE Calloc(w)  BY <2>3 DEF Calloc, callerVars, WriterGoto
  <2>4. CASE CallocFails(w)  BY <2>4 DEF CallocFails, callerVars, WriterGoto
  <2>5. CASE PcmWrite(w)  BY <2>5 DEF PcmWrite, callerVars, WriterGoto
  <2>6. CASE WriterLock(w)  BY <2>6 DEF WriterLock, callerVars, WriterGoto
  <2>7. CASE Signal(w)  BY <2>7 DEF Signal, callerVars, WriterGoto
  <2>8. CASE Test(w)  BY <2>8 DEF Test, callerVars, WriterGoto
  <2>9. CASE Reset(w)  BY <2>9 DEF Reset, callerVars, WriterGoto
  <2>10. CASE PcmClose(w)  BY <2>10 DEF PcmClose, callerVars, WriterGoto
  <2>11. CASE Exit(w)  BY <2>11 DEF Exit, callerVars, WriterGoto
  <2> QED BY <1>4, <2>1, <2>2, <2>3, <2>4, <2>5, <2>6, <2>7, <2>8, <2>9, <2>10, <2>11 DEF WriterStep
<1>5. CASE Crash  BY <1>5 DEF Crash
<1>6. CASE UNCHANGED vars  BY <1>6 DEF vars
<1> QED BY <1>1, <1>2, <1>3, <1>4, <1>5, <1>6 DEF Next

\* While the second power down of tfa_device_open is under way nobody else
\* commands the IC (tfa.c:265).
LEMMA PoweredDownStep == TypeOK /\ LockInv /\ PhaseInv /\ PoweredDownInv /\ [Next]_vars => PoweredDownInv'
<1> SUFFICES ASSUME TypeOK, LockInv, PhaseInv, PoweredDownInv, [Next]_vars PROVE PoweredDownInv'
  OBVIOUS
<1> USE TfaAssumption DEF TypeOK, Phases, CallerPCs, WriterPCs, LockInv, Inside, PhaseInv, PoweredDownInv, deviceVars, flagVars, writerVars
<1>1. ASSUME NEW c \in Callers, Progress(c) PROVE PoweredDownInv'
  <2>1. CASE Lock(c)  BY <2>1 DEF Lock, Goto
  <2>2. CASE ClockOn(c)  BY <2>2 DEF ClockOn, Goto, WriterGoto
  <2>3. CASE Mutex(c)  BY <2>3 DEF Mutex, Goto
  <2>4. CASE Wait(c)  BY <2>4 DEF Wait, Goto
  <2>5. CASE ClocksEnabled(c)  BY <2>5 DEF ClocksEnabled, Goto
  <2>6. CASE Enable(c)  BY <2>6 DEF Enable, Goto
  <2>7. CASE ClockOff(c)  BY <2>7 DEF ClockOff, Goto
  <2>8. CASE ClockAlreadyOff(c)  BY <2>8 DEF ClockAlreadyOff, Goto
  <2>9. CASE Join(c)  BY <2>9 DEF Join, Goto, WriterGoto
  <2>10. CASE JoinNoThread(c)  BY <2>10 DEF JoinNoThread, Goto
  <2>11. CASE Unlock(c)  BY <2>11 DEF Unlock, Goto
  <2> QED BY <1>1, <2>1, <2>2, <2>3, <2>4, <2>5, <2>6, <2>7, <2>8, <2>9, <2>10, <2>11 DEF Progress
<1>2. ASSUME NEW c \in Callers, SpuriousWakeup(c) PROVE PoweredDownInv'
  BY <1>2 DEF SpuriousWakeup, Goto
<1>3. ASSUME NEW c \in Callers, Lifecycle(c) PROVE PoweredDownInv'
  <2>1. CASE Power(c)  BY <2>1 DEF Power, Enter, Goto
  <2>2. CASE Open(c)  BY <2>2 DEF Open, Enter, Goto
  <2>3. CASE OpenFails(c)  BY <2>3 DEF OpenFails, Goto
  <2>4. CASE InitClockThenPowerUp(c)  BY <2>4 DEF InitClockThenPowerUp, Enter, Goto
  <2>5. CASE PowerDownAgain(c)  BY <2>5 DEF PowerDownAgain, Enter, Goto
  <2>6. CASE OpenSucceeds(c)  BY <2>6 DEF OpenSucceeds, Goto
  <2>7. CASE Close(c)  BY <2>7 DEF Close, Enter, Goto
  <2>8. CASE Free(c)  BY <2>8 DEF Free, Goto
  <2> QED BY <1>3, <2>1, <2>2, <2>3, <2>4, <2>5, <2>6, <2>7, <2>8 DEF Lifecycle
<1>4. ASSUME NEW w \in Writers, WriterStep(w) PROVE PoweredDownInv'
  <2>1. CASE PcmOpen(w)  BY <2>1 DEF PcmOpen, callerVars, WriterGoto
  <2>2. CASE PcmOpenFails(w)  BY <2>2 DEF PcmOpenFails, callerVars, WriterGoto
  <2>3. CASE Calloc(w)  BY <2>3 DEF Calloc, callerVars, WriterGoto
  <2>4. CASE CallocFails(w)  BY <2>4 DEF CallocFails, callerVars, WriterGoto
  <2>5. CASE PcmWrite(w)  BY <2>5 DEF PcmWrite, callerVars, WriterGoto
  <2>6. CASE WriterLock(w)  BY <2>6 DEF WriterLock, callerVars, WriterGoto
  <2>7. CASE Signal(w)  BY <2>7 DEF Signal, callerVars, WriterGoto
  <2>8. CASE Test(w)  BY <2>8 DEF Test, callerVars, WriterGoto
  <2>9. CASE Reset(w)  BY <2>9 DEF Reset, callerVars, WriterGoto
  <2>10. CASE PcmClose(w)  BY <2>10 DEF PcmClose, callerVars, WriterGoto
  <2>11. CASE Exit(w)  BY <2>11 DEF Exit, callerVars, WriterGoto
  <2> QED BY <1>4, <2>1, <2>2, <2>3, <2>4, <2>5, <2>6, <2>7, <2>8, <2>9, <2>10, <2>11 DEF WriterStep
<1>5. CASE Crash  BY <1>5 DEF Crash
<1>6. CASE UNCHANGED vars  BY <1>6 DEF vars
<1> QED BY <1>1, <1>2, <1>3, <1>4, <1>5, <1>6 DEF Next

\* A signal stays in `writing' until the caller it is for has seen it, and a caller
\* sleeps only on a flag it has just found clear (tfa.c:73-76, tfa.c:107-111).
LEMMA WakeStep == TypeOK /\ LockInv /\ PhaseInv /\ ClockInv /\ WriterInv /\ WakeInv /\ [Next]_vars => WakeInv'
<1> SUFFICES ASSUME TypeOK, LockInv, PhaseInv, ClockInv, WriterInv, WakeInv, [Next]_vars PROVE WakeInv'
  OBVIOUS
<1> USE TfaAssumption DEF TypeOK, Phases, CallerPCs, WriterPCs, LockInv, Inside, PhaseInv, ClockInv, WriterInv, WakeInv, Streaming, deviceVars, flagVars, writerVars
<1>1. ASSUME NEW c \in Callers, Progress(c) PROVE WakeInv'
  <2>1. CASE Lock(c)  BY <2>1 DEF Lock, Goto
  <2>2. CASE ClockOn(c)  BY <2>2 DEF ClockOn, Goto, WriterGoto
  <2>3. CASE Mutex(c)  BY <2>3 DEF Mutex, Goto
  <2>4. CASE Wait(c)  BY <2>4 DEF Wait, Goto
  <2>5. CASE ClocksEnabled(c)  BY <2>5 DEF ClocksEnabled, Goto
  <2>6. CASE Enable(c)  BY <2>6 DEF Enable, Goto
  <2>7. CASE ClockOff(c)  BY <2>7 DEF ClockOff, Goto
  <2>8. CASE ClockAlreadyOff(c)  BY <2>8 DEF ClockAlreadyOff, Goto
  <2>9. CASE Join(c)  BY <2>9 DEF Join, Goto, WriterGoto
  <2>10. CASE JoinNoThread(c)  BY <2>10 DEF JoinNoThread, Goto
  <2>11. CASE Unlock(c)  BY <2>11 DEF Unlock, Goto
  <2> QED BY <1>1, <2>1, <2>2, <2>3, <2>4, <2>5, <2>6, <2>7, <2>8, <2>9, <2>10, <2>11 DEF Progress
<1>2. ASSUME NEW c \in Callers, SpuriousWakeup(c) PROVE WakeInv'
  BY <1>2 DEF SpuriousWakeup, Goto
<1>3. ASSUME NEW c \in Callers, Lifecycle(c) PROVE WakeInv'
  <2>1. CASE Power(c)  BY <2>1 DEF Power, Enter, Goto
  <2>2. CASE Open(c)  BY <2>2 DEF Open, Enter, Goto
  <2>3. CASE OpenFails(c)  BY <2>3 DEF OpenFails, Goto
  <2>4. CASE InitClockThenPowerUp(c)  BY <2>4 DEF InitClockThenPowerUp, Enter, Goto
  <2>5. CASE PowerDownAgain(c)  BY <2>5 DEF PowerDownAgain, Enter, Goto
  <2>6. CASE OpenSucceeds(c)  BY <2>6 DEF OpenSucceeds, Goto
  <2>7. CASE Close(c)  BY <2>7 DEF Close, Enter, Goto
  <2>8. CASE Free(c)  BY <2>8 DEF Free, Goto
  <2> QED BY <1>3, <2>1, <2>2, <2>3, <2>4, <2>5, <2>6, <2>7, <2>8 DEF Lifecycle
<1>4. ASSUME NEW w \in Writers, WriterStep(w) PROVE WakeInv'
  <2>1. CASE PcmOpen(w)  BY <2>1 DEF PcmOpen, callerVars, WriterGoto
  <2>2. CASE PcmOpenFails(w)  BY <2>2 DEF PcmOpenFails, callerVars, WriterGoto
  <2>3. CASE Calloc(w)  BY <2>3 DEF Calloc, callerVars, WriterGoto
  <2>4. CASE CallocFails(w)  BY <2>4 DEF CallocFails, callerVars, WriterGoto
  <2>5. CASE PcmWrite(w)  BY <2>5 DEF PcmWrite, callerVars, WriterGoto
  <2>6. CASE WriterLock(w)  BY <2>6 DEF WriterLock, callerVars, WriterGoto
  <2>7. CASE Signal(w)  BY <2>7 DEF Signal, callerVars, WriterGoto
  <2>8. CASE Test(w)  BY <2>8 DEF Test, callerVars, WriterGoto
  <2>9. CASE Reset(w)  BY <2>9 DEF Reset, callerVars, WriterGoto
  <2>10. CASE PcmClose(w)  BY <2>10 DEF PcmClose, callerVars, WriterGoto
  <2>11. CASE Exit(w)  BY <2>11 DEF Exit, callerVars, WriterGoto
  <2> QED BY <1>4, <2>1, <2>2, <2>3, <2>4, <2>5, <2>6, <2>7, <2>8, <2>9, <2>10, <2>11 DEF WriterStep
<1>5. CASE Crash  BY <1>5 DEF Crash
<1>6. CASE UNCHANGED vars  BY <1>6 DEF vars
<1> QED BY <1>1, <1>2, <1>3, <1>4, <1>5, <1>6 DEF Next

-----------------------------------------------------------------------------
\* The invariant holds before the first call.
LEMMA InitIInv == Init => IInv
<1> SUFFICES ASSUME Init PROVE IInv
  OBVIOUS
<1> USE TfaAssumption DEF Init
<1>1. TypeOK
  BY DEF TypeOK, Phases, CallerPCs, WriterPCs
<1>2. LockInv /\ PhaseInv /\ ThreadInv /\ PoweredDownInv
  BY DEF LockInv, PhaseInv, ThreadInv, PoweredDownInv, Inside
<1>3. ClockInv /\ WriterInv /\ HandshakeInv /\ WakeInv
  BY DEF ClockInv, WriterInv, HandshakeInv, WakeInv
<1> QED BY <1>1, <1>2, <1>3 DEF IInv

\* IInv is an inductive invariant of the amplifier driver.
THEOREM Inductive == Spec => []IInv
<1>1. IInv /\ [Next]_vars => IInv'
  BY TypeStep, LockStep, PhaseStep, ClockStep, ThreadStep, PoweredDownStep,
     WriterInvStep, HandshakeStep, WakeStep DEF IInv
<1> QED BY InitIInv, <1>1, PTL DEF Spec

\* Type correctness of the driver's state.
THEOREM TypeCorrect == Spec => []TypeOK
<1>1. IInv => TypeOK
  BY DEF IInv
<1> QED BY Inductive, <1>1, PTL

\* tfa_power leaves no running clock and no writer behind (tfa.c:202-205).
THEOREM ClockIsReleased == Spec => []ClockNeverOutlivesPower
<1>1. IInv => ClockNeverOutlivesPower
  BY TfaAssumption DEF IInv, TypeOK, ClockInv, WriterInv, Streaming, ClockNeverOutlivesPower
<1> QED BY Inductive, <1>1, PTL

\* tfa_clock_on never starts a second writer next to a first (tfa.c:98-117).
THEOREM OneWriter == Spec => []AtMostOneWriter
<1>1. IInv => AtMostOneWriter
  BY DEF IInv, WriterInv, AtMostOneWriter
<1> QED BY Inductive, <1>1, PTL

\* The IC is powered up only under a running clock (tfa.c:192-197).
THEOREM EnabledUnderClock == Spec => []EnableClocked
<1>1. ASSUME IInv, NEW c \in Callers, pc[c] = "enable", on[c], ~fault
      PROVE  write_thread # NoThread /\ pcm[write_thread] = "running"
  <2>1. writing
    BY <1>1 DEF IInv, ClockInv
  <2>2. phase \notin {"closed", "powerdown1"}
    BY <1>1, TfaAssumption DEF IInv, PhaseInv
  <2> QED BY <1>1, <2>1, <2>2 DEF IInv, HandshakeInv
<1>2. IInv => EnableClocked
  BY <1>1 DEF EnableClocked
<1> QED BY Inductive, <1>2, PTL

\* The unlocked reset of `writing' meets no reader of it (tfa.c:81, tfa.c:108).
THEOREM ResetIsPrivate == Spec => []ResetUnobserved
<1>1. ASSUME IInv, NEW w \in Writers, wpc[w] = "reset",
             NEW c \in Callers, pc[c] \in {"clock_on", "mutex", "check", "waiting", "enable"}
      PROVE  FALSE
  <2>1. PICK d \in Callers : pc[d] = "join"
    BY <1>1 DEF IInv, WriterInv
  <2>2. tfa_lock = c /\ tfa_lock = d
    BY <1>1, <2>1 DEF IInv, LockInv, Inside, CallerPCs
  <2> QED BY <1>1, <2>1, <2>2
<1>2. IInv => ResetUnobserved
  BY <1>1 DEF ResetUnobserved
<1> QED BY Inductive, <1>2, PTL

\* pthread_join has a thread to join (tfa.c:127), but for the two excuses the
\* property names.
THEOREM JoinsAThread == Spec => []JoinHasThread
<1>1. IInv => JoinHasThread
  BY DEF IInv, ThreadInv, JoinHasThread
<1> QED BY Inductive, <1>1, PTL

\* No signal of a writer is lost on the caller that waits for it (tfa.c:107-111).
THEOREM WakeupsAreKept == Spec => []NoLostWakeup
<1>1. ASSUME IInv, NEW c \in Callers, pc[c] \in {"mutex", "check", "waiting"}
      PROVE  IF write_thread = NoThread THEN CreateFaults
             ELSE IF signaled[write_thread] THEN writing /\ pc[c] # "waiting"
             ELSE wpc[write_thread] \notin {"none", "exited"}
  <2>1. on[c]
    BY <1>1 DEF IInv, ClockInv
  <2>2. CASE write_thread = NoThread
    BY <1>1, <2>1, <2>2 DEF IInv, ThreadInv
  <2>3. CASE write_thread # NoThread
    <3>1. write_thread \in Writers /\ wpc[write_thread] # "none"
      BY <1>1, <2>3 DEF IInv, TypeOK, WriterInv
    <3> QED BY <1>1, <2>3, <3>1 DEF IInv, WakeInv
  <2> QED BY <2>2, <2>3
<1>2. IInv => NoLostWakeup
  BY <1>1 DEF NoLostWakeup
<1> QED BY Inductive, <1>2, PTL

\* Whatever tfa_enable answers, a device is handed out with its IC off or past a
\* positive error of the last power down (tfa.c:248-272).
THEOREM OpenedOff == Spec => OpenedPoweredDown
<1>1. ASSUME IInv, Next, phase # "open", phase' = "open", ic'
      PROVE  rc[opener] > 0
  <2>1. PICK c \in Callers : OpenSucceeds(c)
    BY <1>1 DEF Next, Progress, SpuriousWakeup, Lifecycle, WriterStep, 
           Lock, ClockOn, Mutex, Wait, ClocksEnabled, Enable, ClockOff, ClockAlreadyOff,
           Join, JoinNoThread, Unlock, Power, Open, OpenFails, InitClockThenPowerUp,
           PowerDownAgain, Close, Free, Crash, PcmOpen, PcmOpenFails, Calloc, CallocFails,
           PcmWrite, WriterLock, Signal, Test, Reset, PcmClose, Exit, deviceVars, callerVars
  <2>2. c = opener /\ rc[c] \in RC /\ rc[c] >= 0
    BY <1>1, <2>1 DEF OpenSucceeds, Goto, IInv, TypeOK, PhaseInv
  <2>3. rc[c] # 0
    <3>1. phase = "powerdown2" /\ pc[c] = "next" /\ ic' = ic
      BY <2>1 DEF OpenSucceeds, Goto
    <3> QED BY <1>1, <2>2, <3>1 DEF IInv, PoweredDownInv
  <2>4. rc[c] \in Int
    BY <2>2, TfaAssumption
  <2> QED BY <2>2, <2>3, <2>4
<1>2. IInv /\ [Next]_vars
        => [phase # "open" /\ phase' = "open" /\ ic' => rc[opener] > 0]_vars
  BY <1>1
<1> QED BY Inductive, <1>2, PTL DEF Spec, OpenedPoweredDown

-----------------------------------------------------------------------------
(* Refinement of TfaPower.                                                 *)

\* Each step of the threads is a step of the atomic switch or invisible to it:
\* the command reaches the IC at tfa.c:197, under tfa_lock, whatever the clock
\* and the writers do around it.
LEMMA PowerStep == TypeOK /\ PhaseInv /\ [Next]_vars => [Abstract!PowerNext]_(Abstract!powerVars)
<1> SUFFICES ASSUME TypeOK, PhaseInv, [Next]_vars
             PROVE  \/ \E c \in Callers : Abstract!Invoke(c) \/ Abstract!Command(c) \/ Abstract!Respond(c)
                    \/ Abstract!Die
                    \/ UNCHANGED <<PowerCall, ic>>
  BY DEF Abstract!PowerNext, Abstract!powerVars
<1> USE TfaAssumption DEF TypeOK, PhaseInv, Phases, CallerPCs, WriterPCs, PowerCall,
      deviceVars, flagVars, writerVars
<1>1. ASSUME NEW c \in Callers, Progress(c)
      PROVE  Abstract!Invoke(c) \/ Abstract!Command(c) \/ Abstract!Respond(c) \/ UNCHANGED <<PowerCall, ic>>
  <2>1. CASE Lock(c)  BY <2>1 DEF Lock, Goto
  <2>2. CASE ClockOn(c)  BY <2>2 DEF ClockOn, Goto, WriterGoto
  <2>3. CASE Mutex(c)  BY <2>3 DEF Mutex, Goto
  <2>4. CASE Wait(c)  BY <2>4 DEF Wait, Goto
  <2>5. CASE ClocksEnabled(c)  BY <2>5 DEF ClocksEnabled, Goto
  <2>6. CASE Enable(c)
    <3>1. PICK r \in RC : rc' = [rc EXCEPT ![c] = r] /\ ic' = IF r = 0 THEN on[c] ELSE ic
      BY <2>6 DEF Enable
    <3>2. PowerCall[c] = [st |-> "called", on |-> on[c]]
      BY <2>6 DEF Enable, Goto
    <3>3. PowerCall' = [PowerCall EXCEPT ![c] = [st |-> "done", rc |-> r]]
      BY <2>6, <3>1 DEF Enable, Goto
    <3> QED BY <3>1, <3>2, <3>3 DEF Abstract!Command, Abstract!Commanded
  <2>7. CASE ClockOff(c)  BY <2>7 DEF ClockOff, Goto
  <2>8. CASE ClockAlreadyOff(c)  BY <2>8 DEF ClockAlreadyOff, Goto
  <2>9. CASE Join(c)  BY <2>9 DEF Join, Goto, WriterGoto
  <2>10. CASE JoinNoThread(c)  BY <2>10 DEF JoinNoThread, Goto
  <2>11. CASE Unlock(c)  BY <2>11 DEF Unlock, Goto, Abstract!Respond, Abstract!Idle
  <2> QED BY <1>1, <2>1, <2>2, <2>3, <2>4, <2>5, <2>6, <2>7, <2>8, <2>9, <2>10, <2>11 DEF Progress
<1>2. ASSUME NEW c \in Callers, SpuriousWakeup(c)
      PROVE  UNCHANGED <<PowerCall, ic>>
  BY <1>2 DEF SpuriousWakeup, Goto
<1>3. ASSUME NEW c \in Callers, Lifecycle(c)
      PROVE  Abstract!Invoke(c) \/ Abstract!Command(c) \/ Abstract!Respond(c) \/ UNCHANGED <<PowerCall, ic>>
  <2>1. CASE Power(c)
    <3>1. PICK o \in BOOLEAN : Enter(c, o, "idle")
      BY <2>1 DEF Power
    <3>2. PowerCall' = [PowerCall EXCEPT ![c] = [st |-> "called", on |-> o]]
      BY <2>1, <3>1 DEF Power, Enter, Goto
    <3> QED BY <2>1, <3>1, <3>2 DEF Power, Enter, Goto, Abstract!Invoke, Abstract!Call, Abstract!Idle
  <2>2. CASE Open(c)  BY <2>2 DEF Open, Enter, Goto, Abstract!Invoke, Abstract!Call, Abstract!Idle
  <2>3. CASE OpenFails(c)  BY <2>3 DEF OpenFails, Goto
  <2>4. CASE InitClockThenPowerUp(c)  BY <2>4 DEF InitClockThenPowerUp, Enter, Goto, Abstract!Invoke, Abstract!Call, Abstract!Idle
  <2>5. CASE PowerDownAgain(c)  BY <2>5 DEF PowerDownAgain, Enter, Goto, Abstract!Invoke, Abstract!Call, Abstract!Idle
  <2>6. CASE OpenSucceeds(c)  BY <2>6 DEF OpenSucceeds, Goto
  <2>7. CASE Close(c)  BY <2>7 DEF Close, Enter, Goto, Abstract!Invoke, Abstract!Call, Abstract!Idle
  <2>8. CASE Free(c)  BY <2>8 DEF Free, Goto
  <2> QED BY <1>3, <2>1, <2>2, <2>3, <2>4, <2>5, <2>6, <2>7, <2>8 DEF Lifecycle
<1>4. ASSUME NEW w \in Writers, WriterStep(w)
      PROVE  UNCHANGED <<PowerCall, ic>>
  <2>1. CASE PcmOpen(w)  BY <2>1 DEF PcmOpen, callerVars, WriterGoto
  <2>2. CASE PcmOpenFails(w)  BY <2>2 DEF PcmOpenFails, callerVars, WriterGoto
  <2>3. CASE Calloc(w)  BY <2>3 DEF Calloc, callerVars, WriterGoto
  <2>4. CASE CallocFails(w)  BY <2>4 DEF CallocFails, callerVars, WriterGoto
  <2>5. CASE PcmWrite(w)  BY <2>5 DEF PcmWrite, callerVars, WriterGoto
  <2>6. CASE WriterLock(w)  BY <2>6 DEF WriterLock, callerVars, WriterGoto
  <2>7. CASE Signal(w)  BY <2>7 DEF Signal, callerVars, WriterGoto
  <2>8. CASE Test(w)  BY <2>8 DEF Test, callerVars, WriterGoto
  <2>9. CASE Reset(w)  BY <2>9 DEF Reset, callerVars, WriterGoto
  <2>10. CASE PcmClose(w)  BY <2>10 DEF PcmClose, callerVars, WriterGoto
  <2>11. CASE Exit(w)  BY <2>11 DEF Exit, callerVars, WriterGoto
  <2> QED BY <1>4, <2>1, <2>2, <2>3, <2>4, <2>5, <2>6, <2>7, <2>8, <2>9, <2>10, <2>11 DEF WriterStep
<1>5. CASE Crash  BY <1>5 DEF Crash, Abstract!Die, Abstract!Idle
<1>6. CASE UNCHANGED vars  BY <1>6 DEF vars
<1> QED BY <1>1, <1>2, <1>3, <1>4, <1>5, <1>6 DEF Next

\* tfa_power implements the atomic power switch (module TfaPower).
THEOREM PowerImplemented == Spec => ImplementsPower
<1>1. Init => Abstract!PowerInit
  BY DEF Init, Abstract!PowerInit, Abstract!Idle, PowerCall
<1>2. IInv /\ [Next]_vars => [Abstract!PowerNext]_(Abstract!powerVars)
  BY PowerStep DEF IInv
<1> QED BY Inductive, <1>1, <1>2, PTL DEF Spec, ImplementsPower, Abstract!PowerSpec

=============================================================================
