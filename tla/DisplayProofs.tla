--------------------------- MODULE DisplayProofs ----------------------------
(***************************************************************************)
(* Proofs about LiveDisplay for every panel and every content of the       *)
(* default file.                                                           *)
(***************************************************************************)
EXTENDS ServiceProps, TLAPS

\* A call is known by its place, its mode and its flag (DisplayModes.cpp:102).
LEMMA CallType ==
  ASSUME NEW i \in kModeMap, NEW makeDefault \in BOOLEAN,
         SetDisplayMode(i, makeDefault)
  PROVE  /\ call' \in [at : {"open_mode", "open_default", "close_default", "close_mode"},
                       id : kModeMap, makeDefault : BOOLEAN]
         /\ call' # NoCall
         /\ call'.at = "open_mode" /\ call'.id = i /\ call'.makeDefault = makeDefault
  BY DEF SetDisplayMode, NoCall

\* The constructor calls with the default it has read, if there is one
\* (DisplayModes.cpp:44-62).
LEMMA ConstructCalls ==
  ASSUME Construct, file # Unreadable
  PROVE  \E i \in kModeMap, b \in BOOLEAN :
           i = DefaultIn(file) /\ b = FALSE /\ SetDisplayMode(i, b)
<1>1. SetDisplayMode(DefaultIn(file), FALSE)
  BY DEF Construct
<1>2. DefaultIn(file) \in kModeMap
  BY DEF DefaultIn, kModeMap
<1> QED BY <1>1, <1>2, Zenon

\* Every step keeps the types (DisplayModes.cpp:44-123).
LEMMA DisplayTypeStep ==
  ASSUME DisplayTypeOK, CallInv, [DisplayNext]_displayVars
  PROVE  DisplayTypeOK'
<1> USE DisplayAssumption DEF DisplayTypeOK, CallInv, NoCall, Contents, kModeMap, DefaultIn,
      diskVars, procVars, historyVars
<1>1. CASE Construct
  <2>1. CASE file = Unreadable  BY <1>1, <2>1 DEF Construct
  <2>2. CASE file # Unreadable
    <3>1. PICK i \in kModeMap, b \in BOOLEAN :
            i = DefaultIn(file) /\ b = FALSE /\ SetDisplayMode(i, b)
      BY <1>1, <2>2, ConstructCalls, Zenon
    <3>2. SetDisplayMode(i, b) /\ b = FALSE /\ i = DefaultIn(file)
      BY <3>1, Zenon
    <3>3. /\ call' \in [at : {"open_mode", "open_default", "close_default", "close_mode"},
                         id : kModeMap, makeDefault : BOOLEAN]
          /\ call' # NoCall
          /\ call'.at = "open_mode" /\ call'.id = i /\ call'.makeDefault = b
      BY <3>2, CallType
    <3>4. ~call'.makeDefault
      BY <3>2, <3>3, Zenon
    <3> QED BY <1>1, <2>2, <3>2, <3>3, <3>4 DEF Construct
  <2> QED BY <2>1, <2>2
<1>2. CASE Register  BY <1>2 DEF Register
<1>3. CASE Exit
  <2>1. spoilt' \in BOOLEAN /\ refused' \in BOOLEAN
    BY <1>3, Zenon DEF Exit
  <2> QED BY <1>3, <2>1 DEF Exit
<1>4. CASE SetSteps
  <2>1. CASE OpenMode  BY <2>1 DEF OpenMode
  <2>2. CASE OpenModeFails  BY <2>2 DEF OpenModeFails
  <2>3. CASE OpenDefault  BY <2>3 DEF OpenDefault
  <2>4. CASE OpenDefaultFails  BY <2>4 DEF OpenDefaultFails
  <2>5. CASE CloseDefault
    <3>1. spoilt' \in BOOLEAN /\ refused' \in BOOLEAN
      BY <2>5, Zenon DEF CloseDefault
    <3> QED BY <2>5, <3>1 DEF CloseDefault
  <2>6. CASE CloseDefaultFails  BY <2>6 DEF CloseDefaultFails
  <2>7. CASE CloseMode
    <3>1. spoilt' \in BOOLEAN /\ refused' \in BOOLEAN
      BY <2>7, Zenon DEF CloseMode
    <3> QED BY <2>7, <3>1 DEF CloseMode
  <2>8. CASE CloseModeFails  BY <2>8 DEF CloseModeFails
  <2> QED BY <1>4, <2>1, <2>2, <2>3, <2>4, <2>5, <2>6, <2>7, <2>8 DEF SetSteps
<1>5. ASSUME NEW i \in kModeMap, NEW makeDefault \in BOOLEAN,
             CallSetDisplayMode(i, makeDefault)
      PROVE  DisplayTypeOK'
  BY <1>5 DEF CallSetDisplayMode, SetDisplayMode
<1>6. CASE UNCHANGED displayVars  BY <1>6 DEF displayVars
<1> QED BY <1>1, <1>2, <1>3, <1>4, <1>5, <1>6 DEF DisplayNext

\* A call of setDisplayMode is the constructor's or a client's, never both
\* (service.cpp:59-113).
LEMMA CallStep ==
  ASSUME DisplayTypeOK, CallInv, [DisplayNext]_displayVars
  PROVE  CallInv'
<1> USE DisplayAssumption DEF DisplayTypeOK, CallInv,
      NoCall, Contents, kModeMap, DefaultIn, diskVars, procVars, historyVars
<1>1. CASE Construct
  <2>1. CASE file = Unreadable  BY <1>1, <2>1 DEF Construct
  <2>2. CASE file # Unreadable
    <3>1. PICK i \in kModeMap, b \in BOOLEAN :
            i = DefaultIn(file) /\ b = FALSE /\ SetDisplayMode(i, b)
      BY <1>1, <2>2, ConstructCalls, Zenon
    <3>2. SetDisplayMode(i, b) /\ b = FALSE /\ i = DefaultIn(file)
      BY <3>1, Zenon
    <3>3. /\ call' \in [at : {"open_mode", "open_default", "close_default", "close_mode"},
                         id : kModeMap, makeDefault : BOOLEAN]
          /\ call' # NoCall
          /\ call'.at = "open_mode" /\ call'.id = i /\ call'.makeDefault = b
      BY <3>2, CallType
    <3>4. ~call'.makeDefault
      BY <3>2, <3>3, Zenon
    <3> QED BY <1>1, <2>2, <3>2, <3>3, <3>4 DEF Construct
  <2> QED BY <2>1, <2>2
<1>2. CASE Register  BY <1>2 DEF Register
<1>3. CASE Exit  BY <1>3 DEF Exit
<1>4. CASE SetSteps
  <2>1. CASE OpenMode  BY <2>1 DEF OpenMode
  <2>2. CASE OpenModeFails  BY <2>2 DEF OpenModeFails
  <2>3. CASE OpenDefault  BY <2>3 DEF OpenDefault
  <2>4. CASE OpenDefaultFails  BY <2>4 DEF OpenDefaultFails
  <2>5. CASE CloseDefault  BY <2>5 DEF CloseDefault
  <2>6. CASE CloseDefaultFails  BY <2>6 DEF CloseDefaultFails
  <2>7. CASE CloseMode  BY <2>7 DEF CloseMode
  <2>8. CASE CloseModeFails  BY <2>8 DEF CloseModeFails
  <2> QED BY <1>4, <2>1, <2>2, <2>3, <2>4, <2>5, <2>6, <2>7, <2>8 DEF SetSteps
<1>5. ASSUME NEW i \in kModeMap, NEW makeDefault \in BOOLEAN,
             CallSetDisplayMode(i, makeDefault)
      PROVE  CallInv'
  BY <1>5 DEF CallSetDisplayMode, SetDisplayMode
<1>6. CASE UNCHANGED displayVars  BY <1>6 DEF displayVars
<1> QED BY <1>1, <1>2, <1>3, <1>4, <1>5, <1>6 DEF DisplayNext

\* The default in memory and the default in the file change together, or the
\* file is on record as spoilt (DisplayModes.cpp:114-121).
LEMMA DefaultStep ==
  ASSUME DisplayTypeOK, CallInv, DefaultInv, [DisplayNext]_displayVars
  PROVE  DefaultInv'
<1> USE DisplayAssumption DEF DisplayTypeOK, CallInv, DefaultInv,
      NoCall, Contents, kModeMap, DefaultIn, diskVars, procVars, historyVars
<1>1. CASE Construct  BY <1>1 DEF Construct, SetDisplayMode
<1>2. CASE Register  BY <1>2 DEF Register
<1>3. CASE Exit
  <2>1. spoilt' <=> spoilt \/ call.at = "close_default"
    BY <1>3, Zenon DEF Exit
  <2>2. file' = file /\ chosen' = chosen /\ proc' = "down" /\ call' = NoCall
    BY <1>3 DEF Exit
  <2>3. spoilt' => file' = Unreadable
    BY <2>1, <2>2
  <2>4. ~spoilt' => DefaultIn(file') = chosen'
    BY <2>1, <2>2
  <2> QED BY <2>2, <2>3, <2>4
<1>4. CASE SetSteps
  <2>1. CASE OpenMode  BY <2>1 DEF OpenMode
  <2>2. CASE OpenModeFails  BY <2>2 DEF OpenModeFails
  <2>3. CASE OpenDefault  BY <2>3 DEF OpenDefault
  <2>4. CASE OpenDefaultFails  BY <2>4 DEF OpenDefaultFails
  <2>5. CASE CloseDefault  BY <2>5 DEF CloseDefault
  <2>6. CASE CloseDefaultFails  BY <2>6 DEF CloseDefaultFails
  <2>7. CASE CloseMode  BY <2>7 DEF CloseMode
  <2>8. CASE CloseModeFails  BY <2>8 DEF CloseModeFails
  <2> QED BY <1>4, <2>1, <2>2, <2>3, <2>4, <2>5, <2>6, <2>7, <2>8 DEF SetSteps
<1>5. ASSUME NEW i \in kModeMap, NEW makeDefault \in BOOLEAN,
             CallSetDisplayMode(i, makeDefault)
      PROVE  DefaultInv'
  BY <1>5 DEF CallSetDisplayMode, SetDisplayMode
<1>6. CASE UNCHANGED displayVars  BY <1>6 DEF displayVars
<1> QED BY <1>1, <1>2, <1>3, <1>4, <1>5, <1>6 DEF DisplayNext

\* The constructor brings the default to the panel (DisplayModes.cpp:61).
LEMMA PanelStep ==
  ASSUME DisplayTypeOK, CallInv, RestoredBeforeServing, [DisplayNext]_displayVars
  PROVE  RestoredBeforeServing'
<1> USE DisplayAssumption DEF DisplayTypeOK, CallInv, RestoredBeforeServing,
      NoCall, Contents, kModeMap, DefaultIn, diskVars, procVars, historyVars
<1>1. CASE Construct  BY <1>1 DEF Construct, SetDisplayMode
<1>2. CASE Register  BY <1>2 DEF Register
<1>3. CASE Exit  BY <1>3 DEF Exit
<1>4. CASE SetSteps
  <2>1. CASE OpenMode  BY <2>1 DEF OpenMode
  <2>2. CASE OpenModeFails  BY <2>2 DEF OpenModeFails
  <2>3. CASE OpenDefault  BY <2>3 DEF OpenDefault
  <2>4. CASE OpenDefaultFails  BY <2>4 DEF OpenDefaultFails
  <2>5. CASE CloseDefault  BY <2>5 DEF CloseDefault
  <2>6. CASE CloseDefaultFails  BY <2>6 DEF CloseDefaultFails
  <2>7. CASE CloseMode  BY <2>7 DEF CloseMode
  <2>8. CASE CloseModeFails  BY <2>8 DEF CloseModeFails
  <2> QED BY <1>4, <2>1, <2>2, <2>3, <2>4, <2>5, <2>6, <2>7, <2>8 DEF SetSteps
<1>5. ASSUME NEW i \in kModeMap, NEW makeDefault \in BOOLEAN,
             CallSetDisplayMode(i, makeDefault)
      PROVE  RestoredBeforeServing'
  BY <1>5 DEF CallSetDisplayMode, SetDisplayMode
<1>6. CASE UNCHANGED displayVars  BY <1>6 DEF displayVars
<1> QED BY <1>1, <1>2, <1>3, <1>4, <1>5, <1>6 DEF DisplayNext

-----------------------------------------------------------------------------

\* DisplayInv is an inductive invariant of the service.
THEOREM DisplayInductive == DisplaySpec => []DisplayInv
<1>1. DisplayInit => DisplayInv
  <2> SUFFICES ASSUME DisplayInit PROVE DisplayInv
    OBVIOUS
  <2> USE DisplayAssumption DEF DisplayInit, NoCall, Contents, kModeMap, DefaultIn
  <2>1. DisplayTypeOK
    <3>1. spoilt \in BOOLEAN /\ refused \in BOOLEAN
      BY Zenon
    <3> QED BY <3>1 DEF DisplayTypeOK
  <2>2. CallInv /\ DefaultInv /\ RestoredBeforeServing
    BY DEF CallInv, DefaultInv, RestoredBeforeServing
  <2> QED BY <2>1, <2>2 DEF DisplayInv
<1>2. DisplayInv /\ [DisplayNext]_displayVars => DisplayInv'
  BY DisplayTypeStep, CallStep, DefaultStep, PanelStep DEF DisplayInv
<1> QED BY <1>1, <1>2, PTL DEF DisplaySpec

\* The types hold in every reachable state.
THEOREM DisplayTypes == DisplaySpec => []DisplayTypeOK
<1>1. DisplayInv => DisplayTypeOK
  BY DEF DisplayInv
<1> QED BY DisplayInductive, <1>1, PTL

\* The default mode survives every restart, unless its file was spoilt.
THEOREM DefaultIsDurable == DisplaySpec => []DefaultSurvives
<1>1. DisplayInv => DefaultSurvives
  BY DEF DisplayInv, CallInv, DefaultInv, DefaultSurvives, NoCall
<1> QED BY DisplayInductive, <1>1, PTL

\* A restart never comes up with a default that nobody chose, but for 0.
THEOREM DefaultIsChosen == DisplaySpec => []NoThirdDefault
<1>1. DisplayInv => NoThirdDefault
  BY DisplayAssumption DEF DisplayInv, CallInv, DefaultInv, NoThirdDefault, DefaultIn
<1> QED BY DisplayInductive, <1>1, PTL

\* The panel shows the default before the first client is served.
THEOREM PanelIsRestored == DisplaySpec => []RestoredBeforeServing
<1>1. DisplayInv => RestoredBeforeServing
  BY DEF DisplayInv, RestoredBeforeServing, RestoredBeforeServing, NoCall
<1> QED BY DisplayInductive, <1>1, PTL

-----------------------------------------------------------------------------
(* The whole service.                                                      *)

\* A step of the service is one of the display modes, or leaves them alone.
LEMMA ServiceStep ==
  ASSUME [ServiceNext]_serviceVars
  PROVE  [DisplayNext]_displayVars
<1>1. CASE Start \/ Proceed \/ Die \/ GetThrows
  BY <1>1 DEF Start, Proceed, Die, GetThrows, DisplayNext
<1>2. CASE GetDisplayModes \/ GetDisplayModesBlindly \/ GetDisplayModesUnread
  BY <1>2 DEF GetDisplayModes, GetDisplayModesBlindly, GetDisplayModesUnread
<1>3. ASSUME NEW i \in kModeMap, NEW makeDefault \in BOOLEAN, Call(i, makeDefault)
      PROVE  DisplayNext
  BY <1>3 DEF Call, DisplayNext
<1>4. ASSUME NEW node, NEW value, WriteNode(node, value)
      PROVE  UNCHANGED displayVars
  BY <1>4 DEF WriteNode
<1>5. CASE UNCHANGED serviceVars
  BY <1>5 DEF serviceVars
<1> QED
  BY <1>1, <1>2, <1>3, <1>4, <1>5
  DEF ServiceNext, SetCalibration, SunlightSetEnabled, ReadingSetEnabled

\* The other interfaces and the getters change nothing that the display modes
\* promise: the service is an implementation of the display modes alone.
THEOREM ServiceRefinesDisplay == ServiceSpec => DisplaySpec
<1>1. ServiceInit => DisplayInit
  BY DEF ServiceInit
<1>2. [ServiceNext]_serviceVars => [DisplayNext]_displayVars
  BY ServiceStep
<1> QED BY <1>1, <1>2, PTL DEF ServiceSpec, DisplaySpec

\* No step makes a mode the default, or is about to, that was not offered and
\* cannot be shown (DisplayModes.cpp:65-79, DisplayModes.cpp:103-121).
LEMMA ShowStep ==
  ASSUME DisplayInv, ShowInv, [ServiceNext]_serviceVars
  PROVE  ShowInv'
<1> USE DisplayAssumption DEF DisplayInv, DisplayTypeOK, CallInv, DefaultInv, ShowInv, Showable,
      Offered, NoCall, Contents, kModeMap, DefaultIn, diskVars, procVars, historyVars, displayVars,
      answerVars
<1>1. CASE Start
  <2>1. CASE Construct  BY <1>1, <2>1 DEF Start, Construct, SetDisplayMode
  <2>2. CASE Register  BY <1>1, <2>2 DEF Start, Register
  <2> QED BY <1>1, <2>1, <2>2 DEF Start
<1>2. CASE Proceed
  <2>1. SetSteps /\ UNCHANGED <<offered, blind, stray>>
    BY <1>2 DEF Proceed
  <2>2. CASE OpenMode  BY <2>1, <2>2 DEF OpenMode
  <2>3. CASE OpenModeFails  BY <2>1, <2>3 DEF OpenModeFails
  <2>4. CASE OpenDefault  BY <2>1, <2>4 DEF OpenDefault
  <2>5. CASE OpenDefaultFails  BY <2>1, <2>5 DEF OpenDefaultFails
  <2>6. CASE CloseDefault  BY <2>1, <2>6 DEF CloseDefault
  <2>7. CASE CloseDefaultFails  BY <2>1, <2>7 DEF CloseDefaultFails
  <2>8. CASE CloseMode  BY <2>1, <2>8 DEF CloseMode
  <2>9. CASE CloseModeFails  BY <2>1, <2>9 DEF CloseModeFails
  <2> QED BY <2>1, <2>2, <2>3, <2>4, <2>5, <2>6, <2>7, <2>8, <2>9 DEF SetSteps
<1>3. CASE Die \/ GetThrows
  BY <1>3 DEF Die, GetThrows, Exit
<1>4. CASE GetDisplayModes \/ GetDisplayModesBlindly \/ GetDisplayModesUnread
  BY <1>4 DEF GetDisplayModes, GetDisplayModesBlindly, GetDisplayModesUnread
<1>5. ASSUME NEW i \in kModeMap, NEW makeDefault \in BOOLEAN, Call(i, makeDefault)
      PROVE  ShowInv'
  <2>1. stray' <=> (stray \/ i \notin offered)
    BY <1>5, Zenon DEF Call
  <2>2. /\ UNCHANGED <<offered, blind, file, mDefaultModeId>>
        /\ call' = [at |-> "open_mode", id |-> i, makeDefault |-> makeDefault]
    BY <1>5 DEF Call, CallSetDisplayMode, SetDisplayMode
  <2>3. call'.id = i
    BY <2>2
  <2> QED BY <2>1, <2>2, <2>3
<1>6. ASSUME NEW node, NEW value, WriteNode(node, value)
      PROVE  ShowInv'
  BY <1>6 DEF WriteNode
<1>7. CASE UNCHANGED serviceVars
  BY <1>7 DEF serviceVars
<1> QED
  BY <1>1, <1>2, <1>3, <1>4, <1>5, <1>6, <1>7
  DEF ServiceNext, SetCalibration, SunlightSetEnabled, ReadingSetEnabled

\* What the caller is told stays true on the way from the answer to the closing
\* of the files (DisplayModes.cpp:108-123).
LEMMA ToldStep ==
  ASSUME DisplayInv, ToldInv, [ServiceNext]_serviceVars
  PROVE  ToldInv'
<1> USE DisplayAssumption DEF DisplayInv, DisplayTypeOK, CallInv, DefaultInv, ToldInv, Stored,
      AnswersKept, CurrentMode, NoAnswer, NoCall, Contents, kModeMap, DefaultIn,
      diskVars, procVars, historyVars, displayVars, answerVars
<1>1. CASE Start
  <2>1. CASE Construct  BY <1>1, <2>1 DEF Start, Construct, SetDisplayMode
  <2>2. CASE Register  BY <1>1, <2>2 DEF Start, Register
  <2> QED BY <1>1, <2>1, <2>2 DEF Start
<1>2. CASE Proceed
  <2>1. SetSteps /\ told' = IF Failing THEN [told EXCEPT !.ok = FALSE] ELSE told
    BY <1>2 DEF Proceed
  <2>2. CASE Failing
    <3>1. told' = [told EXCEPT !.ok = FALSE]
      BY <2>1, <2>2
    <3>2. /\ call # NoCall /\ call.at \in {"open_mode", "open_default"}
          /\ UNCHANGED <<file, panel, proc, mDefaultModeId, spoilt>>
          /\ call' = NoCall \/ (call' = [call EXCEPT !.at = "close_mode"])
      BY <2>2 DEF Failing, OpenModeFails, OpenDefaultFails
    <3>3. CASE told = NoAnswer
      <4>1. told' = NoAnswer /\ proc # "serving"
        BY <3>1, <3>2, <3>3
      <4> QED BY <3>2, <4>1
    <3>4. CASE told # NoAnswer
      <4>1. /\ told' \in [ok : BOOLEAN, id : kModeMap, makeDefault : BOOLEAN, before : kModeMap]
            /\ ~told'.ok /\ told'.before = told.before
            /\ told'.id = told.id /\ told'.makeDefault = told.makeDefault
        BY <3>1, <3>4
      <4>2. told' # NoAnswer
        BY <4>1
      <4>3. proc = "serving" /\ Stored(told.before) /\ Stored(told.before)'
        BY <3>2, <3>4, <4>1
      <4> QED BY <3>2, <3>4, <4>1, <4>2, <4>3
    <3> QED BY <3>3, <3>4
  <2>3. CASE ~Failing
    <3>1. told' = told
      BY <2>1, <2>3
    <3>2. CASE OpenMode  BY <3>1, <3>2 DEF OpenMode
    <3>3. CASE OpenDefault  BY <3>1, <3>3 DEF OpenDefault
    <3>4. CASE CloseDefault  BY <3>1, <3>4 DEF CloseDefault
    <3>5. CASE CloseDefaultFails  BY <3>1, <3>5 DEF CloseDefaultFails
    <3>6. CASE CloseMode  BY <3>1, <3>6 DEF CloseMode
    <3>7. CASE CloseModeFails  BY <3>1, <3>7 DEF CloseModeFails
    <3> QED BY <2>1, <2>3, <3>2, <3>3, <3>4, <3>5, <3>6, <3>7 DEF SetSteps, Failing
  <2> QED BY <2>2, <2>3
<1>3. CASE Die \/ GetThrows
  <2>1. proc' = "down" /\ call' = NoCall /\ told' = NoAnswer
    BY <1>3 DEF Die, GetThrows, Exit
  <2> QED BY <2>1
<1>4. CASE GetDisplayModes \/ GetDisplayModesBlindly \/ GetDisplayModesUnread
  BY <1>4 DEF GetDisplayModes, GetDisplayModesBlindly, GetDisplayModesUnread
<1>5. ASSUME NEW i \in kModeMap, NEW makeDefault \in BOOLEAN, Call(i, makeDefault)
      PROVE  ToldInv'
  BY <1>5 DEF Call, CallSetDisplayMode, SetDisplayMode
<1>6. ASSUME NEW node, NEW value, WriteNode(node, value)
      PROVE  ToldInv'
  BY <1>6 DEF WriteNode
<1>7. CASE UNCHANGED serviceVars
  BY <1>7 DEF serviceVars
<1> QED
  BY <1>1, <1>2, <1>3, <1>4, <1>5, <1>6, <1>7
  DEF ServiceNext, SetCalibration, SunlightSetEnabled, ReadingSetEnabled

\* A node keeps its contents or takes what a setter writes
\* (DisplayColorCalibration.cpp:60-66, SunlightEnhancement.cpp:47-50).
LEMMA NodesStep ==
  ASSUME NodesInv, [ServiceNext]_serviceVars
  PROVE  NodesInv'
<1>1. ASSUME UNCHANGED nodes
      PROVE  NodesInv'
  BY <1>1 DEF NodesInv
<1>2. CASE Start \/ Proceed \/ Die \/ GetThrows
  BY <1>1, <1>2 DEF Start, Proceed, Die, GetThrows
<1>3. CASE GetDisplayModes \/ GetDisplayModesBlindly \/ GetDisplayModesUnread
  BY <1>1, <1>3 DEF GetDisplayModes, GetDisplayModesBlindly, GetDisplayModesUnread
<1>4. ASSUME NEW i, NEW makeDefault, Call(i, makeDefault)
      PROVE  NodesInv'
  BY <1>1, <1>4 DEF Call
<1>5. ASSUME NEW colors \in Colors, SetCalibration(colors)
      PROVE  NodesInv'
  BY <1>5 DEF SetCalibration, WriteNode, NodesInv
<1>6. ASSUME NEW enabled \in BOOLEAN, SunlightSetEnabled(enabled)
      PROVE  NodesInv'
  BY <1>6 DEF SunlightSetEnabled, WriteNode, NodesInv
<1>7. ASSUME NEW enabled \in BOOLEAN, ReadingSetEnabled(enabled)
      PROVE  NodesInv'
  BY <1>7 DEF ReadingSetEnabled, WriteNode, NodesInv
<1>8. CASE UNCHANGED serviceVars
  BY <1>1, <1>8 DEF serviceVars
<1> QED
  BY <1>2, <1>3, <1>4, <1>5, <1>6, <1>7, <1>8 DEF ServiceNext

\* ServiceInv is an invariant of the whole service.
THEOREM ServiceInvariant == ServiceSpec => []ServiceInv
<1>1. ServiceInit => ServiceInv
  <2> SUFFICES ASSUME ServiceInit PROVE ServiceInv
    OBVIOUS
  <2>1. /\ mDefaultModeId = 0 /\ call = NoCall /\ proc = "down"
        /\ offered = {} /\ told = NoAnswer /\ file \in Contents
    BY DEF ServiceInit, DisplayInit
  <2>2. stray <=> DefaultIn(file) >= ModeMax
    BY Zenon DEF ServiceInit
  <2>3. ShowInv
    BY <2>1, <2>2, DisplayAssumption DEF ShowInv, Showable, Offered, DefaultIn, kModeMap
  <2>4. ToldInv
    BY <2>1 DEF ToldInv, NoAnswer, NoCall, AnswersKept, kModeMap
  <2>5. NodesInv
    BY DEF ServiceInit, NodesInv
  <2> QED BY <2>3, <2>4, <2>5 DEF ServiceInv
<1>2. DisplayInv /\ ServiceInv /\ [ServiceNext]_serviceVars => ServiceInv'
  BY ShowStep, ToldStep, NodesStep DEF ServiceInv
<1>3. ServiceSpec => []DisplayInv
  BY ServiceRefinesDisplay, DisplayInductive, PTL
<1> QED BY <1>1, <1>2, <1>3, PTL DEF ServiceSpec

\* What setDisplayMode has answered holds: after `true' the mode and the default are
\* there, after `false' the default is the old one (DisplayModes.cpp:103-123).
THEOREM AnswersAreKept == ServiceSpec => []AnswersKept
<1>1. ServiceInv => AnswersKept
  BY DEF ServiceInv, ToldInv
<1> QED BY ServiceInvariant, <1>1, PTL

\* The default can be shown if all clients keep to the modes they were offered, and
\* these came from a number in mode_max (DisplayModes.cpp:65-79).
THEOREM DefaultIsShowable == ServiceSpec => []DefaultShowable
<1>1. ServiceInv => DefaultShowable
  BY DEF ServiceInv, ShowInv, Showable, DefaultShowable
<1> QED BY ServiceInvariant, <1>1, PTL

=============================================================================
