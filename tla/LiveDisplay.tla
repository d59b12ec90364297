---------------------------- MODULE LiveDisplay -----------------------------
(***************************************************************************)
(* livedisplay/: the service that changes the panel's display mode and     *)
(* remembers a default mode in a file (DisplayModes.cpp), and its start    *)
(* (service.cpp).                                                          *)
(*                                                                         *)
(* Calls are served one at a time by the one thread of the pool.  Both     *)
(* files of setDisplayMode are buffered streams: the default file is       *)
(* emptied when it is opened and gets its contents when it is closed, and  *)
(* the panel gets its mode at the very end, when nobody looks at the       *)
(* result any more.                                                        *)
(***************************************************************************)
EXTENDS Integers

CONSTANTS
  ModeMax,       \* the kernel takes modes below this one (mode_max)
  Strange,       \* numbers that are no mode but may be in the default file
  Unreadable     \* contents that are no number, and no file

kModeMap == 0..5

ASSUME DisplayAssumption ==
  /\ ModeMax \in 1..6
  /\ Strange \cap kModeMap = {}
  /\ Unreadable \notin kModeMap \cup Strange

VARIABLES
  file,            \* contents of kDefaultPath
  panel,           \* the kernel's current mode
  proc, registered,\* of the process: what it is doing, interfaces registered
  mDefaultModeId,
  call,            \* the setDisplayMode under way
  chosen, spoilt,  \* history: the default last set, and was its file spoilt
  refused          \* history: the kernel did not take the last mode

diskVars == <<file, panel>>
procVars == <<proc, registered, mDefaultModeId, call>>
historyVars == <<chosen, spoilt, refused>>
displayVars == <<diskVars, procVars, historyVars>>

Contents == kModeMap \cup Strange \cup {Unreadable}

NoCall == [at |-> "none"]

\* Mutant: an unknown number is taken as it is.
AnyDefaultIn(f) == IF f = Unreadable THEN 0 ELSE f

\* The default that the constructor takes from the file.
DefaultIn(f) == IF f \in kModeMap THEN f ELSE 0

DisplayInit ==
  /\ file \in Contents
  /\ panel \in 0..ModeMax - 1
  /\ proc = "down" /\ registered = 0
  /\ mDefaultModeId = 0
  /\ call = NoCall
  /\ chosen = DefaultIn(file) /\ spoilt = FALSE /\ refused = FALSE

-----------------------------------------------------------------------------
(* service.cpp and the constructor.                                        *)

SetDisplayMode(id, makeDefault) ==
  call' = [at |-> "open_mode", id |-> id, makeDefault |-> makeDefault]

\* Mutant: the default is read and not applied.
ConstructOnly ==
  /\ proc = "down"
  /\ proc' = "constructing"
  /\ mDefaultModeId' = DefaultIn(file)
  /\ UNCHANGED <<diskVars, registered, call, historyVars>>

\* Without a default the panel is left as it is.
Construct ==
  /\ proc = "down"
  /\ proc' = "constructing"
  /\ mDefaultModeId' = DefaultIn(file)
  /\ IF file = Unreadable THEN call' = NoCall ELSE SetDisplayMode(DefaultIn(file), FALSE)
  /\ UNCHANGED <<diskVars, registered, historyVars>>

\* The four interfaces are registered in turn; then the pool serves them.
Register ==
  /\ proc = "constructing" /\ call = NoCall
  /\ registered' = registered + 1
  /\ proc' = IF registered' = 4 THEN "serving" ELSE proc
  /\ UNCHANGED <<diskVars, mDefaultModeId, call, historyVars>>

\* The process ends: main returns because a registration failed, or it dies in
\* the middle of anything.  init starts it again.
Exit ==
  /\ proc # "down"
  /\ proc' = "down" /\ registered' = 0
  /\ mDefaultModeId' = 0
  /\ call' = NoCall
  /\ spoilt' = (spoilt \/ call.at = "close_default")
  /\ refused' = FALSE
  /\ UNCHANGED <<diskVars, chosen>>

-----------------------------------------------------------------------------
(* setDisplayMode, for an id that is in kModeMap.                          *)

CallSetDisplayMode(id, makeDefault) ==
  /\ proc = "serving" /\ call = NoCall
  /\ SetDisplayMode(id, makeDefault)
  /\ UNCHANGED <<diskVars, proc, registered, mDefaultModeId, historyVars>>

OpenMode ==
  /\ call.at = "open_mode"
  /\ call' = [call EXCEPT !.at = IF call.makeDefault THEN "open_default" ELSE "close_mode"]
  /\ UNCHANGED <<diskVars, proc, registered, mDefaultModeId, historyVars>>

OpenModeFails ==
  /\ call.at = "open_mode"
  /\ call' = NoCall
  /\ refused' = TRUE
  /\ UNCHANGED <<diskVars, proc, registered, mDefaultModeId, chosen, spoilt>>

\* Mutant: the file is written, the variable is not.
OpenDefaultFileOnly ==
  /\ call.at = "open_default"
  /\ file' = Unreadable
  /\ call' = [call EXCEPT !.at = "close_default"]
  /\ UNCHANGED <<panel, proc, registered, mDefaultModeId, historyVars>>

OpenDefault ==
  /\ call.at = "open_default"
  /\ file' = Unreadable
  /\ mDefaultModeId' = call.id
  /\ call' = [call EXCEPT !.at = "close_default"]
  /\ UNCHANGED <<panel, proc, registered, historyVars>>

\* The caller is told `false', but the panel still gets the mode.
OpenDefaultFails ==
  /\ call.at = "open_default"
  /\ call' = [call EXCEPT !.at = "close_mode"]
  /\ UNCHANGED <<diskVars, proc, registered, mDefaultModeId, historyVars>>

\* Mutant: the mode that is shown is written, not the one that was asked for.
CloseDefaultWithPanel ==
  /\ call.at = "close_default"
  /\ file' = panel
  /\ call' = [call EXCEPT !.at = "close_mode"]
  /\ chosen' = call.id /\ spoilt' = FALSE
  /\ UNCHANGED <<panel, proc, registered, mDefaultModeId, refused>>

CloseDefault ==
  /\ call.at = "close_default"
  /\ file' = call.id
  /\ call' = [call EXCEPT !.at = "close_mode"]
  /\ chosen' = call.id /\ spoilt' = FALSE
  /\ UNCHANGED <<panel, proc, registered, mDefaultModeId, refused>>

\* No room for it: nobody looks at the result of the close.
CloseDefaultFails ==
  /\ call.at = "close_default"
  /\ call' = [call EXCEPT !.at = "close_mode"]
  /\ chosen' = call.id /\ spoilt' = TRUE
  /\ UNCHANGED <<diskVars, proc, registered, mDefaultModeId, refused>>

CloseMode ==
  /\ call.at = "close_mode" /\ call.id < ModeMax
  /\ panel' = call.id
  /\ call' = NoCall
  /\ refused' = FALSE
  /\ UNCHANGED <<file, proc, registered, mDefaultModeId, chosen, spoilt>>

\* The kernel refuses, and has to if the mode is beyond mode_max.
CloseModeFails ==
  /\ call.at = "close_mode"
  /\ call' = NoCall
  /\ refused' = TRUE
  /\ UNCHANGED <<diskVars, proc, registered, mDefaultModeId, chosen, spoilt>>

-----------------------------------------------------------------------------

SetSteps ==
  \/ OpenMode \/ OpenModeFails \/ OpenDefault \/ OpenDefaultFails
  \/ CloseDefault \/ CloseDefaultFails
  \/ CloseMode \/ CloseModeFails

DisplayNext ==
  \/ Construct \/ Register \/ Exit \/ SetSteps
  \/ \E id \in kModeMap, makeDefault \in BOOLEAN : CallSetDisplayMode(id, makeDefault)

DisplaySpec == DisplayInit /\ [][DisplayNext]_displayVars

=============================================================================
