---------------------------- MODULE DisplayProps ----------------------------
(***************************************************************************)
(* The properties of LiveDisplay.                                          *)
(***************************************************************************)
EXTENDS LiveDisplay

\* Types: the default is a mode of kModeMap, whatever the file holds
\* (DisplayModes.cpp:54-59).
DisplayTypeOK ==
  /\ file \in Contents
  /\ panel \in 0..ModeMax - 1
  /\ proc \in {"down", "constructing", "serving"} /\ registered \in 0..4
  /\ mDefaultModeId \in kModeMap
  /\ call \in {NoCall} \cup
       [at : {"open_mode", "open_default", "close_default", "close_mode"},
        id : kModeMap, makeDefault : BOOLEAN]
  /\ chosen \in kModeMap
  /\ spoilt \in BOOLEAN /\ refused \in BOOLEAN

\* The default survives: what a restart would read from the file is what the
\* service answers and what a caller has last made the default
\* (DisplayModes.cpp:44-62, DisplayModes.cpp:114-121), unless the process died
\* between emptying and filling the file, or the file could not be filled.
DefaultSurvives ==
  proc = "serving" /\ call = NoCall =>
    \/ spoilt
    \/ mDefaultModeId = chosen /\ DefaultIn(file) = chosen

\* Even a spoilt default is 0 or the chosen one after a restart, never a third.
NoThirdDefault ==
  proc = "constructing" => mDefaultModeId \in {0, chosen}

\* Before the first call is served the panel shows the default, unless there is
\* none or the kernel did not take it (DisplayModes.cpp:61, service.cpp:59-113).
RestoredBeforeServing ==
  proc = "constructing" /\ call = NoCall =>
    panel = mDefaultModeId \/ file = Unreadable \/ refused

-----------------------------------------------------------------------------
(* The inductive invariant behind the theorems of DisplayProofs.           *)

\* Who is calling setDisplayMode, and how far the call can be.
CallInv ==
  /\ proc = "down" => call = NoCall /\ registered = 0
  /\ proc = "constructing" => registered < 4
  /\ call # NoCall /\ proc = "constructing" =>
       call.id = mDefaultModeId /\ ~call.makeDefault /\ call.at \in {"open_mode", "close_mode"}

\* Memory and file agree on the default, or the file is empty and on its way to
\* being filled, or spoilt.
DefaultInv ==
  /\ spoilt => file = Unreadable
  /\ call # NoCall /\ call.at = "close_default" =>
       file = Unreadable /\ mDefaultModeId = call.id
  /\ ~spoilt /\ ~(call # NoCall /\ call.at = "close_default") =>
       /\ DefaultIn(file) = chosen
       /\ proc # "down" => mDefaultModeId = chosen
  /\ proc = "constructing" => mDefaultModeId = DefaultIn(file)

\* All of them together, kept by every step of DisplayModes.
DisplayInv == DisplayTypeOK /\ CallInv /\ DefaultInv /\ RestoredBeforeServing

=============================================================================
