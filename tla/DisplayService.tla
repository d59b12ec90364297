--------------------------- MODULE DisplayService ---------------------------
(***************************************************************************)
(* The whole livedisplay service: the display modes of LiveDisplay with    *)
(* their getters and what the callers are told, and the other three        *)
(* interfaces, which keep their state in nodes of the kernel.              *)
(*                                                                         *)
(* One process serves all of them: a getter that throws, because a node    *)
(* holds no number, takes the display modes down with it.                  *)
(***************************************************************************)
EXTENDS LiveDisplay

CONSTANTS
  Colors,          \* what sensorRGB may hold that is a list of numbers
  NoNumber         \* contents of a node that std::stoi does not take

ASSUME NodeAssumption == NoNumber \notin Colors \cup Int

VARIABLES
  nodes,           \* contents of sensorRGB, lux and accessibility
  offered, blind,  \* history: the modes last offered; were any ever offered
                   \* without a number from mode_max
  stray,           \* history: a mode was asked for that had not been offered
  told             \* history: the last answer of setDisplayMode

answerVars == <<offered, blind, stray, told>>
serviceVars == <<displayVars, nodes, answerVars>>

\* An answer, with the default that there was before the call.
NoAnswer == [ok |-> FALSE, id |-> 0, makeDefault |-> FALSE, before |-> -1]

-----------------------------------------------------------------------------
(* DisplayModes: the getters, and the answers.                             *)

\* Mutant: the bound itself is offered.
OfferedUpTo(value) == {id \in kModeMap : id <= value}

\* getDisplayModes, for what it has read from mode_max.
Offered(value) == {id \in kModeMap : id < value}

\* getCurrentDisplayMode, for what it has read: the panel's mode, or Unreadable.
CurrentMode(read) == IF read \in kModeMap THEN read ELSE mDefaultModeId

\* mode_max holds a number, or a text that is none, which std::istream reads as 0.
GetDisplayModes ==
  /\ proc = "serving" /\ call = NoCall
  /\ offered' \in {Offered(ModeMax), Offered(0)}
  /\ UNCHANGED <<displayVars, nodes, blind, stray, told>>

\* Without mode_max all modes are offered.
GetDisplayModesBlindly ==
  /\ proc = "serving" /\ call = NoCall
  /\ offered' = Offered(6) /\ blind' = TRUE
  /\ UNCHANGED <<displayVars, nodes, stray, told>>

\* mode_max can be opened and not be read, or is empty: `value' is not initialised
\* and nobody looks whether the read has failed.
GetDisplayModesUnread ==
  /\ proc = "serving" /\ call = NoCall
  /\ \E value \in 0..6 : offered' = Offered(value)
  /\ blind' = TRUE
  /\ UNCHANGED <<displayVars, nodes, stray, told>>

Call(id, makeDefault) ==
  /\ CallSetDisplayMode(id, makeDefault)
  /\ stray' = (stray \/ id \notin offered)
  /\ told' = [ok |-> TRUE, id |-> id, makeDefault |-> makeDefault, before |-> mDefaultModeId]
  /\ UNCHANGED <<nodes, offered, blind>>

\* setDisplayMode goes on, and returns `false' if a file could not be opened.
Failing == OpenModeFails \/ OpenDefaultFails
Proceed ==
  /\ SetSteps
  /\ told' = IF Failing THEN [told EXCEPT !.ok = FALSE] ELSE told
  /\ UNCHANGED <<nodes, offered, blind, stray>>

Start ==
  /\ Construct \/ Register
  /\ UNCHANGED <<nodes, answerVars>>

\* The kernel keeps its nodes; who asked the old process has no answer.
Die ==
  /\ Exit
  /\ told' = NoAnswer
  /\ UNCHANGED <<nodes, offered, blind, stray>>

-----------------------------------------------------------------------------
(* The other interfaces.                                                   *)

\* WriteStringToFile on a node, whose result the setters return: the kernel takes
\* the value, or the write fails and the node stays as it is.  (An empty
\* calibration writes nothing either.)
WriteNode(node, value) ==
  /\ proc = "serving" /\ call = NoCall
  /\ nodes' \in {nodes, [nodes EXCEPT ![node] = value]}
  /\ UNCHANGED <<displayVars, answerVars>>

\* setCalibration checks nothing: the colours are whatever the caller gives.
SetCalibration(colors) == WriteNode("sensorRGB", colors)
SunlightSetEnabled(enabled) == WriteNode("lux", IF enabled THEN 40000 ELSE 0)
ReadingSetEnabled(enabled) == WriteNode("accessibility", IF enabled THEN "4" ELSE "0")

\* Nobody catches what std::stoi throws in getCalibration and isEnabled.
GetThrows ==
  /\ proc = "serving" /\ call = NoCall
  /\ nodes.sensorRGB = NoNumber \/ nodes.lux = NoNumber
  /\ Die

-----------------------------------------------------------------------------

\* What the kernel starts with; who made the first default is not known.
ServiceInit ==
  /\ DisplayInit
  /\ nodes \in [sensorRGB : Colors \cup {NoNumber}, lux : {0, NoNumber}, accessibility : {"0"}]
  /\ offered = {} /\ blind = FALSE /\ stray = (DefaultIn(file) >= ModeMax)
  /\ told = NoAnswer

ServiceNext ==
  \/ Start \/ Proceed \/ Die \/ GetThrows
  \/ GetDisplayModes \/ GetDisplayModesBlindly \/ GetDisplayModesUnread
  \/ \E id \in kModeMap, makeDefault \in BOOLEAN : Call(id, makeDefault)
  \/ \E colors \in Colors : SetCalibration(colors)
  \/ \E enabled \in BOOLEAN : SunlightSetEnabled(enabled) \/ ReadingSetEnabled(enabled)

ServiceSpec == ServiceInit /\ [][ServiceNext]_serviceVars

=============================================================================
