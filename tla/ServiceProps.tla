---------------------------- MODULE ServiceProps ----------------------------
(***************************************************************************)
(* The properties of the livedisplay service as its clients see it.        *)
(***************************************************************************)
EXTENDS DisplayProps, DisplayService

\* Mode id is the default, in the process and on the disk.
Stored(id) == mDefaultModeId = id /\ (spoilt \/ DefaultIn(file) = id)

\* What setDisplayMode has answered holds as long as the process lives
\* (DisplayModes.cpp:103-123).  After `true' getCurrentDisplayMode answers the mode,
\* unless the kernel refused it behind the answer or cannot be read (then the
\* default is answered, DisplayModes.cpp:82), and a default has been stored, unless
\* its file was spoilt.  After `false' the default is the one from before the call,
\* in the process and on the disk, although the panel may show the new mode.
AnswersKept ==
  proc = "serving" /\ call = NoCall /\ told # NoAnswer =>
    IF told.ok
    THEN /\ \A read \in {panel, Unreadable} :
              \/ CurrentMode(read) = told.id
              \/ refused
              \/ read = Unreadable /\ ~told.makeDefault
         /\ told.makeDefault => Stored(told.id)
    ELSE Stored(told.before)

\* A client that chooses among the modes it was offered never makes a default that
\* the panel cannot show: setDisplayMode does not look at mode_max, so this hangs
\* on getDisplayModes (DisplayModes.cpp:65-79, DisplayModes.cpp:103-107).  It fails
\* when mode_max is missing (all modes are offered) and when it is there and cannot
\* be read (any may be: `value' is not initialised, DisplayModes.cpp:67-70).
DefaultShowable ==
  mDefaultModeId < ModeMax \/ blind \/ stray

-----------------------------------------------------------------------------
(* The inductive invariant behind the theorems of DisplayProofs: beside    *)
(* DisplayInv, where a mode beyond mode_max could come from, how far a     *)
(* call has kept what its caller will be told, and the two nodes.          *)

Showable(id) == id < ModeMax \/ blind \/ stray

ShowInv ==
  /\ offered \subseteq Offered(ModeMax) \/ blind
  /\ Showable(mDefaultModeId)
  /\ file \in kModeMap => Showable(file)
  /\ call # NoCall => Showable(call.id)

ToldInv ==
  /\ told = NoAnswer \/ told \in [ok : BOOLEAN, id : kModeMap, makeDefault : BOOLEAN, before : kModeMap]
  /\ told # NoAnswer => proc = "serving"
  /\ proc = "serving" /\ call # NoCall =>
       /\ told # NoAnswer
       /\ told.id = call.id /\ told.makeDefault = call.makeDefault
       /\ call.at \in {"open_mode", "open_default"} => told.ok /\ Stored(told.before)
       /\ call.at = "close_default" => told.ok
       /\ call.at = "close_mode" /\ told.ok /\ told.makeDefault => Stored(told.id)
       /\ ~told.ok => Stored(told.before)
  /\ call # NoCall /\ call.at = "close_default" => mDefaultModeId = call.id
  /\ proc # "down" /\ (call = NoCall \/ call.at # "close_default") => Stored(mDefaultModeId)
  /\ AnswersKept

\* A node holds what the kernel started with or what a setter has written.
NodesInv ==
  nodes \in [sensorRGB : Colors \cup {NoNumber}, lux : {0, 40000, NoNumber},
              accessibility : {"0", "4"}]

\* All of them together, kept by every step of the service.
ServiceInv == ShowInv /\ ToldInv /\ NodesInv

=============================================================================
