------------------------------ MODULE UsbProps ------------------------------
(***************************************************************************)
(* The properties of UsbGadget.                                            *)
(***************************************************************************)
EXTENDS UsbGadget

Configs == Requested \cup {"none", Unset}
Steps == {"stop", "unready", "off", "product", "functions", "class", "on", "state"}

Gadgets ==
  [enabled : BOOLEAN,
   product : {Unset} \cup {ProductOf(c) : c \in Requested},
   functions : {Unset} \cup {FunctionsOf(c, now) : c \in Requested, now \in Configs},
   class : {0} \cup {ClassOf(c) : c \in Requested}]

\* Only "none" stops adbd, and it has no product and no functions.
OwnCommand(r) ==
  /\ r.at \in {"product", "functions"} => r.of # "none"
  /\ r.at \in {"stop", "unready"} => r.of = "none"

\* Types: what the properties, the nodes and the actors of the gadget can hold.
UsbTypeOK ==
  /\ bootloader \in Bootloaders /\ phase \in {"start", "loaded", "up", "aborted"}
  /\ config \in Configs /\ state \in Configs /\ ready \in BOOLEAN
  /\ events \in Seq((Configs \ {Unset}) \cup {"ready"})
  /\ running \in {Idle} \cup [of : (Requested \cap Triggered) \cup {"none"}, at : Steps]
  /\ OwnCommand(running)
  /\ gadget \in Gadgets
  /\ adbd \in {"stopped", "starting", "ready"}
  /\ client \in {NoRequest} \cup [at : {"none", "shown"}, want : Requested, early : BOOLEAN]
  /\ requests \in 0..MaxRequests /\ deaths \in 0..MaxDeaths
  /\ overtaken \in BOOLEAN

GadgetShows(c) ==
  gadget = [enabled |-> TRUE, product |-> ProductOf(c),
            functions |-> FunctionsOf(c, c), class |-> ClassOf(c)]

\* A configuration is never forgotten: as soon as init has nothing more to do, the
\* gadget shows the configuration that is asked for, with its own product,
\* functions and device class (usb.rc:24-307), or waits for adbd to come up.
Settles ==
  running = Idle /\ events = <<>> /\ config \in Triggered =>
    \/ GadgetShows(config) /\ state = config
    \/ config \in AdbConfigs /\ adbd = "starting"

\* An answer is true: sys.usb.state gets the configuration that the framework
\* waits for (usb.rc:30) only when the gadget shows it, unless the framework has
\* taken an old "none" in sys.usb.state for the end of this one.
AnswerTrue ==
  [][client.at = "shown" /\ ~client.early /\ state' # state /\ state' = client.want
       => GadgetShows(client.want)]_allVars

\* A configuration with adb is set up only after adbd has said that it is ready
\* (usb.rc:35), unless "none" has stopped adbd before init saw that.
AdbdComesFirst ==
  running.of \in AdbConfigs => ready \/ overtaken

\* The host never sees the gadget without the name of the model in the bootloader,
\* even where the device has to be forced (usb.rc:15, init_sec.cpp:39-63).
EnabledNamed ==
  gadget.enabled => iProduct = bootloader.model

\* Whatever is asked for is shown in the end, as long as nothing else is asked for.
ConfigShown ==
  \A c \in Requested \cap Triggered :
    config = c ~> (GadgetShows(c) \/ config # c)

\* "rndis,acm,diag and diag,acm,adb used for Hidden Menu" (usb.rc:245).
HiddenMenuShown ==
  config = "diag,acm,adb" ~>
    \/ gadget.enabled /\ gadget.functions = "diag,acm,adb"
    \/ config # "diag,acm,adb"

-----------------------------------------------------------------------------
(* The inductive invariant behind the theorems of UsbProofs.               *)

NoneBehind(i) == \E j \in i..Len(events) : events[j] = "none"

\* Events come in the order of the settings: the last one of sys.usb.config is what
\* it is now, and so is every one behind the last "none".
LastInv ==
  \A i \in 1..Len(events) :
    events[i] # "ready" => \E j \in i..Len(events) : events[j] = config
FreshInv ==
  \A i \in 1..Len(events) :
    events[i] \notin {"none", "ready"} /\ ~NoneBehind(i) => events[i] = config

\* A trigger under way is for config, unless another event is waiting.
RunningInv ==
  /\ running.of \in Triggered /\ ~HasEvent("none") => running.of = config
  /\ running.of = "none" /\ config # "none" => HasEvent(config)

\* The framework's waits, and what is there before the boot is over.
PhaseInv ==
  /\ client.at = "none" => config = "none"
  /\ client.at = "shown" => config = client.want
  /\ phase # "up" =>
       events = <<>> /\ running = Idle /\ ~gadget.enabled /\ gadget.class = 0
       /\ config = Unset /\ client = NoRequest /\ adbd = "stopped"
  /\ phase = "up" => config # Unset
  /\ phase \in {"loaded", "up"} => model = bootloader.model
  /\ phase = "up" => iProduct = bootloader.model

AdbdInv ==
  /\ adbd = "ready" => ready
  /\ running.at = "unready" => adbd = "stopped"
  /\ running.of \in AdbConfigs => ready \/ overtaken
  /\ HasEvent("ready") => ready \/ overtaken

\* A class that was written for another configuration is reset before init gets to
\* the next one.
ClassInv ==
  \/ HasEvent("none")
  \/ running.of = "none" /\ running.at \in {"stop", "unready", "off", "class"}
  \/ gadget.class \in {0, ClassOf(config)}

\* What the trigger under way has already done, if it is the one of config.
Past(steps) == running.of = config /\ running.at \in steps
SetUpInv ==
  config \in Triggered /\ ~HasEvent("none") =>
    /\ Past({"functions", "class", "on", "state"}) => gadget.product = ProductOf(config)
    /\ Past({"class", "on", "state"}) => gadget.functions = FunctionsOf(config, config)
    /\ Past({"on", "state"}) => gadget.class = ClassOf(config)
    /\ Past({"state"}) => gadget.enabled

\* Nothing is left to be done for config, or it is under way.
SettledInv ==
  config \in Triggered /\ ~HasEvent(config) /\ running = Idle =>
    \/ GadgetShows(config) /\ state = config
    \/ config \in AdbConfigs /\ (adbd = "starting" \/ HasEvent("ready"))

\* Who did not come too early waits while "none" is over.
AnswerInv ==
  client.at = "shown" /\ ~client.early => ~NoneUnfinished

\* All of them together, kept by every step of init and the others.
UsbInv ==
  /\ UsbTypeOK /\ LastInv /\ FreshInv /\ RunningInv /\ PhaseInv /\ AdbdInv /\ ClassInv
  /\ SetUpInv /\ SettledInv /\ AnswerInv

=============================================================================
