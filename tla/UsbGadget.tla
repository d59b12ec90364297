----------------------------- MODULE UsbGadget ------------------------------
(***************************************************************************)
(* ramdisk/init.samsungexynos7880.usb.rc: the triggers by which init sets  *)
(* up the USB gadget when sys.usb.config changes.                          *)
(*                                                                         *)
(* init takes one property event at a time from a queue, decides which     *)
(* triggers it fires, and runs their commands one by one.  It expands      *)
(* ${sys.usb.config} when it runs a command, while anybody may have set    *)
(* the property again.  Outside this repository are adbd, which sets       *)
(* sys.usb.ffs.ready; the trigger of the configuration "none"; and the     *)
(* framework, which asks for a configuration by setting "none", waiting    *)
(* for sys.usb.state to show it, setting the configuration and waiting     *)
(* again, and gives up on either wait after a while.                       *)
(***************************************************************************)
EXTENDS DeviceInit, Sequences

CONSTANTS
  Requested,       \* configurations that are asked for
  MaxRequests,     \* bound on the requests
  MaxDeaths        \* bound on the deaths of adbd

\* Configurations with one trigger, and with two: one starts adbd, the other
\* waits for sys.usb.ffs.ready.
PlainConfigs ==
  {"mtp", "midi", "ncm", "rndis", "ptp", "rndis,dm", "rndis,acm,dm", "acm,dm",
   "sec_charging", "vzw_charging", "mass_storage", "mass_storage,acm",
   "rndis,diag", "diag,acm", "rndis,acm,diag", "mtp,conn_gadget"}
AdbConfigs ==
  {"adb", "mtp,adb", "midi,adb", "ncm,adb", "rndis,adb", "ptp,adb",
   "rndis,acm,dm,adb", "acm,dm,adb", "sec_charging,adb", "vzw_charging,adb",
   "mass_storage,adb", "dm,acm,adb", "mtp,conn_gadget,adb"}
Triggered == PlainConfigs \cup AdbConfigs

ProductOf(c) ==
  CASE c \in {"midi", "midi,adb"} -> "686C"
    [] c \in {"ncm", "ncm,adb", "acm,dm", "acm,dm,adb", "dm,acm,adb", "diag,acm"} -> "685d"
    [] c = "rndis" -> "6863"
    [] c \in {"rndis,adb", "rndis,acm,diag"} -> "6864"
    [] c = "ptp" -> "6865"
    [] c = "ptp,adb" -> "6866"
    [] c \in {"rndis,dm", "rndis,acm,dm", "rndis,acm,dm,adb", "rndis,diag"} -> "6862"
    [] c = "mass_storage" -> "685B"
    [] c \in {"mass_storage,adb", "mass_storage,acm"} -> "685e"
    [] OTHER -> "6860"

\* What the trigger of c writes to `functions': a word of its own, or what
\* sys.usb.config is by now.
FunctionsOf(c, now) ==
  CASE c \in {"sec_charging", "vzw_charging"} -> "mtp"
    [] c \in {"sec_charging,adb", "vzw_charging,adb"} -> "mtp,adb"
    [] c \in {"ncm", "ncm,adb"} -> c
    [] OTHER -> now

\* Mutant: the triggers with adb forget the class.
WritesClassWithoutAdb(c) == c \in {"none", "ncm", "rndis", "mtp,conn_gadget"}

\* The triggers that write a device class, and the class of a gadget otherwise.
WritesClass(c) ==
  c \in {"none", "ncm", "ncm,adb", "rndis", "rndis,adb", "mtp,conn_gadget", "mtp,conn_gadget,adb"}
ClassOf(c) ==
  CASE c \in {"ncm", "ncm,adb"} -> 2
    [] c \in {"rndis", "rndis,adb"} -> 224
    [] OTHER -> 0

ASSUME UsbAssumption ==
  /\ Requested \cap {"none", "ready", Unset} = {}
  /\ MaxRequests \in Nat /\ MaxDeaths \in Nat

VARIABLES
  config, state,   \* sys.usb.config, sys.usb.state
  ready,           \* sys.usb.ffs.ready is 1
  events,          \* property events that init has not looked at: a value of
                   \* sys.usb.config, or "ready" for sys.usb.ffs.ready=1
  running,         \* the trigger under way and its next command
  gadget,          \* the nodes enable, idProduct, functions, bDeviceClass
  adbd,            \* "stopped", "starting" or "ready"
  client,          \* the request under way
  requests, deaths,\* so far
  overtaken        \* history: adbd was stopped before init saw that it is ready

usbVars == <<config, state, ready, events, running, gadget, adbd, client,
             requests, deaths, overtaken>>
allVars == <<bootVars, usbVars>>

Idle == [of |-> "nothing", at |-> "idle"]
NoRequest == [at |-> "idle"]
HasEvent(e) == \E i \in 1..Len(events) : events[i] = e

UsbInit ==
  /\ BootInit
  /\ config = Unset /\ state = Unset /\ ready = FALSE
  /\ events = <<>> /\ running = Idle
  /\ gadget = [enabled |-> FALSE, product |-> Unset, functions |-> Unset, class |-> 0]
  /\ adbd = "stopped" /\ client = NoRequest
  /\ requests = 0 /\ deaths = 0 /\ overtaken = FALSE

\* setprop sys.usb.config
SetConfig(c) == config' = c /\ events' = Append(events, c)

-----------------------------------------------------------------------------
(* init: one event, then the commands of the trigger that it has fired.    *)

\* Mutant: the configurations with adb do not wait.
SetUpAtOnce(e) == IF e \in Triggered \cup {"none"} THEN e ELSE "nothing"

\* The configuration that the event e sets up.  The property of the event counts
\* as it was when it was set, the other one as it is now.
SetUpBy(e) ==
  IF e = "ready" THEN IF config \in AdbConfigs THEN config ELSE "nothing"
  ELSE IF e \in AdbConfigs /\ ~ready THEN "nothing"
  ELSE IF e \in Triggered \cup {"none"} THEN e ELSE "nothing"

\* Mutant: no trigger starts adbd.
StartedByNothing(e) == adbd

\* start adbd
StartedBy(e) == IF e \in AdbConfigs /\ adbd = "stopped" THEN "starting" ELSE adbd

FirstCommand(c) == IF c = "none" THEN "stop" ELSE "off"

PopEvent ==
  /\ phase = "up" /\ running = Idle /\ events # <<>>
  /\ LET c == SetUpBy(Head(events))
     IN  running' = IF c = "nothing" THEN Idle ELSE [of |-> c, at |-> FirstCommand(c)]
  /\ adbd' = StartedBy(Head(events))
  /\ events' = Tail(events)
  /\ UNCHANGED <<bootVars, config, state, ready, gadget, client, requests, deaths, overtaken>>

\* The order of the commands.
After(c, s) ==
  CASE s = "stop" -> "unready"
    [] s = "unready" -> "off"
    [] s = "off" -> IF c = "none" THEN "class" ELSE "product"
    [] s = "product" -> "functions"
    [] s = "functions" -> IF WritesClass(c) THEN "class" ELSE "on"
    [] s = "class" -> IF c = "none" THEN "state" ELSE "on"
    [] s = "on" -> "state"
    [] OTHER -> "idle"

Command(s) ==
  /\ running.at = s
  /\ running' = IF After(running.of, s) = "idle" THEN Idle
                ELSE [running EXCEPT !.at = After(running.of, s)]
  /\ UNCHANGED <<bootVars, config, client, requests, deaths>>

WriteGadget(s, field, value) ==
  /\ Command(s)
  /\ gadget' = [gadget EXCEPT ![field] = value]
  /\ UNCHANGED <<state, ready, events, adbd, overtaken>>

Off == WriteGadget("off", "enabled", FALSE)
WriteProduct == WriteGadget("product", "product", ProductOf(running.of))
WriteFunctions == WriteGadget("functions", "functions", FunctionsOf(running.of, config))
WriteClass == WriteGadget("class", "class", ClassOf(running.of))
On == WriteGadget("on", "enabled", TRUE)

\* setprop sys.usb.state ${sys.usb.config}
SetState ==
  /\ Command("state")
  /\ state' = config
  /\ UNCHANGED <<ready, events, gadget, adbd, overtaken>>

\* The first commands of "none", before it turns the gadget off.
StopAdbd ==
  /\ Command("stop")
  /\ adbd' = "stopped"
  /\ UNCHANGED <<state, ready, events, gadget, overtaken>>

Unready ==
  /\ Command("unready")
  /\ ready' = FALSE
  /\ overtaken' = (overtaken \/ HasEvent("ready"))
  /\ UNCHANGED <<state, events, gadget, adbd>>

InitSteps ==
  \/ PopEvent \/ Off \/ WriteProduct \/ WriteFunctions \/ WriteClass \/ On \/ SetState
  \/ StopAdbd \/ Unready

-----------------------------------------------------------------------------
(* The others.                                                             *)

Boot ==
  /\ LoadProperties \/ LoadThrows
  /\ UNCHANGED usbVars

\* sys.usb.config gets the configuration that was last in use.
BootWith(c) ==
  /\ OnBoot
  /\ SetConfig(c)
  /\ UNCHANGED <<state, ready, running, gadget, adbd, client, requests, deaths, overtaken>>

AdbdReady ==
  /\ adbd = "starting"
  /\ adbd' = "ready"
  /\ ready' = TRUE /\ events' = Append(events, "ready")
  /\ UNCHANGED <<bootVars, config, state, running, gadget, client, requests, deaths, overtaken>>

\* init starts it again.
AdbdDies ==
  /\ adbd # "stopped" /\ deaths < MaxDeaths
  /\ adbd' = "starting" /\ deaths' = deaths + 1
  /\ UNCHANGED <<bootVars, config, state, ready, events, running, gadget, client, requests, overtaken>>

Request(c) ==
  /\ phase = "up" /\ client = NoRequest /\ requests < MaxRequests
  /\ requests' = requests + 1
  /\ SetConfig("none")
  /\ client' = [at |-> "none", want |-> c, early |-> FALSE]
  /\ UNCHANGED <<bootVars, state, ready, running, gadget, adbd, deaths, overtaken>>

\* init has not finished with "none", whatever sys.usb.state says.
NoneUnfinished == HasEvent("none") \/ running.of = "none"

NoneShown ==
  /\ client.at = "none" /\ state = "none"
  /\ SetConfig(client.want)
  /\ client' = [client EXCEPT !.at = "shown", !.early = NoneUnfinished]
  /\ UNCHANGED <<bootVars, state, ready, running, gadget, adbd, requests, deaths, overtaken>>

\* The request is answered, or given up.
EndRequest ==
  /\ client # NoRequest
  /\ client' = NoRequest
  /\ UNCHANGED <<bootVars, config, state, ready, events, running, gadget, adbd, requests, deaths, overtaken>>

UsbNext ==
  \/ Boot \/ InitSteps \/ AdbdReady \/ AdbdDies \/ NoneShown \/ EndRequest
  \/ \E c \in Requested \cup {"none"} : BootWith(c)
  \/ \E c \in Requested : Request(c)

UsbSpec == UsbInit /\ [][UsbNext]_allVars

\* init runs what it has to run, and adbd comes up; nobody has to ask.
UsbFairSpec ==
  /\ UsbSpec
  /\ WF_allVars(InitSteps)
  /\ WF_allVars(AdbdReady)

=============================================================================
