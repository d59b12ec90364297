----------------------------- MODULE UsbProofs ------------------------------
(***************************************************************************)
(* The theorems about UsbGadget: UsbInv is inductive, part by part, and    *)
(* the properties of UsbProps follow from it.                              *)
(***************************************************************************)
EXTENDS UsbProps, TLAPS

LEMMA GadgetType ==
  ASSUME NEW b \in BOOLEAN
  PROVE  [enabled |-> b, product |-> Unset, functions |-> Unset, class |-> 0] \in Gadgets
  BY DEF Gadgets

LEMMA GadgetEnables ==
  ASSUME NEW g \in Gadgets, NEW b \in BOOLEAN
  PROVE  [g EXCEPT !["enabled"] = b] \in Gadgets
  BY DEF Gadgets

LEMMA ClientType ==
  ASSUME NEW b \in BOOLEAN, NEW a \in {"none", "shown"}, NEW w \in Requested
  PROVE  [at |-> a, want |-> w, early |-> b]
           \in [at : {"none", "shown"}, want : Requested, early : BOOLEAN]
  OBVIOUS

\* The tables of the triggers.
LEMMA Tables ==
  /\ {"none", "ready", "nothing", Unset} \cap Triggered = {}
  /\ PlainConfigs \cap AdbConfigs = {} /\ Triggered = PlainConfigs \cup AdbConfigs
  /\ ClassOf("none") = 0
  BY DEF Triggered, PlainConfigs, AdbConfigs, Unset, ClassOf

LEMMA UnwrittenClass == ASSUME NEW c, ~WritesClass(c) PROVE ClassOf(c) = 0
  BY DEF ClassOf, WritesClass

\* The order of the commands.
LEMMA Order ==
  ASSUME NEW c
  PROVE  /\ After(c, "stop") = "unready" /\ After(c, "unready") = "off"
         /\ After(c, "off") = IF c = "none" THEN "class" ELSE "product"
         /\ After(c, "product") = "functions"
         /\ After(c, "functions") = IF WritesClass(c) THEN "class" ELSE "on"
         /\ After(c, "class") = IF c = "none" THEN "state" ELSE "on"
         /\ After(c, "on") = "state" /\ After(c, "state") = "idle"
  BY DEF After

LEMMA UsbInitInv == UsbInit => UsbInv
<1> SUFFICES ASSUME UsbInit PROVE UsbInv
  OBVIOUS
<1>1. UsbTypeOK
  <2>1. bootloader \in Bootloaders /\ phase \in {"start", "loaded", "up", "aborted"}
        /\ config \in Configs /\ state \in Configs /\ running = Idle /\ client = NoRequest
        /\ adbd \in {"stopped", "starting", "ready"}
    BY DEF UsbInit, BootInit, Configs
  <2>2. ready \in BOOLEAN /\ overtaken \in BOOLEAN
    BY Zenon DEF UsbInit
  <2>3. events \in Seq((Configs \ {Unset}) \cup {"ready"})
    BY DEF UsbInit
  <2>4. gadget \in Gadgets
    BY GadgetType DEF UsbInit
  <2>5. requests \in 0..MaxRequests /\ deaths \in 0..MaxDeaths
    BY UsbAssumption DEF UsbInit
  <2> QED
    BY <2>1, <2>2, <2>3, <2>4, <2>5 DEF UsbTypeOK, OwnCommand, Idle
<1>2. LastInv /\ FreshInv /\ RunningInv
  BY DEF LastInv, FreshInv, RunningInv, UsbInit, Idle, Triggered, PlainConfigs, AdbConfigs
<1>3. PhaseInv
  BY DEF PhaseInv, UsbInit, BootInit, NoRequest
<1>4. AdbdInv
  BY DEF AdbdInv, UsbInit, Idle, HasEvent, AdbConfigs
<1>5. ClassInv /\ SetUpInv /\ SettledInv
  BY DEF ClassInv, SetUpInv, SettledInv, UsbInit, Unset, Triggered, PlainConfigs, AdbConfigs
<1>6. AnswerInv
  BY DEF AnswerInv, UsbInit, NoRequest
<1> QED
  BY <1>1, <1>2, <1>3, <1>4, <1>5, <1>6 DEF UsbInv

\* What a command does to the trigger under way.
LEMMA CommandStep ==
  ASSUME UsbTypeOK, NEW s \in Steps, Command(s)
  PROVE  /\ running.at = s /\ running # Idle
         /\ running.of \in (Requested \cap Triggered) \cup {"none"}
         /\ \/ running' = Idle /\ s = "state"
            \/ /\ running' \in [of : (Requested \cap Triggered) \cup {"none"}, at : Steps]
               /\ running'.of = running.of /\ running'.at = After(running.of, s) /\ s # "state"
         /\ OwnCommand(running')
         /\ UNCHANGED <<bootVars, config, client, requests, deaths>>
<1>1. running \in [of : (Requested \cap Triggered) \cup {"none"}, at : Steps]
  BY DEF UsbTypeOK, Command, Steps, Idle
<1>2. After(running.of, s) \in Steps \/ (s = "state" /\ After(running.of, s) = "idle")
  <2>1. CASE s \in {"stop", "unready", "off", "product"}
    BY <2>1, Order DEF Steps
  <2>2. CASE s = "functions"
    BY <2>2, Order DEF Steps
  <2>3. CASE s = "class"
    BY <2>3, Order DEF Steps
  <2>4. CASE s \in {"on", "state"}
    BY <2>4, Order DEF Steps
  <2> QED
    BY <2>1, <2>2, <2>3, <2>4 DEF Steps
<1>3. s # "state" => After(running.of, s) # "idle"
  BY <1>2 DEF Steps
<1>4. s = "state" => After(running.of, s) = "idle"
  BY Order
<1>5. running # Idle
  BY DEF Command, Idle, Steps
<1>6. running' # Idle =>
        OwnCommand([of |-> running.of, at |-> After(running.of, s)])
  <2>1. s \in {"product", "functions"} => running.of # "none"
    BY DEF UsbTypeOK, Command, OwnCommand
  <2>2. s \in {"stop", "unready"} => running.of = "none"
    BY DEF UsbTypeOK, Command, OwnCommand
  <2> QED
    BY <2>1, <2>2, Order DEF Steps, OwnCommand
<1>7. running'.at = "idle" \/ (running'.of = running.of /\ running'.at = After(running.of, s))
  BY <1>1 DEF Command, Idle
<1> QED
  BY <1>1, <1>2, <1>3, <1>4, <1>5, <1>6, <1>7 DEF Command, Idle, OwnCommand

LEMMA TypeStep == UsbTypeOK /\ [UsbNext]_allVars => UsbTypeOK'
<1> SUFFICES ASSUME UsbTypeOK, [UsbNext]_allVars PROVE UsbTypeOK'
  OBVIOUS
<1> USE UsbAssumption
<1>1. CASE Boot
  BY <1>1 DEF Boot, LoadProperties, LoadThrows, usbVars, UsbTypeOK
<1>2. ASSUME NEW c \in Requested \cup {"none"}, BootWith(c) PROVE UsbTypeOK'
  <2>1. events' \in Seq((Configs \ {Unset}) \cup {"ready"}) /\ config' \in Configs
    BY <1>2 DEF BootWith, SetConfig, UsbTypeOK, Configs, Unset
  <2> QED
    BY <1>2, <2>1 DEF BootWith, OnBoot, UsbTypeOK
<1>3. CASE PopEvent
  <2>1. /\ Head(events) \in (Configs \ {Unset}) \cup {"ready"}
        /\ events' \in Seq((Configs \ {Unset}) \cup {"ready"})
    BY <1>3 DEF PopEvent, UsbTypeOK
  <2>2. running' \in {Idle} \cup [of : (Requested \cap Triggered) \cup {"none"}, at : Steps]
    <3>1. SetUpBy(Head(events)) \in (Requested \cap Triggered) \cup {"none", "nothing"}
      BY <2>1, Tables DEF SetUpBy, UsbTypeOK, Configs
    <3>2. FirstCommand(SetUpBy(Head(events))) \in Steps
      BY DEF FirstCommand, Steps
    <3> QED
      BY <1>3, <3>1, <3>2, Tables DEF PopEvent
  <2>3. adbd' \in {"stopped", "starting", "ready"}
    BY <1>3 DEF PopEvent, StartedBy, UsbTypeOK
  <2>4. OwnCommand(running')
    BY <1>3 DEF PopEvent, Idle, FirstCommand, OwnCommand
  <2> QED
    BY <1>3, <2>1, <2>2, <2>3, <2>4 DEF PopEvent, UsbTypeOK, bootVars
<1>4. ASSUME NEW s \in Steps, NEW field \in {"enabled", "product", "functions", "class"}, NEW value,
             WriteGadget(s, field, value),
             [gadget EXCEPT ![field] = value] \in Gadgets
      PROVE  UsbTypeOK'
  <2>1. running' \in {Idle} \cup [of : (Requested \cap Triggered) \cup {"none"}, at : Steps]
    BY <1>4, CommandStep DEF WriteGadget
  <2>2. gadget' \in Gadgets
    BY <1>4 DEF WriteGadget, UsbTypeOK
  <2>3. OwnCommand(running')
    BY <1>4, CommandStep DEF WriteGadget
  <2> QED
    BY <1>4, <2>1, <2>2, <2>3 DEF WriteGadget, Command, UsbTypeOK, bootVars
<1>5. CASE Off \/ On
  <2>1. [gadget EXCEPT !["enabled"] = TRUE] \in Gadgets /\ [gadget EXCEPT !["enabled"] = FALSE] \in Gadgets
    BY GadgetEnables DEF UsbTypeOK
  <2> QED
    BY <1>4, <1>5, <2>1 DEF Off, On, Steps
<1>6. CASE WriteProduct \/ WriteFunctions \/ WriteClass
  <2>1. running.of \in (Requested \cap Triggered) \cup {"none"} /\ config \in Configs
    BY <1>6, CommandStep DEF WriteProduct, WriteFunctions, WriteClass, WriteGadget, Steps, UsbTypeOK
  <2>2. running.at \in {"product", "functions"} => running.of # "none"
    BY <1>6 DEF UsbTypeOK, OwnCommand
  <2>3. WriteProduct => [gadget EXCEPT !["product"] = ProductOf(running.of)] \in Gadgets
    BY <2>1, <2>2 DEF WriteProduct, WriteGadget, Command, UsbTypeOK, Gadgets
  <2>4. WriteFunctions => [gadget EXCEPT !["functions"] = FunctionsOf(running.of, config)] \in Gadgets
    BY <2>1, <2>2 DEF WriteFunctions, WriteGadget, Command, UsbTypeOK, Gadgets
  <2>5. WriteClass => [gadget EXCEPT !["class"] = ClassOf(running.of)] \in Gadgets
    BY <2>1, Tables DEF UsbTypeOK, Gadgets
  <2> QED
    BY <1>4, <1>6, <2>3, <2>4, <2>5 DEF WriteProduct, WriteFunctions, WriteClass, Steps
<1>9. ASSUME NEW s \in {"stop", "unready", "state"}, Command(s),
             state' \in Configs, ready' \in BOOLEAN, overtaken' \in BOOLEAN,
             adbd' \in {"stopped", "starting", "ready"}, UNCHANGED <<events, gadget>>
      PROVE  UsbTypeOK'
  <2>1. running' \in {Idle} \cup [of : (Requested \cap Triggered) \cup {"none"}, at : Steps]
    BY <1>9, CommandStep DEF Steps
  <2>2. OwnCommand(running')
    BY <1>9, CommandStep DEF Steps
  <2> QED
    BY <1>9, <2>1, <2>2 DEF Command, UsbTypeOK, bootVars
<1>10. CASE SetState
  BY <1>9, <1>10 DEF SetState, UsbTypeOK
<1>11. CASE StopAdbd
  BY <1>9, <1>11 DEF StopAdbd, UsbTypeOK
<1>12. CASE Unready
  <2>1. ready' \in BOOLEAN /\ overtaken' \in BOOLEAN
    BY <1>12, Zenon DEF Unready, UsbTypeOK
  <2> QED
    BY <1>9, <1>12, <2>1 DEF Unready, UsbTypeOK
<1>13. CASE AdbdReady
  <2>1. events' \in Seq((Configs \ {Unset}) \cup {"ready"})
    BY <1>13 DEF AdbdReady, UsbTypeOK
  <2>2. ready' \in BOOLEAN
    BY <1>13, Zenon DEF AdbdReady
  <2> QED
    BY <1>13, <2>1, <2>2 DEF AdbdReady, UsbTypeOK, bootVars
<1>14. CASE AdbdDies
  BY <1>14 DEF AdbdDies, UsbTypeOK, bootVars
<1>15. ASSUME NEW c \in Requested, Request(c) PROVE UsbTypeOK'
  <2>1. events' \in Seq((Configs \ {Unset}) \cup {"ready"}) /\ config' \in Configs
    BY <1>15 DEF Request, SetConfig, UsbTypeOK, Configs, Unset
  <2>2. client' \in [at : {"none", "shown"}, want : Requested, early : BOOLEAN]
    BY <1>15, ClientType DEF Request
  <2> QED
    BY <1>15, <2>1, <2>2 DEF Request, UsbTypeOK, bootVars
<1>16. CASE NoneShown
  <2>1. client \in [at : {"none", "shown"}, want : Requested, early : BOOLEAN]
    BY <1>16 DEF NoneShown, UsbTypeOK, NoRequest
  <2>2. NoneUnfinished \in BOOLEAN
    BY DEF NoneUnfinished, HasEvent
  <2>3. client' \in [at : {"none", "shown"}, want : Requested, early : BOOLEAN]
    <3> DEFINE early == NoneUnfinished
    <3>1. early \in BOOLEAN
      BY <2>2
    <3>2. client' = [at |-> "shown", want |-> client.want, early |-> early]
      BY <1>16, <2>1 DEF NoneShown
    <3> HIDE DEF early
    <3> QED
      BY <2>1, <3>1, <3>2, ClientType
  <2>4. events' \in Seq((Configs \ {Unset}) \cup {"ready"}) /\ config' \in Configs
    BY <1>16, <2>1 DEF NoneShown, SetConfig, UsbTypeOK, Configs
  <2> QED
    BY <1>16, <2>3, <2>4 DEF NoneShown, UsbTypeOK, bootVars
<1>17. CASE EndRequest
  BY <1>17 DEF EndRequest, UsbTypeOK, bootVars
<1>18. CASE UNCHANGED allVars
  BY <1>18 DEF allVars, bootVars, usbVars, UsbTypeOK, HasEvent
<1> QED
  BY <1>1, <1>2, <1>3, <1>5, <1>6, <1>10, <1>11, <1>12, <1>13, <1>14, <1>15,
     <1>16, <1>17, <1>18 DEF UsbNext, InitSteps

-----------------------------------------------------------------------------

EventSet == (Configs \ {Unset}) \cup {"ready"}

\* Three kinds of steps, by what they do to the events.
LEMMA Kinds ==
  ASSUME UsbTypeOK, PhaseInv, [UsbNext]_allVars
  PROVE  \/ UNCHANGED <<events, config, running>>
         \/ UNCHANGED <<events, config>> /\ \E s \in Steps : Command(s)
         \/ PopEvent
         \/ AdbdReady
         \/ \E c \in Requested \cup {"none"} :
              SetConfig(c) /\ UNCHANGED running /\ (c # "none" => config = "none" \/ phase # "up")
<1>1. CASE Off \/ WriteProduct \/ WriteFunctions \/ WriteClass \/ On
  BY <1>1 DEF Off, WriteProduct, WriteFunctions, WriteClass, On, WriteGadget, Command, Steps
<1>2. CASE SetState \/ StopAdbd \/ Unready
  BY <1>2 DEF SetState, StopAdbd, Unready, Command, Steps
<1>3. CASE Boot \/ AdbdDies \/ EndRequest \/ UNCHANGED allVars
  BY <1>3 DEF Boot, AdbdDies, EndRequest, allVars, usbVars
<1>4. CASE \E c \in Requested \cup {"none"} : BootWith(c)
  BY <1>4 DEF BootWith, OnBoot
<1>5. CASE \E c \in Requested : Request(c)
  BY <1>5 DEF Request, SetConfig
<1>6. CASE NoneShown
  <2>1. client.want \in Requested
    BY <1>6 DEF NoneShown, UsbTypeOK, NoRequest
  <2> QED
    BY <1>6, <2>1 DEF NoneShown, PhaseInv
<1> QED
  BY <1>1, <1>2, <1>3, <1>4, <1>5, <1>6 DEF UsbNext, InitSteps

LEMMA AppendEvent ==
  ASSUME UsbTypeOK, NEW e \in EventSet, events' = Append(events, e)
  PROVE  /\ Len(events) \in Nat /\ Len(events') = Len(events) + 1
         /\ \A i \in 1..Len(events) : events'[i] = events[i]
         /\ events'[Len(events) + 1] = e
  BY DEF UsbTypeOK, EventSet

LEMMA TailEvent ==
  ASSUME UsbTypeOK, PopEvent
  PROVE  /\ Len(events) \in Nat \ {0} /\ Len(events') = Len(events) - 1
         /\ \A i \in 1..Len(events) - 1 : events'[i] = events[i + 1]
         /\ Head(events) = events[1] /\ events[1] \in EventSet
  BY DEF UsbTypeOK, PopEvent, EventSet

LEMMA LastStep ==
  ASSUME UsbTypeOK, PhaseInv, LastInv, [UsbNext]_allVars
  PROVE  LastInv'
<1>1. CASE UNCHANGED <<events, config>>
  BY <1>1 DEF LastInv
<1>2. CASE PopEvent
  <2> SUFFICES ASSUME NEW i \in 1..Len(events'), events'[i] # "ready"
               PROVE  \E j \in i..Len(events') : events'[j] = config
    BY <1>2 DEF LastInv, PopEvent
  <2>1. i + 1 \in 1..Len(events) /\ events[i + 1] # "ready"
    BY <1>2, TailEvent
  <2>2. PICK j \in i + 1..Len(events) : events[j] = config
    BY <2>1 DEF LastInv
  <2>3. j - 1 \in i..Len(events') /\ events'[j - 1] = config
    BY <1>2, <2>2, TailEvent
  <2> QED
    BY <2>3
<1>3. CASE AdbdReady
  <2>1. events' = Append(events, "ready") /\ config' = config /\ "ready" \in EventSet
    BY <1>3 DEF AdbdReady, EventSet
  <2> QED
    BY <2>1, AppendEvent DEF LastInv
<1>4. ASSUME NEW c \in Requested \cup {"none"}, SetConfig(c) PROVE LastInv'
  <2>1. events' = Append(events, c) /\ config' = c /\ c \in EventSet
    BY <1>4, UsbAssumption DEF SetConfig, EventSet, Configs, Unset
  <2> QED
    BY <2>1, AppendEvent DEF LastInv
<1> QED
  BY <1>1, <1>2, <1>3, <1>4, Kinds

LEMMA FreshStep ==
  ASSUME UsbTypeOK, PhaseInv, LastInv, FreshInv, [UsbNext]_allVars
  PROVE  FreshInv'
<1>1. CASE UNCHANGED <<events, config>>
  BY <1>1 DEF FreshInv, NoneBehind
<1>2. CASE PopEvent
  <2> SUFFICES ASSUME NEW i \in 1..Len(events'), events'[i] \notin {"none", "ready"}, ~NoneBehind(i)'
               PROVE  events'[i] = config
    BY <1>2 DEF FreshInv, PopEvent
  <2>1. i + 1 \in 1..Len(events) /\ events[i + 1] = events'[i]
    BY <1>2, TailEvent
  <2>2. ~NoneBehind(i + 1)
    <3> SUFFICES ASSUME NEW j \in i + 1..Len(events), events[j] = "none" PROVE FALSE
      BY DEF NoneBehind
    <3>1. j - 1 \in i..Len(events') /\ events'[j - 1] = "none"
      BY <1>2, TailEvent
    <3> QED
      BY <3>1 DEF NoneBehind
  <2> QED
    BY <2>1, <2>2 DEF FreshInv
<1>3. ASSUME NEW e \in EventSet, events' = Append(events, e),
             \/ e = "none"
             \/ e = "ready" /\ config' = config
             \/ e = config' /\ (config = "none" \/ events = <<>>)
      PROVE  FreshInv'
  <2> SUFFICES ASSUME NEW i \in 1..Len(events'), events'[i] \notin {"none", "ready"}, ~NoneBehind(i)',
                      e # "none"
               PROVE  events'[i] = config'
    <3>1. e = "none" => \A i \in 1..Len(events') : NoneBehind(i)'
      BY <1>3, AppendEvent DEF NoneBehind
    <3> QED
      BY <3>1 DEF FreshInv
  <2>1. CASE i = Len(events) + 1
    BY <1>3, <2>1, AppendEvent
  <2>2. CASE i \in 1..Len(events)
    <3>1. events[i] = events'[i] /\ ~NoneBehind(i)
      BY <1>3, <2>2, AppendEvent DEF NoneBehind
    <3>2. events[i] = config
      BY <2>2, <3>1 DEF FreshInv
    <3> QED
      BY <1>3, <2>2, <3>1, <3>2
  <2> QED
    BY <1>3, <2>1, <2>2, AppendEvent
<1>4. CASE AdbdReady
  BY <1>3, <1>4 DEF AdbdReady, EventSet
<1>5. ASSUME NEW c \in Requested \cup {"none"}, SetConfig(c),
             c # "none" => config = "none" \/ phase # "up"
      PROVE  FreshInv'
  <2>1. c \in EventSet
    BY UsbAssumption DEF EventSet, Configs, Unset
  <2> QED
    BY <1>3, <1>5, <2>1 DEF SetConfig, PhaseInv
<1> QED
  BY <1>1, <1>2, <1>4, <1>5, Kinds

\* Events only go away when init takes them.
LEMMA EventsStay ==
  ASSUME UsbTypeOK, NEW e \in EventSet, events' = Append(events, e), NEW x
  PROVE  HasEvent(x)' <=> HasEvent(x) \/ x = e
  BY AppendEvent DEF HasEvent

LEMMA EventTaken ==
  ASSUME UsbTypeOK, PopEvent, NEW x
  PROVE  HasEvent(x) <=> HasEvent(x)' \/ x = events[1]
<1>1. HasEvent(x)' => HasEvent(x)
  <2> SUFFICES ASSUME NEW i \in 1..Len(events'), events'[i] = x PROVE HasEvent(x)
    BY DEF HasEvent
  <2>1. i + 1 \in 1..Len(events) /\ events[i + 1] = x
    BY TailEvent
  <2> QED
    BY <2>1 DEF HasEvent
<1>2. HasEvent(x) => HasEvent(x)' \/ x = events[1]
  <2> SUFFICES ASSUME NEW i \in 1..Len(events), events[i] = x, i # 1 PROVE HasEvent(x)'
    BY DEF HasEvent
  <2>1. i - 1 \in 1..Len(events') /\ events'[i - 1] = x
    BY TailEvent
  <2> QED
    BY <2>1 DEF HasEvent
<1> QED
  BY <1>1, <1>2, TailEvent DEF HasEvent

\* Nothing but `ready' is waiting where the event of config is not.
LEMMA NothingWaits ==
  ASSUME UsbTypeOK, LastInv, ~HasEvent(config)
  PROVE  \A i \in 1..Len(events) : events[i] = "ready"
  BY DEF UsbTypeOK, LastInv, HasEvent

LEMMA RunningStep ==
  ASSUME UsbTypeOK, PhaseInv, LastInv, FreshInv, RunningInv, [UsbNext]_allVars
  PROVE  RunningInv'
<1>1. CASE UNCHANGED <<events, config, running>>
  BY <1>1 DEF RunningInv, HasEvent
<1>2. ASSUME NEW s \in Steps, Command(s), UNCHANGED <<events, config>> PROVE RunningInv'
  BY <1>2, CommandStep, Tables DEF RunningInv, HasEvent, Idle
<1>3. CASE PopEvent
  <2> DEFINE e == events[1]
  <2>1. e = Head(events) /\ config' = config
    BY <1>3, TailEvent DEF PopEvent
  <2>2. running'.of \in Triggered => running'.of \in {e, config} /\ (running'.of = e \/ running'.of = config)
    BY <1>3, <2>1, Tables DEF PopEvent, SetUpBy, Idle
  <2>3. running'.of \in Triggered /\ ~HasEvent("none")' => running'.of = config
    <3> SUFFICES ASSUME running'.of \in Triggered, ~HasEvent("none")', running'.of = e PROVE e = config
      BY <2>2
    <3>1. ~NoneBehind(1) /\ e \notin {"none", "ready"}
      BY <1>3, EventTaken, TailEvent, Tables DEF NoneBehind, HasEvent
    <3> QED
      BY <1>3, <3>1, TailEvent DEF FreshInv
  <2>4. running'.of = "none" /\ config # "none" => HasEvent(config)'
    <3> SUFFICES ASSUME running'.of = "none", config # "none" PROVE HasEvent(config)'
      OBVIOUS
    <3>1. e = "none"
      BY <1>3, <2>1, Tables DEF PopEvent, SetUpBy, Idle
    <3>2. HasEvent(config)
      BY <1>3, <3>1, TailEvent DEF LastInv, HasEvent
    <3>3. PICK c : c = config
      OBVIOUS
    <3>4. HasEvent(c)'
      BY <1>3, <3>1, <3>2, <3>3, EventTaken
    <3> QED
      BY <2>1, <3>3, <3>4 DEF HasEvent
  <2> QED
    BY <2>1, <2>3, <2>4 DEF RunningInv
<1>4. CASE AdbdReady
  <2>1. events' = Append(events, "ready") /\ "ready" \in EventSet /\ UNCHANGED <<config, running>>
    BY <1>4 DEF AdbdReady, EventSet
  <2> QED
    BY <2>1, EventsStay DEF RunningInv
<1>5. ASSUME NEW c \in Requested \cup {"none"}, SetConfig(c), UNCHANGED running,
             c # "none" => config = "none" \/ phase # "up"
      PROVE  RunningInv'
  <2>1. events' = Append(events, c) /\ config' = c /\ c \in EventSet
    BY <1>5, UsbAssumption DEF SetConfig, EventSet, Configs, Unset
  <2> QED
    BY <1>5, <2>1, EventsStay, Tables DEF RunningInv, PhaseInv, Idle
<1> QED
  BY <1>1, <1>2, <1>3, <1>4, <1>5, Kinds

LEMMA PhaseStep ==
  ASSUME UsbTypeOK, PhaseInv, [UsbNext]_allVars
  PROVE  PhaseInv'
<1>1. CASE Boot
  BY <1>1 DEF Boot, LoadProperties, LoadThrows, usbVars, PhaseInv, ModelOf
<1>2. CASE \E c \in Requested \cup {"none"} : BootWith(c)
  BY <1>2, UsbAssumption DEF BootWith, OnBoot, SetConfig, PhaseInv, NoRequest, Unset
<1>3. CASE PopEvent
  BY <1>3 DEF PopEvent, PhaseInv, bootVars
<1>4. ASSUME NEW s \in Steps, Command(s) PROVE PhaseInv'
  BY <1>4, CommandStep DEF PhaseInv, bootVars
<1>5. CASE Off \/ WriteProduct \/ WriteFunctions \/ WriteClass \/ On
  BY <1>4, <1>5 DEF Off, WriteProduct, WriteFunctions, WriteClass, On, WriteGadget, Steps
<1>6. CASE SetState \/ StopAdbd \/ Unready
  BY <1>4, <1>6 DEF SetState, StopAdbd, Unready, Steps
<1>7. CASE AdbdReady \/ AdbdDies
  BY <1>7 DEF AdbdReady, AdbdDies, PhaseInv, bootVars
<1>8. CASE \E c \in Requested : Request(c)
  BY <1>8 DEF Request, SetConfig, PhaseInv, bootVars, Unset
<1>9. CASE NoneShown
  <2>1. client \in [at : {"none", "shown"}, want : Requested, early : BOOLEAN]
    BY <1>9 DEF NoneShown, UsbTypeOK, NoRequest
  <2>2. client'.at = "shown" /\ client'.want = client.want /\ config' = client.want /\ client # NoRequest
    BY <1>9, <2>1 DEF NoneShown, SetConfig, NoRequest
  <2>3. phase = "up" /\ config' # Unset
    BY <2>1, <2>2, UsbAssumption DEF PhaseInv
  <2> QED
    BY <1>9, <2>2, <2>3 DEF NoneShown, PhaseInv, bootVars
<1>10. CASE EndRequest
  BY <1>10 DEF EndRequest, PhaseInv, bootVars, NoRequest
<1>11. CASE UNCHANGED allVars
  BY <1>11 DEF allVars, usbVars, bootVars, PhaseInv
<1> QED
  BY <1>1, <1>2, <1>3, <1>5, <1>6, <1>7, <1>8, <1>9, <1>10, <1>11 DEF UsbNext, InitSteps

\* What the actions other than init's leave alone.
LEMMA Others ==
  ASSUME [UsbNext]_allVars, ~InitSteps
  PROVE  /\ UNCHANGED <<running, gadget, state>>
         /\ overtaken' = overtaken
         /\ ready => ready'
  BY DEF UsbNext, allVars, usbVars, Boot, BootWith, AdbdReady, AdbdDies, Request, NoneShown, EndRequest

LEMMA AdbdStep ==
  ASSUME UsbTypeOK, PhaseInv, AdbdInv, [UsbNext]_allVars
  PROVE  AdbdInv'
<1>1. CASE PopEvent
  <2>1. UNCHANGED <<ready, overtaken>> /\ (adbd' = "ready" => adbd = "ready") /\ running'.at # "unready"
    BY <1>1 DEF PopEvent, StartedBy, Idle, FirstCommand
  <2>2. HasEvent("ready")' => HasEvent("ready")
    BY <1>1, EventTaken
  <2>3. running'.of \in AdbConfigs => ready \/ HasEvent("ready")
    <3>1. events[1] = "ready" => HasEvent("ready")
      BY <1>1, TailEvent DEF HasEvent
    <3> QED
      BY <1>1, <3>1, TailEvent, Tables DEF PopEvent, SetUpBy, Idle
  <2> QED
    BY <2>1, <2>2, <2>3 DEF AdbdInv
<1>2. CASE StopAdbd
  BY <1>2, CommandStep, Tables, Order DEF StopAdbd, Steps, AdbdInv, HasEvent, Idle
<1>3. CASE Unready
  <2>1. running.of = "none"
    BY <1>3 DEF Unready, Command, UsbTypeOK, OwnCommand
  <2> QED
    BY <1>3, <2>1, CommandStep, Tables, Order DEF Unready, Steps, AdbdInv, HasEvent, Idle
<1>4. ASSUME NEW s \in Steps \ {"stop", "unready"}, Command(s),
             UNCHANGED <<ready, events, adbd, overtaken>>
      PROVE  AdbdInv'
  BY <1>4, CommandStep, Tables, Order DEF AdbdInv, HasEvent, Idle, Steps
<1>5. CASE Off \/ WriteProduct \/ WriteFunctions \/ WriteClass \/ On \/ SetState
  BY <1>4, <1>5 DEF Off, WriteProduct, WriteFunctions, WriteClass, On, SetState, WriteGadget, Steps
<1>6. CASE AdbdReady
  BY <1>6 DEF AdbdReady, AdbdInv
<1>7. CASE AdbdDies \/ EndRequest \/ Boot \/ UNCHANGED allVars
  BY <1>7 DEF AdbdDies, EndRequest, Boot, allVars, usbVars, AdbdInv, HasEvent
<1>8. ASSUME NEW c \in Requested \cup {"none"}, SetConfig(c), UNCHANGED <<running, adbd, ready, overtaken>>
      PROVE  AdbdInv'
  <2>1. events' = Append(events, c) /\ c \in EventSet /\ c # "ready"
    BY <1>8, UsbAssumption DEF SetConfig, EventSet, Configs, Unset
  <2> QED
    BY <1>8, <2>1, EventsStay DEF AdbdInv
<1>9. CASE \E c \in Requested \cup {"none"} : BootWith(c)
  BY <1>8, <1>9 DEF BootWith
<1>10. CASE \E c \in Requested : Request(c)
  BY <1>8, <1>10 DEF Request
<1>11. CASE NoneShown
  <2>1. client.want \in Requested
    BY <1>11 DEF NoneShown, UsbTypeOK, NoRequest
  <2> QED
    BY <1>8, <1>11, <2>1 DEF NoneShown
<1> QED
  BY <1>1, <1>2, <1>3, <1>5, <1>6, <1>7, <1>9, <1>10, <1>11 DEF UsbNext, InitSteps

LEMMA ClassStep ==
  ASSUME UsbTypeOK, PhaseInv, LastInv, FreshInv, RunningInv, ClassInv, [UsbNext]_allVars
  PROVE  ClassInv'
<1>1. CASE PopEvent
  <2>1. UNCHANGED <<gadget, config>> /\ running = Idle
    BY <1>1 DEF PopEvent
  <2>2. HasEvent("none") => HasEvent("none")' \/ events[1] = "none"
    BY <1>1, EventTaken
  <2>3. events[1] = "none" => running'.of = "none" /\ running'.at = "stop"
    BY <1>1, TailEvent, Tables DEF PopEvent, SetUpBy, FirstCommand, AdbConfigs
  <2> QED
    BY <2>1, <2>2, <2>3 DEF ClassInv, Idle
<1>2. CASE WriteClass
  <2>1. gadget'.class = ClassOf(running.of) /\ UNCHANGED <<events, config>>
    BY <1>2 DEF WriteClass, WriteGadget, UsbTypeOK, Gadgets, Command
  <2>2. running.of = "none" \/ HasEvent("none") \/ running.of = config
    BY <1>2, CommandStep DEF WriteClass, WriteGadget, Steps, RunningInv
  <2> QED
    BY <2>1, <2>2, Tables DEF ClassInv, HasEvent
<1>3. ASSUME NEW s \in Steps \ {"class"}, Command(s), gadget'.class = gadget.class, events' = events
      PROVE  ClassInv'
  <2>1. running.of = "none" /\ s \in {"stop", "unready", "off"} =>
          running'.of = "none" /\ running'.at \in {"unready", "off", "class"}
    BY <1>3, CommandStep, Order
  <2>2. running.at = s /\ config' = config
    BY <1>3, CommandStep
  <2> QED
    BY <1>3, <2>1, <2>2 DEF ClassInv, HasEvent
<1>4. CASE Off \/ WriteProduct \/ WriteFunctions \/ On
  <2>1. gadget'.class = gadget.class
    BY <1>4 DEF Off, WriteProduct, WriteFunctions, On, WriteGadget, UsbTypeOK, Gadgets
  <2> QED
    BY <1>3, <1>4, <2>1 DEF Off, WriteProduct, WriteFunctions, On, WriteGadget, Steps
<1>5. CASE SetState \/ StopAdbd \/ Unready
  BY <1>3, <1>5 DEF SetState, StopAdbd, Unready, Steps
<1>6. ASSUME NEW e \in EventSet, events' = Append(events, e), UNCHANGED <<running, gadget>>,
             config' = config \/ e = "none" \/ config = "none" \/ gadget.class = 0
      PROVE  ClassInv'
  BY <1>6, EventsStay, Tables DEF ClassInv
<1>7. CASE AdbdReady
  BY <1>6, <1>7 DEF AdbdReady, EventSet
<1>8. ASSUME NEW c \in Requested \cup {"none"}, SetConfig(c), UNCHANGED <<running, gadget>>,
             c = "none" \/ config = "none" \/ gadget.class = 0
      PROVE  ClassInv'
  <2>1. c \in EventSet
    BY UsbAssumption DEF EventSet, Configs, Unset
  <2> QED
    BY <1>6, <1>8, <2>1 DEF SetConfig
<1>9. CASE \E c \in Requested \cup {"none"} : BootWith(c)
  BY <1>8, <1>9 DEF BootWith, OnBoot, PhaseInv
<1>10. CASE \E c \in Requested : Request(c)
  BY <1>8, <1>10 DEF Request
<1>11. CASE NoneShown
  <2>1. client.want \in Requested
    BY <1>11 DEF NoneShown, UsbTypeOK, NoRequest
  <2> QED
    BY <1>8, <1>11, <2>1 DEF NoneShown, PhaseInv
<1>12. CASE AdbdDies \/ EndRequest \/ Boot \/ UNCHANGED allVars
  BY <1>12 DEF AdbdDies, EndRequest, Boot, allVars, usbVars, ClassInv, HasEvent
<1> QED
  BY <1>1, <1>2, <1>4, <1>5, <1>7, <1>9, <1>10, <1>11, <1>12 DEF UsbNext, InitSteps

LEMMA SetUpStep ==
  ASSUME UsbTypeOK, PhaseInv, RunningInv, ClassInv, SetUpInv, [UsbNext]_allVars
  PROVE  SetUpInv'
<1>1. CASE PopEvent
  <2>1. running' = Idle \/ running'.at \in {"stop", "off"}
    BY <1>1 DEF PopEvent, FirstCommand
  <2> QED
    BY <2>1 DEF SetUpInv, Past, Idle
<1>2. ASSUME NEW s \in Steps, Command(s), events' = events,
             config \in Triggered, ~HasEvent("none"), running.of = config
      PROVE  /\ running'.at = "idle" \/ running'.of = config
             /\ gadget.class \in {0, ClassOf(config)} /\ config # "none" /\ running.at = s
  BY <1>2, CommandStep, Tables DEF ClassInv, Idle
<1>3. ASSUME NEW s \in {"stop", "unready", "off", "state"}, Command(s), events' = events
      PROVE  SetUpInv'
  <2>1. running'.at \in {"idle", "unready", "off"} \/ running.of = "none" \/ running'.at = "product"
    BY <1>3, CommandStep, Order DEF Steps, Idle
  <2>2. running' = Idle \/ running'.of = running.of
    BY <1>3, CommandStep DEF Steps
  <2>3. config' = config /\ (config \in Triggered => config # "none")
    BY <1>3, CommandStep, Tables DEF Steps
  <2> QED
    BY <1>3, <2>1, <2>2, <2>3 DEF SetUpInv, Past, Idle
<1>4. CASE Off \/ SetState \/ StopAdbd \/ Unready
  BY <1>3, <1>4 DEF Off, SetState, StopAdbd, Unready, WriteGadget
<1>5. ASSUME NEW s \in {"product", "functions", "class", "on"}, Command(s), UNCHANGED <<events, config>>,
             gadget' \in Gadgets,
             config \in Triggered /\ ~HasEvent("none") /\ running.of = config /\ running'.of = config =>
               /\ running'.at \in {"functions", "class", "on", "state"} => gadget'.product = ProductOf(config)
               /\ running'.at \in {"class", "on", "state"} => gadget'.functions = FunctionsOf(config, config)
               /\ running'.at \in {"on", "state"} => gadget'.class = ClassOf(config)
               /\ running'.at = "state" => gadget'.enabled
      PROVE  SetUpInv'
  <2>1. running'.of = running.of
    BY <1>5, CommandStep DEF Steps
  <2> QED
    BY <1>5, <2>1 DEF SetUpInv, Past, HasEvent
<1>6. CASE WriteProduct
  <2>1. gadget' = [gadget EXCEPT !.product = ProductOf(running.of)] /\ Command("product")
        /\ UNCHANGED <<events, config>> /\ running'.at = "functions"
    BY <1>6, CommandStep, Order DEF WriteProduct, WriteGadget, Steps
  <2>2. gadget' \in Gadgets
    BY TypeStep DEF UsbTypeOK
  <2> QED
    BY <1>5, <2>1, <2>2 DEF UsbTypeOK, Gadgets
<1>7. CASE WriteFunctions
  <2>1. gadget' = [gadget EXCEPT !.functions = FunctionsOf(running.of, config)] /\ Command("functions")
        /\ UNCHANGED <<events, config>> /\ running'.at = IF WritesClass(running.of) THEN "class" ELSE "on"
    BY <1>7, CommandStep, Order DEF WriteFunctions, WriteGadget, Steps
  <2>2. gadget' \in Gadgets
    BY TypeStep DEF UsbTypeOK
  <2>3. ASSUME config \in Triggered, ~HasEvent("none"), running.of = config
        PROVE  gadget.product = ProductOf(config) /\ (~WritesClass(config) => gadget.class = ClassOf(config))
    BY <1>2, <2>1, <2>3, UnwrittenClass DEF SetUpInv, Past, Steps
  <2> QED
    BY <1>5, <2>1, <2>2, <2>3 DEF UsbTypeOK, Gadgets
<1>8. CASE WriteClass
  <2>1. gadget' = [gadget EXCEPT !.class = ClassOf(running.of)] /\ Command("class")
        /\ UNCHANGED <<events, config>> /\ running'.at = IF running.of = "none" THEN "state" ELSE "on"
    BY <1>8, CommandStep, Order DEF WriteClass, WriteGadget, Steps
  <2>2. gadget' \in Gadgets
    BY TypeStep DEF UsbTypeOK
  <2>3. ASSUME config \in Triggered, ~HasEvent("none"), running.of = config
        PROVE  gadget.product = ProductOf(config) /\ gadget.functions = FunctionsOf(config, config)
               /\ config # "none"
    BY <1>2, <2>1, <2>3 DEF SetUpInv, Past, Steps
  <2> QED
    BY <1>5, <2>1, <2>2, <2>3 DEF UsbTypeOK, Gadgets
<1>9. CASE On
  <2>1. gadget' = [gadget EXCEPT !.enabled = TRUE] /\ Command("on")
        /\ UNCHANGED <<events, config>> /\ running'.at = "state"
    BY <1>9, CommandStep, Order DEF On, WriteGadget, Steps
  <2>2. gadget' \in Gadgets
    BY TypeStep DEF UsbTypeOK
  <2>3. gadget'.product = gadget.product /\ gadget'.functions = gadget.functions /\ gadget'.class = gadget.class
    BY <2>1 DEF UsbTypeOK, Gadgets
  <2>4. gadget'.enabled
    BY <2>1 DEF UsbTypeOK, Gadgets
  <2>5. ASSUME config \in Triggered, ~HasEvent("none"), running.of = config
        PROVE  gadget.product = ProductOf(config) /\ gadget.functions = FunctionsOf(config, config)
               /\ gadget.class = ClassOf(config)
    BY <1>2, <2>1, <2>5 DEF SetUpInv, Past, Steps
  <2> QED
    BY <1>5, <2>1, <2>2, <2>3, <2>4, <2>5
<1>10. CASE AdbdReady
  <2>1. events' = Append(events, "ready") /\ "ready" \in EventSet /\ UNCHANGED <<config, running, gadget>>
    BY <1>10 DEF AdbdReady, EventSet
  <2> QED
    BY <2>1, EventsStay DEF SetUpInv, Past
<1>11. ASSUME NEW c \in Requested \cup {"none"}, SetConfig(c), UNCHANGED <<running, gadget>>,
             c # "none" => config = "none" \/ phase # "up"
      PROVE  SetUpInv'
  <2>1. events' = Append(events, c) /\ config' = c /\ c \in EventSet
    BY <1>11, UsbAssumption DEF SetConfig, EventSet, Configs, Unset
  <2>2. HasEvent("none") => HasEvent("none")'
    BY <2>1, EventsStay
  <2>3. c \in Triggered => HasEvent("none") \/ running.of # c
    BY <1>11, Tables DEF RunningInv, PhaseInv, Idle
  <2> QED
    BY <1>11, <2>1, <2>2, <2>3 DEF SetUpInv, Past
<1>12. CASE \E c \in Requested \cup {"none"} : BootWith(c)
  BY <1>11, <1>12 DEF BootWith, OnBoot
<1>13. CASE \E c \in Requested : Request(c)
  BY <1>11, <1>13 DEF Request
<1>14. CASE NoneShown
  <2>1. client.want \in Requested
    BY <1>14 DEF NoneShown, UsbTypeOK, NoRequest
  <2> QED
    BY <1>11, <1>14, <2>1 DEF NoneShown, PhaseInv
<1>15. CASE AdbdDies \/ EndRequest \/ Boot \/ UNCHANGED allVars
  BY <1>15 DEF AdbdDies, EndRequest, Boot, allVars, usbVars, SetUpInv, Past, HasEvent
<1> QED
  BY <1>1, <1>4, <1>6, <1>7, <1>8, <1>9, <1>10, <1>12, <1>13, <1>14, <1>15 DEF UsbNext, InitSteps

LEMMA SettledStep ==
  ASSUME UsbTypeOK, PhaseInv, LastInv, RunningInv, AdbdInv, SetUpInv, SettledInv, [UsbNext]_allVars
  PROVE  SettledInv'
<1>1. CASE PopEvent
  <2> SUFFICES ASSUME config \in Triggered, ~HasEvent(config)', running' = Idle
               PROVE  \/ GadgetShows(config) /\ state = config
                      \/ config \in AdbConfigs /\ adbd' = "starting"
    BY <1>1 DEF SettledInv, PopEvent, GadgetShows
  <2>1. SetUpBy(events[1]) = "nothing"
    BY <1>1, TailEvent DEF PopEvent, Idle, FirstCommand
  <2>2. CASE events[1] = config
    BY <1>1, <2>1, <2>2, TailEvent, Tables DEF PopEvent, SetUpBy, StartedBy, AdbdInv, UsbTypeOK
  <2>3. CASE events[1] # config
    <3>1. PICK c : c = config
      OBVIOUS
    <3>2. ~HasEvent(c)'
      BY <1>1, <3>1 DEF PopEvent, HasEvent
    <3>3. ~HasEvent(config)
      BY <1>1, <2>3, <3>1, <3>2, EventTaken
    <3>4. events[1] = "ready"
      BY <1>1, <3>3, NothingWaits, TailEvent
    <3>5. config \notin AdbConfigs
      BY <2>1, <3>4, Tables DEF SetUpBy
    <3> QED
      BY <1>1, <3>3, <3>5 DEF SettledInv, PopEvent
  <2> QED
    BY <2>2, <2>3
<1>2. ASSUME NEW s \in Steps \ {"state"}, Command(s) PROVE SettledInv'
  <2>1. running' # Idle
    BY <1>2, CommandStep DEF Idle, Steps
  <2> QED
    BY <2>1 DEF SettledInv
<1>3. CASE Off \/ WriteProduct \/ WriteFunctions \/ WriteClass \/ On \/ StopAdbd \/ Unready
  BY <1>2, <1>3 DEF Off, WriteProduct, WriteFunctions, WriteClass, On, StopAdbd, Unready, WriteGadget, Steps
<1>4. CASE SetState
  <2> SUFFICES ASSUME config \in Triggered, ~HasEvent(config)
               PROVE  GadgetShows(config) /\ state' = config /\ UNCHANGED <<gadget, config>>
    BY <1>4 DEF SetState, Command, SettledInv, GadgetShows, HasEvent
  <2>1. Command("state") /\ state' = config /\ UNCHANGED <<gadget, config>>
    BY <1>4 DEF SetState, Command
  <2>2. ~HasEvent("none")
    BY NothingWaits DEF HasEvent
  <2>3. running.of = config /\ running.at = "state"
    BY <2>1, <2>2, CommandStep, Tables DEF RunningInv, Steps
  <2>4. /\ gadget.product = ProductOf(config) /\ gadget.functions = FunctionsOf(config, config)
        /\ gadget.class = ClassOf(config)
    BY <2>2, <2>3 DEF SetUpInv, Past
  <2>5. gadget.enabled
    BY <2>2, <2>3 DEF SetUpInv, Past
  <2>6. gadget.enabled = TRUE
    BY <2>5 DEF UsbTypeOK, Gadgets
  <2>7. gadget = [enabled |-> gadget.enabled, product |-> gadget.product,
                  functions |-> gadget.functions, class |-> gadget.class]
    BY DEF UsbTypeOK, Gadgets
  <2>8. GadgetShows(config)
    BY <2>4, <2>6, <2>7 DEF GadgetShows
  <2> QED
    BY <2>1, <2>8
<1>5. CASE AdbdReady
  <2>1. events' = Append(events, "ready") /\ "ready" \in EventSet
        /\ UNCHANGED <<config, running, gadget, state>>
    BY <1>5 DEF AdbdReady, EventSet
  <2>2. HasEvent("ready")'
    BY <2>1, EventsStay
  <2>3. PICK c : c = config
    OBVIOUS
  <2>4. HasEvent(c) => HasEvent(c)'
    BY <2>1, EventsStay
  <2>5. HasEvent(config) => HasEvent(config)'
    BY <2>1, <2>3, <2>4 DEF HasEvent
  <2> QED
    BY <2>1, <2>2, <2>5 DEF SettledInv, GadgetShows
<1>6. CASE AdbdDies
  BY <1>6 DEF AdbdDies, SettledInv, GadgetShows, HasEvent
<1>7. ASSUME NEW c \in Requested \cup {"none"}, SetConfig(c) PROVE SettledInv'
  <2>1. events' = Append(events, c) /\ config' = c /\ c \in EventSet
    BY <1>7, UsbAssumption DEF SetConfig, EventSet, Configs, Unset
  <2>2. HasEvent(c)'
    BY <2>1, EventsStay
  <2>3. HasEvent(config)'
    BY <2>1, <2>2 DEF HasEvent
  <2> QED
    BY <2>3 DEF SettledInv
<1>8. CASE \E c \in Requested \cup {"none"} : BootWith(c)
  BY <1>7, <1>8 DEF BootWith
<1>9. CASE \E c \in Requested : Request(c)
  BY <1>7, <1>9 DEF Request
<1>10. CASE NoneShown
  <2>1. client.want \in Requested
    BY <1>10 DEF NoneShown, UsbTypeOK, NoRequest
  <2> QED
    BY <1>7, <1>10, <2>1 DEF NoneShown
<1>11. CASE EndRequest \/ Boot \/ UNCHANGED allVars
  BY <1>11 DEF EndRequest, Boot, allVars, usbVars, SettledInv, GadgetShows, HasEvent
<1> QED
  BY <1>1, <1>3, <1>4, <1>5, <1>6, <1>8, <1>9, <1>10, <1>11 DEF UsbNext, InitSteps

LEMMA AnswerStep ==
  ASSUME UsbTypeOK, PhaseInv, AnswerInv, [UsbNext]_allVars
  PROVE  AnswerInv'
<1>1. CASE PopEvent
  <2>1. events[1] = "none" => HasEvent("none")
    BY <1>1, TailEvent DEF HasEvent
  <2>2. HasEvent("none")' => HasEvent("none")
    BY <1>1, EventTaken
  <2>3. running'.of = "none" => events[1] = "none"
    BY <1>1, TailEvent, Tables DEF PopEvent, SetUpBy, Idle
  <2> QED
    BY <1>1, <2>1, <2>2, <2>3 DEF PopEvent, AnswerInv, NoneUnfinished
<1>2. ASSUME NEW s \in Steps, Command(s), events' = events PROVE AnswerInv'
  BY <1>2, CommandStep DEF AnswerInv, NoneUnfinished, HasEvent, Idle
<1>3. CASE Off \/ WriteProduct \/ WriteFunctions \/ WriteClass \/ On
  BY <1>2, <1>3 DEF Off, WriteProduct, WriteFunctions, WriteClass, On, WriteGadget, Steps
<1>4. CASE SetState \/ StopAdbd \/ Unready
  BY <1>2, <1>4 DEF SetState, StopAdbd, Unready, Steps
<1>5. CASE AdbdReady
  <2>1. events' = Append(events, "ready") /\ "ready" \in EventSet /\ UNCHANGED <<client, running>>
    BY <1>5 DEF AdbdReady, EventSet
  <2> QED
    BY <2>1, EventsStay DEF AnswerInv, NoneUnfinished
<1>6. CASE NoneShown
  <2>1. client \in [at : {"none", "shown"}, want : Requested, early : BOOLEAN]
    BY <1>6 DEF NoneShown, UsbTypeOK, NoRequest
  <2>2. events' = Append(events, client.want) /\ client.want \in EventSet /\ client.want # "none"
        /\ running' = running
    BY <1>6, <2>1, UsbAssumption DEF NoneShown, SetConfig, EventSet, Configs, Unset
  <2>3. client'.early = NoneUnfinished
    BY <1>6, <2>1 DEF NoneShown
  <2>4. HasEvent("none")' => HasEvent("none")
    BY <2>2, EventsStay
  <2> QED
    BY <2>2, <2>3, <2>4 DEF AnswerInv, NoneUnfinished
<1>7. CASE \E c \in Requested : Request(c)
  BY <1>7 DEF Request, AnswerInv
<1>8. CASE \E c \in Requested \cup {"none"} : BootWith(c)
  BY <1>8 DEF BootWith, OnBoot, PhaseInv, AnswerInv, NoRequest
<1>9. CASE AdbdDies \/ EndRequest \/ Boot \/ UNCHANGED allVars
  BY <1>9 DEF AdbdDies, EndRequest, Boot, allVars, usbVars, AnswerInv, NoneUnfinished, HasEvent, NoRequest
<1> QED
  BY <1>1, <1>3, <1>4, <1>5, <1>6, <1>7, <1>8, <1>9 DEF UsbNext, InitSteps

-----------------------------------------------------------------------------

LEMMA UsbStep == UsbInv /\ [UsbNext]_allVars => UsbInv'
  BY TypeStep, LastStep, FreshStep, RunningStep, PhaseStep, AdbdStep, ClassStep, SetUpStep,
     SettledStep, AnswerStep DEF UsbInv

\* The invariant of the triggers holds for every set of configurations that is
\* asked for, any number of requests and of deaths of adbd, and any bootloader.
THEOREM UsbInvariant == UsbSpec => []UsbInv
<1>1. UsbInit => UsbInv
  BY UsbInitInv
<1>2. UsbInv /\ [UsbNext]_allVars => UsbInv'
  BY UsbStep
<1> QED
  BY <1>1, <1>2, PTL DEF UsbSpec

\* init never forgets a configuration (usb.rc:24-307).
THEOREM UsbSettles == UsbSpec => []Settles
<1>1. UsbInv => Settles
  BY DEF UsbInv, SettledInv, Settles, HasEvent
<1> QED
  BY <1>1, UsbInvariant, PTL

\* A configuration with adb waits for adbd (usb.rc:35).
THEOREM UsbAdbdFirst == UsbSpec => []AdbdComesFirst
<1>1. UsbInv => AdbdComesFirst
  BY DEF UsbInv, AdbdInv, AdbdComesFirst
<1> QED
  BY <1>1, UsbInvariant, PTL

\* What sys.usb.state answers is true (usb.rc:30).
THEOREM UsbAnswers == UsbSpec => AnswerTrue
<1>1. ASSUME UsbInv, [UsbNext]_allVars, client.at = "shown", ~client.early,
             state' # state, state' = client.want
      PROVE  GadgetShows(client.want)
  <2>1. SetState
    BY <1>1 DEF UsbNext, InitSteps, Boot, BootWith, AdbdReady, AdbdDies, Request, NoneShown, EndRequest,
       allVars, usbVars, PopEvent, Off, WriteProduct, WriteFunctions, WriteClass, On, WriteGadget,
       StopAdbd, Unready
  <2>2. Command("state") /\ client.want = config
    BY <1>1, <2>1 DEF SetState
  <2>3. ~HasEvent("none") /\ running.of # "none"
    BY <1>1 DEF UsbInv, AnswerInv, NoneUnfinished
  <2>4. running.of = config /\ config \in Triggered /\ running.at = "state"
    BY <1>1, <2>2, <2>3, CommandStep DEF UsbInv, RunningInv, Steps
  <2>5. /\ gadget.product = ProductOf(config) /\ gadget.functions = FunctionsOf(config, config)
        /\ gadget.class = ClassOf(config)
    BY <1>1, <2>3, <2>4 DEF UsbInv, SetUpInv, Past
  <2>6. gadget.enabled
    BY <1>1, <2>3, <2>4 DEF UsbInv, SetUpInv, Past
  <2>7. gadget.enabled = TRUE
    BY <1>1, <2>6 DEF UsbInv, UsbTypeOK, Gadgets
  <2>8. gadget = [enabled |-> gadget.enabled, product |-> gadget.product,
                  functions |-> gadget.functions, class |-> gadget.class]
    BY <1>1 DEF UsbInv, UsbTypeOK, Gadgets
  <2> QED
    BY <2>2, <2>5, <2>7, <2>8 DEF GadgetShows
<1>2. UsbInv /\ [UsbNext]_allVars =>
        [client.at = "shown" /\ ~client.early /\ state' # state /\ state' = client.want
           => GadgetShows(client.want)]_allVars
  BY <1>1
<1> QED
  BY <1>2, UsbInvariant, PTL DEF UsbSpec, AnswerTrue

\* The host sees the name of the model in the bootloader (usb.rc:15).
THEOREM UsbNamed == UsbSpec => []EnabledNamed
<1>1. UsbInv => EnabledNamed
  BY DEF UsbInv, UsbTypeOK, PhaseInv, EnabledNamed
<1> QED
  BY <1>1, UsbInvariant, PTL
=============================================================================
