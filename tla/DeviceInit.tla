----------------------------- MODULE DeviceInit -----------------------------
(***************************************************************************)
(* init/init_sec.cpp and the start of the gadget: what init does with the  *)
(* name of the bootloader before it serves properties.                     *)
(*                                                                         *)
(* A bootloader is a model of five characters and a build after it; only   *)
(* its model and its length matter.                                        *)
(***************************************************************************)
EXTENDS Integers

CONSTANT Bootloaders   \* records [model, length]: what ro.bootloader may be

MODEL_NAME_LEN == 5

ASSUME BootloaderAssumption ==
  \A b \in Bootloaders : b.length \in Nat

VARIABLES
  bootloader,      \* ro.bootloader
  phase,           \* what init has done: "start", "loaded", "up", "aborted"
  model, device,   \* ro.product.model and ro.product.device; the vendor copies
                   \* and ro.build.product are set with them
  iProduct         \* the name that the gadget gives itself

bootVars == <<bootloader, phase, model, device, iProduct>>

Unset == "unset"

\* all_variants; "SM-" is left out of a model, "xx" after a device makes the name.
Codename(m) ==
  CASE m = "A520F" -> "a5y17lte"
    [] m = "A520W" -> "a5y17ltecan"
    [] m = "A520K" -> "a5y17ltektt"
    [] m = "A520L" -> "a5y17ltelgt"
    [] m = "A520S" -> "a5y17lteskt"
    [] m = "A720F" -> "a7y17lte"
    [] m = "A720S" -> "a7y17lteskt"
    [] OTHER -> "a5y17lte"

\* substr with an offset beyond the end throws.
TooShort(b) == b.length < MODEL_NAME_LEN

\* Mutant: with the device the model is forced, too.
ModelForced(b) == IF Codename(b.model) = "a5y17lte" THEN "A520F" ELSE b.model

\* The model is the bootloader's, whether it is known or not.
ModelOf(b) == b.model

BootInit ==
  /\ bootloader \in Bootloaders
  /\ phase = "start"
  /\ model = Unset /\ device = Unset /\ iProduct = Unset

\* vendor_load_properties: a property that exists is overwritten, one that does not
\* is added.
LoadProperties ==
  /\ phase = "start" /\ ~TooShort(bootloader)
  /\ phase' = "loaded"
  /\ model' = ModelOf(bootloader) /\ device' = Codename(bootloader.model)
  /\ UNCHANGED <<bootloader, iProduct>>

\* Nobody catches the exception: init aborts, and the phone does not boot.
LoadThrows ==
  /\ phase = "start" /\ TooShort(bootloader)
  /\ phase' = "aborted"
  /\ UNCHANGED <<bootloader, model, device, iProduct>>

\* on boot: the gadget gets the names of the product.
OnBoot ==
  /\ phase = "loaded"
  /\ phase' = "up"
  /\ iProduct' = model
  /\ UNCHANGED <<bootloader, model, device>>

=============================================================================
