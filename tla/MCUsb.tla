------------------------------- MODULE MCUsb --------------------------------
(***************************************************************************)
(* UsbGadget for TLC.                                                      *)
(***************************************************************************)
EXTENDS UsbProps

\* Two models, one of them unknown; a bootloader that is nothing but its model,
\* and one that is too short.
MCBootloaders ==
  {[model |-> "A720F", length |-> 13], [model |-> "A520X", length |-> 5],
   [model |-> "A52", length |-> 3]}

MCRequested == {"mtp", "rndis,adb", "ncm,adb"}
MCHidden == {"mtp", "diag,acm,adb"}

=============================================================================
