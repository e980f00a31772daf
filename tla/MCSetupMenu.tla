---------------------------- MODULE MCSetupMenu -----------------------------
(***************************************************************************)
(* A small board: two USB ports with one letter, an SD card and PXE, and   *)
(* five settings, among them the two that depend on the board, the one     *)
(* with the lost strstr and the watchdog.                                  *)
(***************************************************************************)
EXTENDS SetupMenu

MCDevices == {"usb1", "usb2", "sdcard"}
MCTags == {"pxen", "com2en", "sd3mode", "pciereverse", "watchdog"}
MCTagOrder == <<"pxen", "com2en", "sd3mode", "pciereverse", "watchdog">>
MCLetter == [d \in MCDevices |-> IF d = "sdcard" THEN "b" ELSE "a"]

DeviceLines == <<DeviceRow("usb1"), DeviceRow("usb2"), DeviceRow("sdcard")>>

MCDef == DeviceLines \o
    <<TagRow("pxen", 1), TagRow("com2en", 1), TagRow("sd3mode", 0),
      TagRow("watchdog", 0)>>

\* A file of an older release, without the newest setting; and one that was
\* reordered, of a board without COM2, whose watchdog row is the last.
MCInitialFiles ==
    {MCDef,
     <<DeviceRow("sdcard"), DeviceRow("usb2"), DeviceRow("usb1"),
       TagRow("pxen", 0), TagRow("sd3mode", 1), TagRow("pciereverse", 1),
       TagRow("watchdog", 60)>>}
=============================================================================
