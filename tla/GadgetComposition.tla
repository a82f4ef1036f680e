-------------------------- MODULE GadgetComposition --------------------------
(***************************************************************************)
(* Which USB composition a request selects (usb/gadget/UsbGadget.cpp):     *)
(* the vendor functions read from the properties, the VID/PID pair written *)
(* to configfs, and the functions linked into configs/b.1.  Everything     *)
(* here is a constant-level table or operator; UsbGadget.tla is the        *)
(* machine that uses them.                                                 *)
(*                                                                         *)
(* A request is a set of the names below (the bits of GadgetFunction);     *)
(* GadgetFunction::NONE is the empty set.                                  *)
(***************************************************************************)
EXTENDS Sequences, Functions

CONSTANTS
  BuildType,      \* ro.build.type: "user" or anything else
  BootMode,       \* ro.bootmode: "usbradio" or anything else
  PersistConfig   \* persist.vendor.usb.usbradio.config, "" when it is unset

GadgetFunction ==
  {"adb", "accessory", "mtp", "midi", "ptp", "rndis", "audio_source"}

NONE == {}

\* The functions served by a user-space daemon through functionfs.
Ffs == {"mtp", "ptp", "adb"}

----------------------------------------------------------------------------
(* Vendor functions. *)

VendorStrings == {"", "user", "diag", "serial_cdev,diag", "diag,serial_cdev",
                  "diag,serial_cdev,rmnet_gsi"}

\* The function links each vendor string stands for; a token linkFunction is
\* never called for ("user") links nothing.
VendorLinks == [v \in VendorStrings |->
  CASE v = "diag" -> <<"diag">>
    [] v = "serial_cdev,diag" -> <<"serial_cdev", "diag">>
    [] v = "diag,serial_cdev" -> <<"diag", "serial_cdev">>
    [] v = "diag,serial_cdev,rmnet_gsi" -> <<"diag", "serial_cdev", "rmnet_gsi">>
    [] OTHER -> <<>>]

\* What getVendorFunctions returns when vendor.usb.config holds prop.
GetVendorFunctions(prop) ==
  IF BuildType = "user" THEN "user"
  ELSE IF prop # "" THEN prop
  ELSE IF BootMode # "usbradio" THEN ""
  ELSE IF PersistConfig # "" THEN PersistConfig ELSE "diag"

\* As a mutant: the default is used without being written back.
VendorConfigKept(prop) == prop

\* What getVendorFunctions leaves in vendor.usb.config: it writes the property
\* back only on the usbradio branch.
VendorConfigAfter(prop) ==
  IF BuildType # "user" /\ prop = "" /\ BootMode = "usbradio"
  THEN GetVendorFunctions(prop) ELSE prop

----------------------------------------------------------------------------
(* VID/PID selection: one table per arm of validateAndSetVidPid's switch. *)

\* The function with these <<key, value>> entries.
Table(entries) ==
  [key \in {e[1] : e \in entries} |-> (CHOOSE e \in entries : e[1] = key)[2]]

\* <<functions, vendor functions>> that have a Qualcomm product id.
QualcommPid == Table({
  <<<<{"mtp"}, "diag">>, "901B">>, <<<<{"adb", "mtp"}, "diag">>, "903A">>,
  <<<<{"rndis"}, "diag">>, "902C">>, <<<<{"rndis"}, "serial_cdev,diag">>, "90B5">>,
  <<<<{"adb", "rndis"}, "diag">>, "902D">>,
  <<<<{"adb", "rndis"}, "serial_cdev,diag">>, "90B6">>,
  <<<<{"adb"}, "diag">>, "901D">>, <<<<{"adb"}, "diag,serial_cdev">>, "901F">>,
  <<<<{"adb"}, "diag,serial_cdev,rmnet_gsi">>, "9091">>})

\* The arms that reject any other vendor configuration.
GooglePid == Table({
  <<{"mtp"}, "4ee1">>, <<{"adb", "mtp"}, "4ee2">>, <<{"rndis"}, "4ee3">>,
  <<{"adb", "rndis"}, "4ee4">>, <<{"ptp"}, "4ee5">>, <<{"adb", "ptp"}, "4ee6">>,
  <<{"adb"}, "4ee7">>, <<{"midi"}, "4ee8">>, <<{"adb", "midi"}, "4ee9">>})

\* The arms that only log an unexpected vendor configuration.
AccessoryPid == Table({
  <<{"accessory"}, "2d00">>, <<{"adb", "accessory"}, "2d01">>,
  <<{"audio_source"}, "2d02">>, <<{"adb", "audio_source"}, "2d03">>,
  <<{"accessory", "audio_source"}, "2d04">>,
  <<{"adb", "accessory", "audio_source"}, "2d05">>})

NotSupported == <<"", "">>

\* As a mutant: the vendor functions are not checked before a Google id.
VidPidUnchecked(functions, vendor) ==
  IF <<functions, vendor>> \in DOMAIN QualcommPid
  THEN <<"05C6", QualcommPid[<<functions, vendor>>]>>
  ELSE IF functions \in DOMAIN AccessoryPid
  THEN <<"18d1", AccessoryPid[functions]>>
  ELSE IF functions \in DOMAIN GooglePid
  THEN <<"18d1", GooglePid[functions]>> ELSE NotSupported

\* The <<idVendor, idProduct>> validateAndSetVidPid writes, NotSupported when
\* it answers CONFIGURATION_NOT_SUPPORTED.
VidPid(functions, vendor) ==
  IF <<functions, vendor>> \in DOMAIN QualcommPid
  THEN <<"05C6", QualcommPid[<<functions, vendor>>]>>
  ELSE IF functions \in DOMAIN AccessoryPid
  THEN <<"18d1", AccessoryPid[functions]>>
  ELSE IF functions \in DOMAIN GooglePid /\ vendor \in {"user", ""}
  THEN <<"18d1", GooglePid[functions]>>
  ELSE NotSupported

----------------------------------------------------------------------------
(* The functions setupFunctions links. *)

\* In the order they are linked; PTP is only looked at without MTP.
LinkList(functions, vendor) ==
  LET Link(f) == IF f \in functions THEN <<f>> ELSE <<>>
  IN  (IF "mtp" \in functions THEN <<"mtp">> ELSE Link("ptp"))
      \o Link("midi") \o Link("accessory") \o Link("audio_source")
      \o Link("rndis") \o VendorLinks[vendor] \o Link("adb")

\* Every name linkFunction can put into the configuration.
LinkName == GadgetFunction \cup {"diag", "serial_cdev", "rmnet_gsi"}
=============================================================================
