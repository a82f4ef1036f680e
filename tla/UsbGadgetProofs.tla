--------------------------- MODULE UsbGadgetProofs ---------------------------
(***************************************************************************)
(* Proofs about UsbGadget: the tables of ids and links, type correctness,  *)
(* the safety invariants and the action property on what                   *)
(* getCurrentUsbFunctions says, for any number of binder threads, any      *)
(* requests, vendor configurations and budgets.                            *)
(***************************************************************************)
EXTENDS UsbGadget, SequenceTheorems, TLAPS

USE DEF LockFree, LinksAfterLoop, NoEndpoints, MonitorToStop, PullupAtStart,
        FirstMonitorPc, StopSignalled

\* What getVendorFunctions returns is a vendor string.
LEMMA VendorFunctionsType ==
  ASSUME NEW p \in VendorStrings
  PROVE  /\ GetVendorFunctions(p) \in VendorStrings
         /\ VendorConfigAfter(p) \in VendorStrings
BY VendorAssumption DEF GetVendorFunctions, VendorConfigAfter, VendorStrings

\* Short tuples are sequences over the set of their elements.
LEMMA TupleType ==
  ASSUME NEW S
  PROVE  /\ <<>> \in Seq(S)
         /\ \A a \in S : <<a>> \in Seq(S)
         /\ \A a, b \in S : <<a, b>> \in Seq(S)
         /\ \A a, b, c \in S : <<a, b, c>> \in Seq(S)
OBVIOUS

\* setupFunctions links nothing but the functions configfs knows.
LEMMA LinkListType ==
  ASSUME NEW functions \in SUBSET GadgetFunction, NEW v \in VendorStrings
  PROVE  LinkList(functions, v) \in Seq(LinkName)
<1>1. /\ "diag" \in LinkName /\ "serial_cdev" \in LinkName
      /\ "rmnet_gsi" \in LinkName /\ GadgetFunction \subseteq LinkName
  BY DEF LinkName
<1>2. VendorLinks[v] \in Seq(LinkName)
  <2>1. \/ VendorLinks[v] = <<"diag">>
        \/ VendorLinks[v] = <<"serial_cdev", "diag">>
        \/ VendorLinks[v] = <<"diag", "serial_cdev">>
        \/ VendorLinks[v] = <<"diag", "serial_cdev", "rmnet_gsi">>
        \/ VendorLinks[v] = <<>>
    BY DEF VendorLinks, VendorStrings
  <2>. QED  BY <1>1, <2>1, TupleType, Zenon
<1>. DEFINE Link(f) == IF f \in functions THEN <<f>> ELSE <<>>
<1>3. \A f \in GadgetFunction : Link(f) \in Seq(LinkName)
  BY <1>1, TupleType, Zenon
<1>4. /\ Link("midi") \in Seq(LinkName) /\ Link("accessory") \in Seq(LinkName)
      /\ Link("audio_source") \in Seq(LinkName)
      /\ Link("rndis") \in Seq(LinkName) /\ Link("adb") \in Seq(LinkName)
      /\ (IF "mtp" \in functions THEN <<"mtp">> ELSE Link("ptp")) \in Seq(LinkName)
  <2>. HIDE DEF Link
  <2>1. {"midi", "accessory", "audio_source", "rndis", "adb", "ptp", "mtp"}
          \subseteq GadgetFunction
    BY DEF GadgetFunction
  <2>2. <<"mtp">> \in Seq(LinkName)
    BY <1>1, <2>1, TupleType, Zenon
  <2>. QED  BY <1>3, <2>1, <2>2
<1>5. LinkList(functions, v) =
        (IF "mtp" \in functions THEN <<"mtp">> ELSE Link("ptp"))
        \o Link("midi") \o Link("accessory") \o Link("audio_source")
        \o Link("rndis") \o VendorLinks[v] \o Link("adb")
  BY Zenon DEF LinkList, Link
<1>. HIDE DEF Link
<1>. QED  BY <1>2, <1>4, <1>5

\* No vendor function is one of the bits of GadgetFunction.
LEMMA VendorLinksRange ==
  ASSUME NEW v \in VendorStrings
  PROVE  /\ VendorLinks[v] \in Seq(LinkName)
         /\ Range(VendorLinks[v]) \cap GadgetFunction = {}
<1>1. \/ VendorLinks[v] = <<"diag">>
      \/ VendorLinks[v] = <<"serial_cdev", "diag">>
      \/ VendorLinks[v] = <<"diag", "serial_cdev">>
      \/ VendorLinks[v] = <<"diag", "serial_cdev", "rmnet_gsi">>
      \/ VendorLinks[v] = <<>>
  BY DEF VendorLinks, VendorStrings
<1> DEFINE Own == {"diag", "serial_cdev", "rmnet_gsi"}
<1>2. VendorLinks[v] \in Seq(Own)
  <2>1. {"diag", "serial_cdev", "rmnet_gsi"} \subseteq Own
    OBVIOUS
  <2> HIDE DEF Own
  <2> QED BY <1>1, <2>1, TupleType, Zenon
<1>3. Own \subseteq LinkName /\ Own \cap GadgetFunction = {}
  BY DEF LinkName, GadgetFunction
<1> HIDE DEF Own
<1>4. Range(VendorLinks[v]) \subseteq Own
  BY <1>2 DEF Range
<1> QED BY <1>2, <1>3, <1>4

\* What setupFunctions links: the functions asked for, without PTP where there
\* is MTP, and those of the vendor string.
LEMMA LinkListRange ==
  ASSUME NEW functions \in SUBSET GadgetFunction, NEW v \in VendorStrings
  PROVE  Range(LinkList(functions, v)) =
           (IF "mtp" \in functions THEN functions \ {"ptp"} ELSE functions)
             \cup Range(VendorLinks[v])
<1> DEFINE Link(f) == IF f \in functions THEN <<f>> ELSE <<>>
           First == IF "mtp" \in functions THEN <<"mtp">> ELSE Link("ptp")
<1>1. LinkList(functions, v) =
        First \o Link("midi") \o Link("accessory") \o Link("audio_source")
        \o Link("rndis") \o VendorLinks[v] \o Link("adb")
  BY Zenon DEF LinkList, Link
<1>2. GadgetFunction \subseteq LinkName
  BY DEF LinkName
<1>3. \A f : Range(<<f>>) = {f}
  BY DEF Range
<1>4. Range(<<>>) = {}
  BY DEF Range
<1>5. \A f \in GadgetFunction :
        Link(f) \in Seq(LinkName) /\ Range(Link(f)) = functions \cap {f}
  <2> SUFFICES ASSUME NEW f \in GadgetFunction
               PROVE  Link(f) \in Seq(LinkName) /\ Range(Link(f)) = functions \cap {f}
    OBVIOUS
  <2>1. CASE f \in functions
    <3>1. Link(f) = <<f>> /\ f \in LinkName
      BY <1>2, <2>1
    <3>2. <<f>> \in Seq(LinkName)
      BY <3>1
    <3> QED BY <1>3, <2>1, <3>1, <3>2
  <2>2. CASE f \notin functions
    BY <1>4, <2>2, TupleType, Zenon
  <2> QED BY <2>1, <2>2
<1> HIDE DEF Link
<1>6. {"midi", "accessory", "audio_source", "rndis", "adb", "ptp", "mtp"}
        = GadgetFunction
  BY DEF GadgetFunction
<1>7. /\ First \in Seq(LinkName)
      /\ Range(First) = IF "mtp" \in functions THEN {"mtp"}
                                               ELSE functions \cap {"ptp"}
  <2>1. CASE "mtp" \in functions
    BY <1>2, <1>3, <2>1, TupleType, Zenon
  <2>2. CASE "mtp" \notin functions
    BY <1>5, <1>6, <2>2
  <2> QED BY <2>1, <2>2
<1> HIDE DEF First
<1> DEFINE s1 == First \o Link("midi")
           s2 == s1 \o Link("accessory")
           s3 == s2 \o Link("audio_source")
           s4 == s3 \o Link("rndis")
           s5 == s4 \o VendorLinks[v]
           s6 == s5 \o Link("adb")
<1>8. \A s, t \in Seq(LinkName) :
        s \o t \in Seq(LinkName) /\ Range(s \o t) = Range(s) \cup Range(t)
  BY RangeConcatenation
<1>9. s1 \in Seq(LinkName) /\ Range(s1) = Range(First) \cup (functions \cap {"midi"})
  BY <1>5, <1>6, <1>7, <1>8
<1> HIDE DEF s1
<1>10. s2 \in Seq(LinkName)
       /\ Range(s2) = Range(s1) \cup (functions \cap {"accessory"})
  BY <1>5, <1>6, <1>8, <1>9
<1> HIDE DEF s2
<1>11. s3 \in Seq(LinkName)
       /\ Range(s3) = Range(s2) \cup (functions \cap {"audio_source"})
  BY <1>5, <1>6, <1>8, <1>10
<1> HIDE DEF s3
<1>12. s4 \in Seq(LinkName) /\ Range(s4) = Range(s3) \cup (functions \cap {"rndis"})
  BY <1>5, <1>6, <1>8, <1>11
<1> HIDE DEF s4
<1>13. s5 \in Seq(LinkName) /\ Range(s5) = Range(s4) \cup Range(VendorLinks[v])
  BY <1>8, <1>12, VendorLinksRange
<1> HIDE DEF s5
<1>14. Range(s6) = Range(s5) \cup (functions \cap {"adb"})
  BY <1>5, <1>6, <1>8, <1>13
<1>15. LinkList(functions, v) = s6
  BY <1>1 DEF s1, s2, s3, s4, s5
<1> HIDE DEF s6
<1>16. functions = UNION {functions \cap {f} : f \in GadgetFunction}
  OBVIOUS
<1> QED
  BY <1>6, <1>7, <1>9, <1>10, <1>11, <1>12, <1>13, <1>14, <1>15, <1>16


\* A table in which no value comes twice can be read backwards.
LEMMA TableReadBackwards ==
  ASSUME NEW entries,
         \A d, e \in entries : d[2] = e[2] => d[1] = e[1]
  PROVE  /\ \A x, y \in DOMAIN Table(entries) :
              Table(entries)[x] = Table(entries)[y] => x = y
         /\ \A x \in DOMAIN Table(entries) : Table(entries)[x] \in {e[2] : e \in entries}
<1>1. ASSUME NEW x \in DOMAIN Table(entries)
      PROVE  \E e \in entries : e[1] = x /\ Table(entries)[x] = e[2]
  <2>1. x \in {e[1] : e \in entries}
    BY DEF Table
  <2> DEFINE e == CHOOSE e \in entries : e[1] = x
  <2>2. e \in entries /\ e[1] = x
    BY <2>1
  <2>3. Table(entries)[x] = e[2]
    BY <2>1 DEF Table
  <2> QED BY <2>2, <2>3
<1>2. ASSUME NEW x \in DOMAIN Table(entries), NEW y \in DOMAIN Table(entries),
             Table(entries)[x] = Table(entries)[y]
      PROVE  x = y
  <2>1. PICK d \in entries : d[1] = x /\ Table(entries)[x] = d[2]
    BY <1>1
  <2>2. PICK e \in entries : e[1] = y /\ Table(entries)[y] = e[2]
    BY <1>1
  <2> QED BY <1>2, <2>1, <2>2
<1> QED BY <1>1, <1>2

LEMMA QualcommReadBackwards ==
  \A x, y \in DOMAIN QualcommPid : QualcommPid[x] = QualcommPid[y] => x = y
<1> DEFINE k1 == <<{"mtp"}, "diag">>
           k2 == <<{"adb", "mtp"}, "diag">>
           k3 == <<{"rndis"}, "diag">>
           k4 == <<{"rndis"}, "serial_cdev,diag">>
           k5 == <<{"adb", "rndis"}, "diag">>
           k6 == <<{"adb", "rndis"}, "serial_cdev,diag">>
           k7 == <<{"adb"}, "diag">>
           k8 == <<{"adb"}, "diag,serial_cdev">>
           k9 == <<{"adb"}, "diag,serial_cdev,rmnet_gsi">>
           entries == {
             <<k1, "901B">>, <<k2, "903A">>, <<k3, "902C">>, <<k4, "90B5">>,
             <<k5, "902D">>, <<k6, "90B6">>, <<k7, "901D">>, <<k8, "901F">>,
             <<k9, "9091">>}
<1>1. QualcommPid = Table(entries)
  BY DEF QualcommPid
<1> HIDE DEF k1, k2, k3, k4, k5, k6, k7, k8, k9
<1>2. \A d, e \in entries : d[2] = e[2] => d[1] = e[1]
  OBVIOUS
<1> HIDE DEF entries
<1> QED BY <1>1, <1>2, TableReadBackwards

LEMMA GoogleReadBackwards ==
  \A x, y \in DOMAIN GooglePid : GooglePid[x] = GooglePid[y] => x = y
BY TableReadBackwards DEF GooglePid

\* Two requests are announced with the same VID/PID only if they are for the same
\* functions and vendor functions, or it is an id of the accessory protocol.
LEMMA VidPidReadBackwards ==
  ASSUME NEW f, NEW g, NEW v, NEW w,
         VidPid(f, v) = VidPid(g, w), VidPid(f, v) # NotSupported,
         VidPid(f, v)[2] \notin Range(AccessoryPid)
  PROVE  f = g /\ (v = w \/ {v, w} \subseteq {"user", ""})
<1>1. ASSUME NEW a, NEW b, VidPid(a, b) # NotSupported,
             VidPid(a, b)[2] \notin Range(AccessoryPid)
      PROVE  \/ /\ <<a, b>> \in DOMAIN QualcommPid
                /\ VidPid(a, b) = <<"05C6", QualcommPid[<<a, b>>]>>
             \/ /\ a \in DOMAIN GooglePid /\ b \in {"user", ""}
                /\ VidPid(a, b) = <<"18d1", GooglePid[a]>>
  BY <1>1 DEF VidPid, Range
<1>2. \A x, y : <<"05C6", x>> # <<"18d1", y>>
  OBVIOUS
<1>3. \A x, y, z : <<z, x>> = <<z, y>> => x = y
  OBVIOUS
<1>4. CASE /\ <<f, v>> \in DOMAIN QualcommPid
           /\ VidPid(f, v) = <<"05C6", QualcommPid[<<f, v>>]>>
  <2>1. /\ <<g, w>> \in DOMAIN QualcommPid
        /\ VidPid(g, w) = <<"05C6", QualcommPid[<<g, w>>]>>
    <3>1. VidPid(g, w) # <<"18d1", GooglePid[g]>>
      BY <1>2, <1>4
    <3>2. VidPid(g, w) # NotSupported /\ VidPid(g, w)[2] \notin Range(AccessoryPid)
      OBVIOUS
    <3> QED BY <1>1, <3>1, <3>2
  <2>2. QualcommPid[<<f, v>>] = QualcommPid[<<g, w>>]
    BY <1>3, <1>4, <2>1
  <2>3. <<f, v>> = <<g, w>>
    <3> DEFINE x == <<f, v>>
               y == <<g, w>>
    <3>1. x \in DOMAIN QualcommPid /\ y \in DOMAIN QualcommPid
          /\ QualcommPid[x] = QualcommPid[y]
      BY <1>4, <2>1, <2>2
    <3> HIDE DEF x, y
    <3>2. x = y
      BY <3>1, QualcommReadBackwards
    <3> QED BY <3>2 DEF x, y
  <2> QED BY <2>3
<1>5. CASE /\ f \in DOMAIN GooglePid /\ v \in {"user", ""}
           /\ VidPid(f, v) = <<"18d1", GooglePid[f]>>
  <2>1. /\ g \in DOMAIN GooglePid /\ w \in {"user", ""}
        /\ VidPid(g, w) = <<"18d1", GooglePid[g]>>
    <3>1. VidPid(g, w) # <<"05C6", QualcommPid[<<g, w>>]>>
      BY <1>2, <1>5
    <3>2. VidPid(g, w) # NotSupported /\ VidPid(g, w)[2] \notin Range(AccessoryPid)
      OBVIOUS
    <3> QED BY <1>1, <3>1, <3>2
  <2>2. GooglePid[f] = GooglePid[g]
    BY <1>3, <1>5, <2>1
  <2>3. f = g
    BY <1>5, <2>1, <2>2, GoogleReadBackwards
  <2> QED BY <1>5, <2>1, <2>3
<1> QED BY <1>1, <1>4, <1>5

\* SameIdsSameLinks, which is about constants only.
LEMMA IdsDecideLinks == SameIdsSameLinks
<1> DEFINE idsOf(r) == VidPid(r[1], GetVendorFunctions(r[2]))
           linksOf(r) == Range(LinkList(r[1], GetVendorFunctions(r[2])))
           requests == (SUBSET GadgetFunction) \X VendorStrings
<1>1. ASSUME NEW r \in requests, NEW s \in requests, idsOf(r) = idsOf(s),
             idsOf(r) # NotSupported, idsOf(r)[2] \notin Range(AccessoryPid)
      PROVE  linksOf(r) = linksOf(s)
  <2>1. PICK f \in SUBSET GadgetFunction, p \in VendorStrings : r = <<f, p>>
    OBVIOUS
  <2>2. PICK g \in SUBSET GadgetFunction, q \in VendorStrings : s = <<g, q>>
    OBVIOUS
  <2> DEFINE v == GetVendorFunctions(p)
             w == GetVendorFunctions(q)
  <2>3. v \in VendorStrings /\ w \in VendorStrings
    BY VendorFunctionsType
  <2>4. VidPid(f, v) = VidPid(g, w) /\ VidPid(f, v) # NotSupported
        /\ VidPid(f, v)[2] \notin Range(AccessoryPid)
    BY <1>1, <2>1, <2>2
  <2>5. linksOf(r) = Range(LinkList(f, v)) /\ linksOf(s) = Range(LinkList(g, w))
    BY <2>1, <2>2
  <2> HIDE DEF v, w, linksOf
  <2>6. f = g /\ (v = w \/ {v, w} \subseteq {"user", ""})
    BY <2>4, VidPidReadBackwards
  <2>7. VendorLinks["user"] = <<>> /\ VendorLinks[""] = <<>>
    BY DEF VendorLinks, VendorStrings
  <2>8. VendorLinks[v] = VendorLinks[w]
    BY <2>6, <2>7
  <2>9. Range(LinkList(f, v)) = Range(LinkList(f, w))
    <3> DEFINE own == IF "mtp" \in f THEN f \ {"ptp"} ELSE f
    <3>1. f \in SUBSET GadgetFunction
      BY <2>1
    <3>2. /\ Range(LinkList(f, v)) = own \cup Range(VendorLinks[v])
          /\ Range(LinkList(f, w)) = own \cup Range(VendorLinks[w])
      BY <2>3, <3>1, LinkListRange, Zenon
    <3> HIDE DEF own
    <3> QED BY <2>8, <3>2
  <2> QED BY <2>5, <2>6, <2>9
<1> HIDE DEF idsOf
<1>2. \A r \in requests : [x \in requests |-> idsOf(x)][r] = idsOf(r)
  OBVIOUS
<1> QED BY <1>1 DEF SameIdsSameLinks, idsOf

----------------------------------------------------------------------------
(* Types. *)

\* A thread's label stays a label.
LEMMA GotoType ==
  ASSUME NEW c \in Callers, NEW label \in CallerPcs,
         pc \in [Callers -> CallerPcs], Goto(c, label)
  PROVE  pc' \in [Callers -> CallerPcs]
BY DEF Goto

LEMMA FailType ==
  ASSUME NEW c \in Callers, NEW s \in Status,
         pc \in [Callers -> CallerPcs], Fail(c, s)
  PROVE  pc' \in [Callers -> CallerPcs] /\ status' \in Status
BY DEF Fail, Goto, CallerPcs, SetupPcs

LEMMA PcNames ==
  /\ "idle" \in CallerPcs /\ "locking" \in CallerPcs /\ "clear" \in CallerPcs
  /\ "disconnect" \in CallerPcs /\ "validate" \in CallerPcs
  /\ TearDownPcs \subseteq CallerPcs /\ SetupPcs \subseteq CallerPcs
  /\ {"pullDown", "clearDesc", "unlink", "stop", "join"} = TearDownPcs
  /\ {"setup", "link", "pullUp", "start", "wait", "answer"} = SetupPcs
  /\ {"SUCCESS", "ERROR", "CONFIGURATION_NOT_SUPPORTED"} = Status
BY DEF CallerPcs, TearDownPcs, SetupPcs, Status

LEMMA NotifyType ==
  ASSUME NEW f, inotifyQ \in Nat, MaxEvents \in Nat, Notify(f)
  PROVE  inotifyQ' \in Nat
BY DEF Notify

\* A budget that is spent stays a function from kinds to numbers.
LEMMA SpendType ==
  ASSUME NEW k \in Kinds, left \in [Kinds -> Nat], Spend(k)
  PROVE  left' \in [Kinds -> Nat]
BY DEF Spend

LEMMA KindNames ==
  {"calls", "resets", "crashes", "writeFaults", "unlinkFaults", "closes",
   "usbHal", "vendor"} = Kinds
BY DEF Kinds

LEMMA NoneType == NONE \in SUBSET GadgetFunction
BY DEF NONE

LEMMA PairShape == \A a, b : DOMAIN <<a, b>> = 1..2
OBVIOUS

\* What is written to idVendor and idProduct is always a pair.
LEMMA VidPidShape ==
  ASSUME NEW functions, NEW v
  PROVE  DOMAIN VidPid(functions, v) = 1..2
<1>1. \E a, b : VidPid(functions, v) = <<a, b>>
  BY DEF VidPid, NotSupported
<1>. QED  BY <1>1

\* The initial values have the types of the variables.
LEMMA InitType == Init => TypeOK
<1>. SUFFICES ASSUME Init PROVE TypeOK
  OBVIOUS
<1>1. HalTypeOK
  BY RequestsAssumption, TupleType, NoneType DEF Init, HalTypeOK
<1>2. CallTypeOK
  BY PcNames, TupleType, NoneType DEF Init, CallTypeOK
<1>3. MonitorTypeOK
  BY NoneType DEF Init, MonitorTypeOK, MonitorPcs
<1>4. KernelTypeOK
  BY PairShape DEF Init, KernelTypeOK
<1>5. OutsideTypeOK
  <2>1. vendorConfig \in VendorStrings
    BY VendorAssumption DEF Init, VendorStrings
  <2>2. ffs \in [Ffs -> FfsState]
    BY DEF Init, FfsState
  <2>. QED  BY <2>1, <2>2, BudgetAssumption, NoneType DEF Init, OutsideTypeOK
<1>. QED  BY <1>1, <1>2, <1>3, <1>4, <1>5 DEF TypeOK

\* Every step keeps the types: one step per action, and under it one per part
\* of TypeOK whose variables the action changes.
LEMMA TypeStep == TypeOK /\ [Next]_vars => TypeOK'
<1>. SUFFICES ASSUME TypeOK, [Next]_vars PROVE TypeOK'
  OBVIOUS
<1>. USE DEF TypeOK
<1>1. ASSUME NEW c \in Callers, NEW functions \in Requests \cup {NONE},
             NEW callback \in BOOLEAN, Call(c, functions, callback)
      PROVE  TypeOK'
  <2>1. CallTypeOK'
    BY <1>1, RequestsAssumption, GotoType, FailType, PcNames, NoneType
    DEF Call, CallTypeOK
  <2>2. OutsideTypeOK'
    BY <1>1, RequestsAssumption, SpendType, KindNames
    DEF Call, OutsideTypeOK, outside
  <2>. QED
    BY <1>1, <2>1, <2>2
    DEF Call, HalTypeOK, hal, MonitorTypeOK, monitor, KernelTypeOK, inotify, configfs
<1>2. ASSUME NEW c \in Callers, Lock(c) PROVE TypeOK'
  <2>1. HalTypeOK'
    BY <1>2
    DEF Lock, HalTypeOK, CallTypeOK
  <2>2. CallTypeOK'
    BY <1>2, GotoType, FailType, PcNames
    DEF Lock, CallTypeOK
  <2>. QED
    BY <1>2, <2>1, <2>2
    DEF Lock, MonitorTypeOK, monitor, KernelTypeOK, inotify, configfs, OutsideTypeOK, outside
<1>3. ASSUME NEW c \in Callers, ClearApplied(c) PROVE TypeOK'
  <2>1. HalTypeOK'
    BY <1>3
    DEF ClearApplied, HalTypeOK
  <2>2. CallTypeOK'
    BY <1>3, GotoType, FailType, PcNames
    DEF ClearApplied, CallTypeOK
  <2>. QED
    BY <1>3, <2>1, <2>2
    DEF ClearApplied, MonitorTypeOK, monitor, KernelTypeOK, inotify, configfs, OutsideTypeOK, outside
<1>4. ASSUME NEW c \in Callers, PullDown(c) PROVE TypeOK'
  <2>1. CallTypeOK'
    BY <1>4, GotoType, FailType, PcNames
    DEF PullDown, CallTypeOK
  <2>2. KernelTypeOK'
    BY <1>4
    DEF PullDown, KernelTypeOK, inotify
  <2>3. OutsideTypeOK'
    BY <1>4, SpendType, KindNames
    DEF PullDown, OutsideTypeOK, outside
  <2>. QED
    BY <1>4, <2>1, <2>2, <2>3
    DEF PullDown, HalTypeOK, hal, MonitorTypeOK, monitor
<1>5. ASSUME NEW c \in Callers, ClearDescriptors(c) PROVE TypeOK'
  <2>1. CallTypeOK'
    BY <1>5, GotoType, FailType, PcNames
    DEF ClearDescriptors, CallTypeOK
  <2>2. OutsideTypeOK'
    BY <1>5, SpendType, KindNames
    DEF ClearDescriptors, OutsideTypeOK, outside
  <2>. QED
    BY <1>5, <2>1, <2>2
    DEF ClearDescriptors, HalTypeOK, hal, MonitorTypeOK, monitor, KernelTypeOK, inotify, configfs
<1>6. ASSUME NEW c \in Callers, UnlinkFunctions(c) PROVE TypeOK'
  <2>1. CallTypeOK'
    BY <1>6, GotoType, FailType, PcNames
    DEF UnlinkFunctions, CallTypeOK
  <2>2. KernelTypeOK'
    BY <1>6
    DEF UnlinkFunctions, KernelTypeOK, inotify
  <2>3. OutsideTypeOK'
    BY <1>6, SpendType, KindNames
    DEF UnlinkFunctions, OutsideTypeOK, outside
  <2>. QED
    BY <1>6, <2>1, <2>2, <2>3
    DEF UnlinkFunctions, HalTypeOK, hal, MonitorTypeOK, monitor
<1>7. ASSUME NEW c \in Callers, StopMonitor(c) PROVE TypeOK'
  <2>1. HalTypeOK'
    BY <1>7, TupleType
    DEF StopMonitor, HalTypeOK, Release
  <2>2. CallTypeOK'
    BY <1>7, GotoType, FailType, PcNames
    DEF StopMonitor, CallTypeOK
  <2>3. KernelTypeOK'
    <3>1. CASE MonitorToStop
      BY <1>7, <3>1 DEF StopMonitor, KernelTypeOK, inotify, configfs
    <3>2. CASE ~MonitorToStop
      <4>1. mEventFd' = FALSE /\ watched' = {} /\ inotifyQ' = 0 /\ UNCHANGED configfs
        BY <1>7, <3>2 DEF StopMonitor, Release, CloseInotify
      <4>. QED  BY <4>1 DEF KernelTypeOK, configfs
    <3>. QED  BY <3>1, <3>2
  <2>. QED
    BY <1>7, <2>1, <2>2, <2>3
    DEF StopMonitor, MonitorTypeOK, monitor, OutsideTypeOK, outside
<1>8. ASSUME NEW c \in Callers, JoinMonitor(c) PROVE TypeOK'
  <2>1. HalTypeOK'
    BY <1>8, TupleType
    DEF JoinMonitor, HalTypeOK, Release
  <2>2. CallTypeOK'
    BY <1>8, GotoType, FailType, PcNames
    DEF JoinMonitor, CallTypeOK
  <2>3. MonitorTypeOK'
    BY <1>8
    DEF JoinMonitor, MonitorTypeOK, MonitorPcs
  <2>4. KernelTypeOK'
    BY <1>8
    DEF JoinMonitor, KernelTypeOK, Release, CloseInotify, configfs
  <2>. QED
    BY <1>8, <2>1, <2>2, <2>3, <2>4
    DEF JoinMonitor, OutsideTypeOK, outside
<1>9. ASSUME NEW c \in Callers, Disconnected(c) PROVE TypeOK'
  <2>1. CallTypeOK'
    BY <1>9, GotoType, FailType, PcNames
    DEF Disconnected, CallTypeOK
  <2>. QED
    BY <1>9, <2>1
    DEF Disconnected, HalTypeOK, hal, MonitorTypeOK, monitor, KernelTypeOK, inotify, configfs, OutsideTypeOK, outside
<1>10. ASSUME NEW c \in Callers, Validate(c) PROVE TypeOK'
  <2>1. CallTypeOK'
    BY <1>10, GotoType, FailType, PcNames
    DEF Validate, CallTypeOK
  <2>2. KernelTypeOK'
    BY <1>10, VidPidShape
    DEF Validate, KernelTypeOK, inotify
  <2>3. OutsideTypeOK'
    BY <1>10, VendorFunctionsType, SpendType, KindNames
    DEF Validate, OutsideTypeOK
  <2>. QED
    BY <1>10, <2>1, <2>2, <2>3
    DEF Validate, HalTypeOK, hal, MonitorTypeOK, monitor
<1>11. ASSUME NEW c \in Callers, SetupFunctions(c) PROVE TypeOK'
  <2>1. HalTypeOK'
    BY <1>11
    DEF SetupFunctions, HalTypeOK
  <2>2. CallTypeOK'
    BY <1>11, VendorFunctionsType, LinkListType, GotoType, PcNames
    DEF SetupFunctions, CallTypeOK, OutsideTypeOK
  <2>3. OutsideTypeOK'
    BY <1>11, VendorFunctionsType
    DEF SetupFunctions, OutsideTypeOK
  <2>. QED
    BY <1>11, <2>1, <2>2, <2>3
    DEF SetupFunctions, MonitorTypeOK, monitor, KernelTypeOK, inotify, configfs
<1>12. ASSUME NEW c \in Callers, LinkFunction(c) PROVE TypeOK'
  <2>1. HalTypeOK'
    <3>1. CASE Head(todo) \in Ffs /\ mEndpointList' = Append(mEndpointList, Head(todo))
      BY <1>12, <3>1 DEF LinkFunction, HalTypeOK
    <3>2. CASE UNCHANGED mEndpointList
      BY <1>12, <3>2 DEF LinkFunction, HalTypeOK
    <3>. QED  BY <1>12, <3>1, <3>2 DEF LinkFunction
  <2>2. CallTypeOK'
    BY <1>12, GotoType, FailType, PcNames
    DEF LinkFunction, CallTypeOK
  <2>3. KernelTypeOK'
    BY <1>12
    DEF LinkFunction, KernelTypeOK, CallTypeOK, CloseInotify
  <2>4. OutsideTypeOK'
    BY <1>12, SpendType, KindNames
    DEF LinkFunction, OutsideTypeOK, outside
  <2>. QED
    BY <1>12, <2>1, <2>2, <2>3, <2>4
    DEF LinkFunction, MonitorTypeOK, monitor
<1>13. ASSUME NEW c \in Callers, LinksMade(c) PROVE TypeOK'
  <2>1. CallTypeOK'
    BY <1>13, GotoType, FailType, PcNames
    DEF LinksMade, CallTypeOK
  <2>. QED
    BY <1>13, <2>1
    DEF LinksMade, HalTypeOK, hal, MonitorTypeOK, monitor, KernelTypeOK, inotify, configfs, OutsideTypeOK, outside
<1>14. ASSUME NEW c \in Callers, PullUp(c) PROVE TypeOK'
  <2>1. HalTypeOK'
    BY <1>14
    DEF PullUp, HalTypeOK
  <2>2. CallTypeOK'
    BY <1>14, GotoType, FailType, PcNames
    DEF PullUp, CallTypeOK
  <2>3. KernelTypeOK'
    BY <1>14
    DEF PullUp, KernelTypeOK, inotify
  <2>4. OutsideTypeOK'
    BY <1>14, SpendType, KindNames
    DEF PullUp, OutsideTypeOK, CallTypeOK, outside
  <2>. QED
    BY <1>14, <2>1, <2>2, <2>3, <2>4
    DEF PullUp, MonitorTypeOK, monitor
<1>15. ASSUME NEW c \in Callers, StartMonitor(c) PROVE TypeOK'
  <2>1. HalTypeOK'
    BY <1>15
    DEF StartMonitor, HalTypeOK
  <2>2. CallTypeOK'
    BY <1>15, GotoType, FailType, PcNames
    DEF StartMonitor, CallTypeOK
  <2>3. MonitorTypeOK'
    <3>1. monPc' \in MonitorPcs
      BY <1>15 DEF StartMonitor, MonitorTypeOK, CallTypeOK, MonitorPcs, monitor
    <3>2. writeUdc' \in BOOLEAN /\ stopSeen' \in BOOLEAN
      BY <1>15 DEF StartMonitor, MonitorTypeOK, CallTypeOK, MonitorPcs, monitor
    <3>3. scan' \in Nat /\ batch' \in Nat
      BY <1>15 DEF StartMonitor, MonitorTypeOK, CallTypeOK, MonitorPcs, monitor
    <3>4. monFor' \in SUBSET GadgetFunction
      BY <1>15 DEF StartMonitor, MonitorTypeOK, CallTypeOK, MonitorPcs, monitor
    <3>. QED  BY <3>1, <3>2, <3>3, <3>4 DEF MonitorTypeOK
  <2>4. KernelTypeOK'
    BY <1>15
    DEF StartMonitor, KernelTypeOK, CloseInotify, inotify, configfs
  <2>5. OutsideTypeOK'
    BY <1>15, SpendType, KindNames
    DEF StartMonitor, OutsideTypeOK, outside
  <2>. QED
    BY <1>15, <2>1, <2>2, <2>3, <2>4, <2>5
    DEF StartMonitor
<1>16. ASSUME NEW c \in Callers, WaitReturns(c) PROVE TypeOK'
  <2>1. HalTypeOK'
    BY <1>16
    DEF WaitReturns, HalTypeOK
  <2>2. CallTypeOK'
    BY <1>16, GotoType, FailType, PcNames
    DEF WaitReturns, CallTypeOK
  <2>. QED
    BY <1>16, <2>1, <2>2
    DEF WaitReturns, MonitorTypeOK, monitor, KernelTypeOK, inotify, configfs, OutsideTypeOK, outside
<1>17. ASSUME NEW c \in Callers, Answer(c) PROVE TypeOK'
  <2>1. HalTypeOK'
    BY <1>17
    DEF Answer, HalTypeOK
  <2>2. CallTypeOK'
    BY <1>17, GotoType, FailType, PcNames
    DEF Answer, CallTypeOK
  <2>. QED
    BY <1>17, <2>1, <2>2
    DEF Answer, MonitorTypeOK, monitor, KernelTypeOK, inotify, configfs, OutsideTypeOK, outside
<1>18. ASSUME NEW c \in Callers, Reset(c) PROVE TypeOK'
  <2>1. KernelTypeOK'
    BY <1>18
    DEF Reset, KernelTypeOK, inotify
  <2>2. OutsideTypeOK'
    BY <1>18, SpendType, KindNames
    DEF Reset, OutsideTypeOK, outside
  <2>. QED
    BY <1>18, <2>1, <2>2
    DEF Reset, HalTypeOK, hal, CallTypeOK, call, MonitorTypeOK, monitor
<1>19. CASE MonitorScan
  <2>1. MonitorTypeOK'
    <3>1. monPc' \in MonitorPcs
      BY <1>19 DEF MonitorScan, MonitorTypeOK, CallTypeOK, MonitorPcs, monitor
    <3>2. writeUdc' \in BOOLEAN /\ stopSeen' \in BOOLEAN
      BY <1>19 DEF MonitorScan, MonitorTypeOK, CallTypeOK, MonitorPcs, monitor
    <3>3. scan' \in Nat /\ batch' \in Nat
      BY <1>19 DEF MonitorScan, MonitorTypeOK, CallTypeOK, MonitorPcs, monitor
    <3>4. monFor' \in SUBSET GadgetFunction
      BY <1>19 DEF MonitorScan, MonitorTypeOK, CallTypeOK, MonitorPcs, monitor
    <3>. QED  BY <3>1, <3>2, <3>3, <3>4 DEF MonitorTypeOK
  <2>. QED
    BY <1>19, <2>1
    DEF MonitorScan, HalTypeOK, hal, CallTypeOK, call, KernelTypeOK, inotify, configfs, OutsideTypeOK, outside
<1>20. CASE MonitorWrite
  <2>1. MonitorTypeOK'
    BY <1>20
    DEF MonitorWrite, MonitorTypeOK, MonitorPcs
  <2>2. KernelTypeOK'
    BY <1>20
    DEF MonitorWrite, KernelTypeOK, inotify
  <2>3. OutsideTypeOK'
    BY <1>20, SpendType, KindNames
    DEF MonitorWrite, OutsideTypeOK, outside
  <2>. QED
    BY <1>20, <2>1, <2>2, <2>3
    DEF MonitorWrite, HalTypeOK, hal, CallTypeOK, call
<1>21. CASE MonitorPublish
  <2>1. HalTypeOK'
    BY <1>21
    DEF MonitorPublish, HalTypeOK
  <2>2. CallTypeOK'
    BY <1>21, GotoType, FailType, PcNames
    DEF MonitorPublish, CallTypeOK, NotifyAll
  <2>3. MonitorTypeOK'
    BY <1>21
    DEF MonitorPublish, MonitorTypeOK, MonitorPcs
  <2>4. OutsideTypeOK'
    BY <1>21, SpendType, KindNames
    DEF MonitorPublish, OutsideTypeOK, MonitorTypeOK, outside
  <2>. QED
    BY <1>21, <2>1, <2>2, <2>3, <2>4
    DEF MonitorPublish, KernelTypeOK, inotify, configfs
<1>22. CASE MonitorEvent
  <2>1. MonitorTypeOK'
    BY <1>22
    DEF MonitorEvent, MonitorTypeOK, MonitorPcs
  <2>. QED
    BY <1>22, <2>1
    DEF MonitorEvent, HalTypeOK, hal, CallTypeOK, call, KernelTypeOK, inotify, configfs, OutsideTypeOK, outside
<1>23. CASE MonitorEpoll
  <2>1. MonitorTypeOK'
    BY <1>23
    DEF MonitorEpoll, MonitorTypeOK, KernelTypeOK, MonitorPcs
  <2>2. KernelTypeOK'
    BY <1>23
    DEF MonitorEpoll, KernelTypeOK, configfs
  <2>. QED
    BY <1>23, <2>1, <2>2
    DEF MonitorEpoll, HalTypeOK, hal, CallTypeOK, call, OutsideTypeOK, outside
<1>24. CASE Crash
  <2>1. HalTypeOK'
    BY <1>24, RequestsAssumption, TupleType, NoneType
    DEF Crash, HalTypeOK, Release
  <2>2. CallTypeOK'
    BY <1>24, RequestsAssumption, GotoType, FailType, PcNames
    DEF Crash, CallTypeOK
  <2>3. MonitorTypeOK'
    BY <1>24, RequestsAssumption
    DEF Crash, MonitorTypeOK, MonitorPcs
  <2>4. KernelTypeOK'
    BY <1>24, RequestsAssumption
    DEF Crash, KernelTypeOK, Release, CloseInotify, configfs
  <2>5. OutsideTypeOK'
    BY <1>24, RequestsAssumption, SpendType, KindNames
    DEF Crash, OutsideTypeOK, outside
  <2>. QED
    BY <1>24, <2>1, <2>2, <2>3, <2>4, <2>5
    DEF Crash
<1>25. ASSUME NEW f \in Daemons, FfsOpen(f) PROVE TypeOK'
  <2>1. KernelTypeOK'
    BY <1>25, DaemonsAssumption, NotifyType, MaxEventsAssumption
    DEF FfsOpen, KernelTypeOK
  <2>2. OutsideTypeOK'
    BY <1>25, DaemonsAssumption, SpendType, KindNames
    DEF FfsOpen, OutsideTypeOK, FfsState
  <2>. QED
    BY <1>25, <2>1, <2>2
    DEF FfsOpen, HalTypeOK, hal, CallTypeOK, call, MonitorTypeOK, monitor
<1>26. ASSUME NEW f \in Daemons, FfsDescriptors(f) PROVE TypeOK'
  <2>1. KernelTypeOK'
    BY <1>26, DaemonsAssumption, NotifyType, MaxEventsAssumption
    DEF FfsDescriptors, KernelTypeOK, configfs
  <2>2. OutsideTypeOK'
    BY <1>26, DaemonsAssumption, SpendType, KindNames
    DEF FfsDescriptors, OutsideTypeOK, FfsState
  <2>. QED
    BY <1>26, <2>1, <2>2
    DEF FfsDescriptors, HalTypeOK, hal, CallTypeOK, call, MonitorTypeOK, monitor
<1>27. ASSUME NEW f \in Daemons, FfsClose(f) PROVE TypeOK'
  <2>1. KernelTypeOK'
    BY <1>27, DaemonsAssumption, NotifyType, MaxEventsAssumption
    DEF FfsClose, KernelTypeOK, configfs
  <2>2. OutsideTypeOK'
    BY <1>27, DaemonsAssumption, SpendType, KindNames
    DEF FfsClose, OutsideTypeOK, FfsState
  <2>. QED
    BY <1>27, <2>1, <2>2
    DEF FfsClose, HalTypeOK, hal, CallTypeOK, call, MonitorTypeOK, monitor
<1>28. ASSUME NEW f \in Daemons, FfsActivity(f) PROVE TypeOK'
  <2>1. KernelTypeOK'
    BY <1>28, DaemonsAssumption, NotifyType, MaxEventsAssumption
    DEF FfsActivity, KernelTypeOK, configfs
  <2>. QED
    BY <1>28, <2>1
    DEF FfsActivity, HalTypeOK, hal, CallTypeOK, call, MonitorTypeOK, monitor, OutsideTypeOK, outside
<1>29. CASE UsbHalPullUp
  <2>1. KernelTypeOK'
    BY <1>29
    DEF UsbHalPullUp, KernelTypeOK, inotify
  <2>2. OutsideTypeOK'
    BY <1>29, SpendType, KindNames
    DEF UsbHalPullUp, OutsideTypeOK, outside
  <2>. QED
    BY <1>29, <2>1, <2>2
    DEF UsbHalPullUp, HalTypeOK, hal, CallTypeOK, call, MonitorTypeOK, monitor
<1>30. CASE UsbHalPullDown
  <2>1. KernelTypeOK'
    BY <1>30
    DEF UsbHalPullDown, KernelTypeOK, inotify
  <2>2. OutsideTypeOK'
    BY <1>30, SpendType, KindNames
    DEF UsbHalPullDown, OutsideTypeOK, outside
  <2>. QED
    BY <1>30, <2>1, <2>2
    DEF UsbHalPullDown, HalTypeOK, hal, CallTypeOK, call, MonitorTypeOK, monitor
<1>31. ASSUME NEW v \in VendorConfigs, SetVendorConfig(v) PROVE TypeOK'
  <2>1. OutsideTypeOK'
    BY <1>31, VendorAssumption, SpendType, KindNames
    DEF SetVendorConfig, OutsideTypeOK
  <2>. QED
    BY <1>31, <2>1
    DEF SetVendorConfig, HalTypeOK, hal, CallTypeOK, call, MonitorTypeOK, monitor, KernelTypeOK, inotify, configfs
<1>32. CASE UNCHANGED vars
  BY <1>32 DEF vars, hal, call, monitor, inotify, configfs, outside, HalTypeOK,
     CallTypeOK, MonitorTypeOK, KernelTypeOK, OutsideTypeOK
<1>. QED
  BY <1>1, <1>2, <1>3, <1>4, <1>5, <1>6, <1>7, <1>8, <1>9, <1>10, <1>11,
     <1>12, <1>13, <1>14, <1>15, <1>16, <1>17, <1>18, <1>19, <1>20, <1>21,
     <1>22, <1>23, <1>24, <1>25, <1>26, <1>27, <1>28, <1>29, <1>30, <1>31,
     <1>32
  DEF Next, Client, Caller, TearDown, Setup, MonitorFfs, Environment, Quiescent

\* Type correctness (no code line: the shape of the state).
THEOREM TypeCorrect == Spec => []TypeOK
BY InitType, TypeStep, PTL DEF Spec
\* The initial states satisfy the inductive invariant.
LEMMA InitInv == Init => IInv
<1>. SUFFICES ASSUME Init PROVE IInv
  OBVIOUS
<1>1. TypeOK
  BY InitType
<1>. QED
  BY <1>1, CallersAssumption DEF Init, IInv, LockInv, Busy, MonitorInv, BoundInv,
     StageInv, AnswerInv, MonForInv, WaitIsWoken

\* mLockSetCurrentFunction is taken by Lock and given back by Answer only.
LEMMA LockStep == IInv /\ [Next]_vars => LockInv'
<1>. SUFFICES ASSUME TypeOK, LockInv, [Next]_vars PROVE LockInv'
  BY DEF IInv
<1>1. pc \in [Callers -> CallerPcs]
  BY DEF TypeOK, CallTypeOK
<1>2. ASSUME NEW c \in Callers, NEW functions \in Requests \cup {NONE},
             NEW callback \in BOOLEAN, Call(c, functions, callback)
      PROVE  LockInv'
  BY <1>1, <1>2, CallersAssumption
  DEF LockInv, Busy, Call, hal, Goto, CallTypeOK, TypeOK
<1>3. ASSUME NEW c \in Callers, Lock(c) PROVE LockInv'
  BY <1>1, <1>3, CallersAssumption
  DEF LockInv, Busy, Lock, Goto
<1>4. ASSUME NEW c \in Callers, ClearApplied(c) PROVE LockInv'
  BY <1>1, <1>4, CallersAssumption
  DEF LockInv, Busy, ClearApplied, Goto
<1>5. ASSUME NEW c \in Callers, PullDown(c) PROVE LockInv'
  BY <1>1, <1>5, CallersAssumption
  DEF LockInv, Busy, PullDown, hal, Goto
<1>6. ASSUME NEW c \in Callers, ClearDescriptors(c) PROVE LockInv'
  BY <1>1, <1>6, CallersAssumption
  DEF LockInv, Busy, ClearDescriptors, hal, Goto, Fail
<1>7. ASSUME NEW c \in Callers, UnlinkFunctions(c) PROVE LockInv'
  BY <1>1, <1>7, CallersAssumption
  DEF LockInv, Busy, UnlinkFunctions, hal, Goto, Fail
<1>8. ASSUME NEW c \in Callers, StopMonitor(c) PROVE LockInv'
  BY <1>1, <1>8, CallersAssumption
  DEF LockInv, Busy, StopMonitor, Goto
<1>9. ASSUME NEW c \in Callers, JoinMonitor(c) PROVE LockInv'
  BY <1>1, <1>9, CallersAssumption
  DEF LockInv, Busy, JoinMonitor, Goto
<1>10. ASSUME NEW c \in Callers, Disconnected(c) PROVE LockInv'
  BY <1>1, <1>10, CallersAssumption
  DEF LockInv, Busy, Disconnected, hal, Goto, Fail
<1>11. ASSUME NEW c \in Callers, Validate(c) PROVE LockInv'
  BY <1>1, <1>11, CallersAssumption
  DEF LockInv, Busy, Validate, hal, Goto, Fail
<1>12. ASSUME NEW c \in Callers, SetupFunctions(c) PROVE LockInv'
  BY <1>1, <1>12, CallersAssumption
  DEF LockInv, Busy, SetupFunctions, Goto
<1>13. ASSUME NEW c \in Callers, LinkFunction(c) PROVE LockInv'
  BY <1>1, <1>13, CallersAssumption
  DEF LockInv, Busy, LinkFunction, Fail, Goto
<1>14. ASSUME NEW c \in Callers, LinksMade(c) PROVE LockInv'
  BY <1>1, <1>14, CallersAssumption
  DEF LockInv, Busy, LinksMade, hal, Goto
<1>15. ASSUME NEW c \in Callers, PullUp(c) PROVE LockInv'
  BY <1>1, <1>15, CallersAssumption
  DEF LockInv, Busy, PullUp, Goto
<1>16. ASSUME NEW c \in Callers, StartMonitor(c) PROVE LockInv'
  BY <1>1, <1>16, CallersAssumption
  DEF LockInv, Busy, StartMonitor, Goto, Fail
<1>17. ASSUME NEW c \in Callers, WaitReturns(c) PROVE LockInv'
  BY <1>1, <1>17, CallersAssumption
  DEF LockInv, Busy, WaitReturns, Goto
<1>18. ASSUME NEW c \in Callers, Answer(c) PROVE LockInv'
  BY <1>1, <1>18, CallersAssumption
  DEF LockInv, Busy, Answer, Goto
<1>19. ASSUME NEW c \in Callers, Reset(c) PROVE LockInv'
  BY <1>1, <1>19, CallersAssumption
  DEF LockInv, Busy, Reset, hal, call
<1>20. CASE MonitorScan
  BY <1>1, <1>20, CallersAssumption
  DEF LockInv, Busy, MonitorScan, hal, call
<1>21. CASE MonitorWrite
  BY <1>1, <1>21, CallersAssumption
  DEF LockInv, Busy, MonitorWrite, hal, call
<1>22. CASE MonitorPublish
  BY <1>1, <1>22, CallersAssumption
  DEF LockInv, Busy, MonitorPublish
<1>23. CASE MonitorEvent
  BY <1>1, <1>23, CallersAssumption
  DEF LockInv, Busy, MonitorEvent, hal, call
<1>24. CASE MonitorEpoll
  BY <1>1, <1>24, CallersAssumption
  DEF LockInv, Busy, MonitorEpoll, hal, call
<1>25. CASE Crash
  BY <1>1, <1>25, CallersAssumption
  DEF LockInv, Busy, Crash
<1>26. ASSUME NEW f \in Daemons, FfsOpen(f) PROVE LockInv'
  BY <1>1, <1>26, CallersAssumption
  DEF LockInv, Busy, FfsOpen, hal, call
<1>27. ASSUME NEW f \in Daemons, FfsDescriptors(f) PROVE LockInv'
  BY <1>1, <1>27, CallersAssumption
  DEF LockInv, Busy, FfsDescriptors, hal, call
<1>28. ASSUME NEW f \in Daemons, FfsClose(f) PROVE LockInv'
  BY <1>1, <1>28, CallersAssumption
  DEF LockInv, Busy, FfsClose, hal, call
<1>29. ASSUME NEW f \in Daemons, FfsActivity(f) PROVE LockInv'
  BY <1>1, <1>29, CallersAssumption
  DEF LockInv, Busy, FfsActivity, hal, call
<1>30. CASE UsbHalPullUp
  BY <1>1, <1>30, CallersAssumption
  DEF LockInv, Busy, UsbHalPullUp, hal, call
<1>31. CASE UsbHalPullDown
  BY <1>1, <1>31, CallersAssumption
  DEF LockInv, Busy, UsbHalPullDown, hal, call
<1>32. ASSUME NEW v \in VendorConfigs, SetVendorConfig(v) PROVE LockInv'
  BY <1>1, <1>32, CallersAssumption
  DEF LockInv, Busy, SetVendorConfig, hal, call
<1>33. CASE UNCHANGED vars
  BY <1>33
  DEF LockInv, Busy, vars, hal, call
<1>. QED
  BY <1>2, <1>3, <1>4, <1>5, <1>6, <1>7, <1>8, <1>9, <1>10, <1>11, <1>12,
     <1>13, <1>14, <1>15, <1>16, <1>17, <1>18, <1>19, <1>20, <1>21, <1>22,
     <1>23, <1>24, <1>25, <1>26, <1>27, <1>28, <1>29, <1>30, <1>31, <1>32,
     <1>33
  DEF Next, Client, Caller, TearDown, Setup, MonitorFfs, Environment, Quiescent

\* The flag follows the thread.
LEMMA MonitorStep == IInv /\ [Next]_vars => MonitorInv'
<1>. SUFFICES ASSUME TypeOK, MonitorInv, StageInv, [Next]_vars PROVE MonitorInv'
  BY DEF IInv
<1>1. pc \in [Callers -> CallerPcs]
  BY DEF TypeOK, CallTypeOK
<1>2. ASSUME NEW c \in Callers, NEW functions \in Requests \cup {NONE},
             NEW callback \in BOOLEAN, Call(c, functions, callback)
      PROVE  MonitorInv'
  BY <1>1, <1>2
  DEF MonitorInv, Call, hal, monitor, Goto
<1>3. ASSUME NEW c \in Callers, Lock(c) PROVE MonitorInv'
  BY <1>1, <1>3
  DEF MonitorInv, Lock, monitor, Goto
<1>4. ASSUME NEW c \in Callers, ClearApplied(c) PROVE MonitorInv'
  BY <1>1, <1>4
  DEF MonitorInv, ClearApplied, monitor, Goto
<1>5. ASSUME NEW c \in Callers, PullDown(c) PROVE MonitorInv'
  BY <1>1, <1>5
  DEF MonitorInv, PullDown, hal, monitor, Goto
<1>6. ASSUME NEW c \in Callers, ClearDescriptors(c) PROVE MonitorInv'
  BY <1>1, <1>6
  DEF MonitorInv, ClearDescriptors, hal, monitor, Goto, Fail
<1>7. ASSUME NEW c \in Callers, UnlinkFunctions(c) PROVE MonitorInv'
  BY <1>1, <1>7
  DEF MonitorInv, UnlinkFunctions, hal, monitor, Goto, Fail
<1>8. ASSUME NEW c \in Callers, StopMonitor(c) PROVE MonitorInv'
  BY <1>1, <1>8
  DEF MonitorInv, StopMonitor, monitor, Goto
<1>9. ASSUME NEW c \in Callers, JoinMonitor(c) PROVE MonitorInv'
  BY <1>1, <1>9
  DEF MonitorInv, JoinMonitor, Goto
<1>10. ASSUME NEW c \in Callers, Disconnected(c) PROVE MonitorInv'
  BY <1>1, <1>10
  DEF MonitorInv, Disconnected, hal, monitor, Goto, Fail
<1>11. ASSUME NEW c \in Callers, Validate(c) PROVE MonitorInv'
  BY <1>1, <1>11
  DEF MonitorInv, Validate, hal, monitor, Goto, Fail
<1>12. ASSUME NEW c \in Callers, SetupFunctions(c) PROVE MonitorInv'
  BY <1>1, <1>12
  DEF MonitorInv, SetupFunctions, monitor, Goto
<1>13. ASSUME NEW c \in Callers, LinkFunction(c) PROVE MonitorInv'
  BY <1>1, <1>13
  DEF MonitorInv, LinkFunction, monitor, Fail, Goto
<1>14. ASSUME NEW c \in Callers, LinksMade(c) PROVE MonitorInv'
  BY <1>1, <1>14
  DEF MonitorInv, LinksMade, hal, monitor, Goto
<1>15. ASSUME NEW c \in Callers, PullUp(c) PROVE MonitorInv'
  BY <1>1, <1>15
  DEF MonitorInv, PullUp, monitor, Goto
<1>16. ASSUME NEW c \in Callers, StartMonitor(c) PROVE MonitorInv'
  BY <1>1, <1>16
  DEF MonitorInv, StartMonitor, monitor, Goto, Fail
<1>17. ASSUME NEW c \in Callers, WaitReturns(c) PROVE MonitorInv'
  BY <1>1, <1>17
  DEF MonitorInv, WaitReturns, monitor, Goto
<1>18. ASSUME NEW c \in Callers, Answer(c) PROVE MonitorInv'
  BY <1>1, <1>18
  DEF MonitorInv, Answer, monitor, Goto
<1>19. ASSUME NEW c \in Callers, Reset(c) PROVE MonitorInv'
  BY <1>1, <1>19
  DEF MonitorInv, Reset, hal, call, monitor
<1>20. CASE MonitorScan
  BY <1>1, <1>20
  DEF MonitorInv, MonitorScan, hal, call
<1>21. CASE MonitorWrite
  BY <1>1, <1>21
  DEF MonitorInv, MonitorWrite, hal, call
<1>22. CASE MonitorPublish
  BY <1>1, <1>22
  DEF MonitorInv, MonitorPublish
<1>23. CASE MonitorEvent
  BY <1>1, <1>23
  DEF MonitorInv, MonitorEvent, hal, call
<1>24. CASE MonitorEpoll
  BY <1>1, <1>24
  DEF MonitorInv, MonitorEpoll, hal, call
<1>25. CASE Crash
  BY <1>1, <1>25
  DEF MonitorInv, Crash
<1>26. ASSUME NEW f \in Daemons, FfsOpen(f) PROVE MonitorInv'
  BY <1>1, <1>26
  DEF MonitorInv, FfsOpen, hal, call, monitor
<1>27. ASSUME NEW f \in Daemons, FfsDescriptors(f) PROVE MonitorInv'
  BY <1>1, <1>27
  DEF MonitorInv, FfsDescriptors, hal, call, monitor
<1>28. ASSUME NEW f \in Daemons, FfsClose(f) PROVE MonitorInv'
  BY <1>1, <1>28
  DEF MonitorInv, FfsClose, hal, call, monitor
<1>29. ASSUME NEW f \in Daemons, FfsActivity(f) PROVE MonitorInv'
  BY <1>1, <1>29
  DEF MonitorInv, FfsActivity, hal, call, monitor
<1>30. CASE UsbHalPullUp
  BY <1>1, <1>30
  DEF MonitorInv, UsbHalPullUp, hal, call, monitor
<1>31. CASE UsbHalPullDown
  BY <1>1, <1>31
  DEF MonitorInv, UsbHalPullDown, hal, call, monitor
<1>32. ASSUME NEW v \in VendorConfigs, SetVendorConfig(v) PROVE MonitorInv'
  BY <1>1, <1>32
  DEF MonitorInv, SetVendorConfig, hal, call, monitor
<1>33. CASE UNCHANGED vars
  BY <1>33
  DEF MonitorInv, vars, hal, call, monitor
<1>. QED
  BY <1>2, <1>3, <1>4, <1>5, <1>6, <1>7, <1>8, <1>9, <1>10, <1>11, <1>12,
     <1>13, <1>14, <1>15, <1>16, <1>17, <1>18, <1>19, <1>20, <1>21, <1>22,
     <1>23, <1>24, <1>25, <1>26, <1>27, <1>28, <1>29, <1>30, <1>31, <1>32,
     <1>33
  DEF Next, Client, Caller, TearDown, Setup, MonitorFfs, Environment, Quiescent

\* The gadget is bound only while something is linked.
LEMMA BoundStep == IInv /\ [Next]_vars => BoundInv'
<1>. SUFFICES ASSUME TypeOK, BoundInv, [Next]_vars PROVE BoundInv'
  BY DEF IInv
<1>1. pc \in [Callers -> CallerPcs]
  BY DEF TypeOK, CallTypeOK
<1>2. ASSUME NEW c \in Callers, NEW functions \in Requests \cup {NONE},
             NEW callback \in BOOLEAN, Call(c, functions, callback)
      PROVE  BoundInv'
  BY <1>1, <1>2
  DEF BoundInv, Call, configfs
<1>3. ASSUME NEW c \in Callers, Lock(c) PROVE BoundInv'
  BY <1>1, <1>3
  DEF BoundInv, Lock, configfs
<1>4. ASSUME NEW c \in Callers, ClearApplied(c) PROVE BoundInv'
  BY <1>1, <1>4
  DEF BoundInv, ClearApplied, configfs
<1>5. ASSUME NEW c \in Callers, PullDown(c) PROVE BoundInv'
  BY <1>1, <1>5
  DEF BoundInv, PullDown
<1>6. ASSUME NEW c \in Callers, ClearDescriptors(c) PROVE BoundInv'
  BY <1>1, <1>6
  DEF BoundInv, ClearDescriptors, configfs
<1>7. ASSUME NEW c \in Callers, UnlinkFunctions(c) PROVE BoundInv'
  BY <1>1, <1>7
  DEF BoundInv, UnlinkFunctions
<1>8. ASSUME NEW c \in Callers, StopMonitor(c) PROVE BoundInv'
  BY <1>1, <1>8
  DEF BoundInv, StopMonitor, configfs
<1>9. ASSUME NEW c \in Callers, JoinMonitor(c) PROVE BoundInv'
  BY <1>1, <1>9
  DEF BoundInv, JoinMonitor, configfs
<1>10. ASSUME NEW c \in Callers, Disconnected(c) PROVE BoundInv'
  BY <1>1, <1>10
  DEF BoundInv, Disconnected, configfs
<1>11. ASSUME NEW c \in Callers, Validate(c) PROVE BoundInv'
  BY <1>1, <1>11
  DEF BoundInv, Validate
<1>12. ASSUME NEW c \in Callers, SetupFunctions(c) PROVE BoundInv'
  BY <1>1, <1>12
  DEF BoundInv, SetupFunctions, configfs
<1>13. ASSUME NEW c \in Callers, LinkFunction(c) PROVE BoundInv'
  BY <1>1, <1>13
  DEF BoundInv, LinkFunction
<1>14. ASSUME NEW c \in Callers, LinksMade(c) PROVE BoundInv'
  BY <1>1, <1>14
  DEF BoundInv, LinksMade, configfs
<1>15. ASSUME NEW c \in Callers, PullUp(c) PROVE BoundInv'
  BY <1>1, <1>15
  DEF BoundInv, PullUp, CanBind, Bindable
<1>16. ASSUME NEW c \in Callers, StartMonitor(c) PROVE BoundInv'
  BY <1>1, <1>16
  DEF BoundInv, StartMonitor, configfs
<1>17. ASSUME NEW c \in Callers, WaitReturns(c) PROVE BoundInv'
  BY <1>1, <1>17
  DEF BoundInv, WaitReturns, configfs
<1>18. ASSUME NEW c \in Callers, Answer(c) PROVE BoundInv'
  BY <1>1, <1>18
  DEF BoundInv, Answer, configfs
<1>19. ASSUME NEW c \in Callers, Reset(c) PROVE BoundInv'
  BY <1>1, <1>19
  DEF BoundInv, Reset
<1>20. CASE MonitorScan
  BY <1>1, <1>20
  DEF BoundInv, MonitorScan, configfs
<1>21. CASE MonitorWrite
  BY <1>1, <1>21
  DEF BoundInv, MonitorWrite, CanBind, Bindable
<1>22. CASE MonitorPublish
  BY <1>1, <1>22
  DEF BoundInv, MonitorPublish, configfs
<1>23. CASE MonitorEvent
  BY <1>1, <1>23
  DEF BoundInv, MonitorEvent, configfs
<1>24. CASE MonitorEpoll
  BY <1>1, <1>24
  DEF BoundInv, MonitorEpoll, configfs
<1>25. CASE Crash
  BY <1>1, <1>25
  DEF BoundInv, Crash, configfs
<1>26. ASSUME NEW f \in Daemons, FfsOpen(f) PROVE BoundInv'
  BY <1>1, <1>26
  DEF BoundInv, FfsOpen
<1>27. ASSUME NEW f \in Daemons, FfsDescriptors(f) PROVE BoundInv'
  BY <1>1, <1>27
  DEF BoundInv, FfsDescriptors, configfs
<1>28. ASSUME NEW f \in Daemons, FfsClose(f) PROVE BoundInv'
  BY <1>1, <1>28
  DEF BoundInv, FfsClose, configfs
<1>29. ASSUME NEW f \in Daemons, FfsActivity(f) PROVE BoundInv'
  BY <1>1, <1>29
  DEF BoundInv, FfsActivity, configfs
<1>30. CASE UsbHalPullUp
  BY <1>1, <1>30
  DEF BoundInv, UsbHalPullUp, CanBind, Bindable
<1>31. CASE UsbHalPullDown
  BY <1>1, <1>31
  DEF BoundInv, UsbHalPullDown
<1>32. ASSUME NEW v \in VendorConfigs, SetVendorConfig(v) PROVE BoundInv'
  BY <1>1, <1>32
  DEF BoundInv, SetVendorConfig, configfs
<1>33. CASE UNCHANGED vars
  BY <1>33
  DEF BoundInv, vars, configfs
<1>. QED
  BY <1>2, <1>3, <1>4, <1>5, <1>6, <1>7, <1>8, <1>9, <1>10, <1>11, <1>12,
     <1>13, <1>14, <1>15, <1>16, <1>17, <1>18, <1>19, <1>20, <1>21, <1>22,
     <1>23, <1>24, <1>25, <1>26, <1>27, <1>28, <1>29, <1>30, <1>31, <1>32,
     <1>33
  DEF Next, Client, Caller, TearDown, Setup, MonitorFfs, Environment, Quiescent

\* Appending to a sequence adds the element to its range.
LEMMA RangeAppend ==
  ASSUME NEW S, NEW s \in Seq(S), NEW x \in S
  PROVE  Range(Append(s, x)) = Range(s) \cup {x}
<1>1. DOMAIN s = 1..Len(s) /\ DOMAIN Append(s, x) = 1..Len(s) + 1
  OBVIOUS
<1>2. \A i \in 1..Len(s) : Append(s, x)[i] = s[i]
  OBVIOUS
<1>3. Append(s, x)[Len(s) + 1] = x
  OBVIOUS
<1>4. ASSUME NEW y \in Range(Append(s, x)) PROVE y \in Range(s) \cup {x}
  <2>1. PICK i \in 1..Len(s) + 1 : y = Append(s, x)[i]
    BY <1>1, <1>4 DEF Range
  <2>2. CASE i = Len(s) + 1
    BY <1>3, <2>1, <2>2
  <2>3. CASE i \in 1..Len(s)
    BY <1>1, <1>2, <2>1, <2>3 DEF Range
  <2>. QED  BY <2>2, <2>3
<1>5. Range(s) \subseteq Range(Append(s, x))
  BY <1>1, <1>2 DEF Range
<1>6. x \in Range(Append(s, x))
  BY <1>1, <1>3 DEF Range
<1>. QED  BY <1>4, <1>5, <1>6

\* Each stage of a call finds what the earlier ones left.
LEMMA StageStep == IInv /\ [Next]_vars => StageInv'
<1>. SUFFICES ASSUME TypeOK, LockInv, StageInv, [Next]_vars PROVE StageInv'
  BY DEF IInv
<1>1. pc \in [Callers -> CallerPcs]
  BY DEF TypeOK, CallTypeOK
<1>2. ASSUME NEW c \in Callers, NEW functions \in Requests \cup {NONE},
             NEW callback \in BOOLEAN, Call(c, functions, callback)
      PROVE  StageInv'
  BY <1>1, <1>2, CallersAssumption
  DEF LockInv, Busy, StageInv, Call, hal, inotify, configfs, Goto
<1>3. ASSUME NEW c \in Callers, Lock(c) PROVE StageInv'
  BY <1>1, <1>3, CallersAssumption
  DEF LockInv, Busy, StageInv, Lock, inotify, configfs, Goto
<1>4. ASSUME NEW c \in Callers, ClearApplied(c) PROVE StageInv'
  BY <1>1, <1>4, CallersAssumption
  DEF LockInv, Busy, StageInv, ClearApplied, inotify, configfs, Goto
<1>5. ASSUME NEW c \in Callers, PullDown(c) PROVE StageInv'
  BY <1>1, <1>5, CallersAssumption
  DEF LockInv, Busy, StageInv, PullDown, hal, inotify, Goto
<1>6. ASSUME NEW c \in Callers, ClearDescriptors(c) PROVE StageInv'
  BY <1>1, <1>6, CallersAssumption
  DEF LockInv, Busy, StageInv, ClearDescriptors, hal, inotify, configfs,
      Goto, Fail
<1>7. ASSUME NEW c \in Callers, UnlinkFunctions(c) PROVE StageInv'
  BY <1>1, <1>7, CallersAssumption
  DEF LockInv, Busy, StageInv, UnlinkFunctions, hal, inotify, Goto, Fail
<1>8. ASSUME NEW c \in Callers, StopMonitor(c) PROVE StageInv'
  BY <1>1, <1>8, CallersAssumption
  DEF LockInv, Busy, StageInv, StopMonitor, inotify, configfs, Goto,
      Release, CloseInotify
<1>9. ASSUME NEW c \in Callers, JoinMonitor(c) PROVE StageInv'
  BY <1>1, <1>9, CallersAssumption
  DEF LockInv, Busy, StageInv, JoinMonitor, configfs, Goto, Release,
      CloseInotify
<1>10. ASSUME NEW c \in Callers, Disconnected(c) PROVE StageInv'
  BY <1>1, <1>10, CallersAssumption
  DEF LockInv, Busy, StageInv, Disconnected, hal, inotify, configfs, Goto,
      Fail
<1>11. ASSUME NEW c \in Callers, Validate(c) PROVE StageInv'
  BY <1>1, <1>11, CallersAssumption
  DEF LockInv, Busy, StageInv, Validate, hal, inotify, Goto, Fail
<1>12. ASSUME NEW c \in Callers, SetupFunctions(c) PROVE StageInv'
  <2>1. Range(<<>>) = {}
    BY DEF Range
  <2>2. pc[c] = "setup" /\ pc' = [pc EXCEPT ![c] = "link"]
    BY <1>12 DEF SetupFunctions, Goto
  <2>3. links = {} /\ ~mMonitorCreated /\ mEndpointList = <<>> /\ watched = {}
    BY <2>2 DEF StageInv
  <2>4. UNCHANGED <<links, mMonitorCreated, mEndpointList, watched>>
    BY <1>12 DEF SetupFunctions, inotify, configfs
  <2>5. \A d \in Callers : d # c => ~Busy(d)
    BY <2>2 DEF LockInv, Busy
  <2>. QED
    BY <1>1, <2>1, <2>2, <2>3, <2>4, <2>5 DEF StageInv, Busy
<1>13. ASSUME NEW c \in Callers, LinkFunction(c) PROVE StageInv'
  <2>1. \A d \in Callers : d # c => ~Busy(d)
    BY <1>13 DEF LinkFunction, LockInv, Busy
  <2>2. pc[c] = "link" /\ ~mMonitorCreated /\ ~mMonitorCreated'
    BY <1>13 DEF LinkFunction, StageInv
  <2>3. Range(mEndpointList) = links \cap Ffs /\ watched = links \cap Ffs
    BY <2>2 DEF StageInv
  <2>4. CASE pc'[c] = "answer" /\ pc' = [pc EXCEPT ![c] = "answer"]
    BY <1>1, <2>1, <2>2, <2>4 DEF StageInv, Busy
  <2>5. CASE /\ pc' = pc
             /\ links' = links \cup {Head(todo)}
             /\ Head(todo) \in Ffs
             /\ watched' = watched \cup {Head(todo)}
             /\ mEndpointList' = Append(mEndpointList, Head(todo))
    <3>1. mEndpointList \in Seq(Ffs)
      BY DEF TypeOK, HalTypeOK
    <3>2. Range(mEndpointList') = Range(mEndpointList) \cup {Head(todo)}
      BY <2>5, <3>1, RangeAppend
    <3>3. Range(mEndpointList') = links' \cap Ffs /\ watched' = links' \cap Ffs
      BY <2>3, <2>5, <3>2
    <3>. QED
      BY <1>1, <2>1, <2>2, <2>5, <3>3 DEF StageInv, Busy
  <2>6. CASE /\ pc' = pc
             /\ links' = links \cup {Head(todo)}
             /\ Head(todo) \notin Ffs
             /\ UNCHANGED <<watched, mEndpointList>>
    <3>1. Range(mEndpointList') = links' \cap Ffs /\ watched' = links' \cap Ffs
      BY <2>3, <2>6
    <3>. QED
      BY <1>1, <2>1, <2>2, <2>6, <3>1 DEF StageInv, Busy
  <2>. QED
    BY <1>1, <1>13, <2>4, <2>5, <2>6 DEF LinkFunction, Fail, Goto
<1>14. ASSUME NEW c \in Callers, LinksMade(c) PROVE StageInv'
  BY <1>1, <1>14, CallersAssumption
  DEF LockInv, Busy, StageInv, LinksMade, hal, inotify, configfs, Goto
<1>15. ASSUME NEW c \in Callers, PullUp(c) PROVE StageInv'
  BY <1>1, <1>15, CallersAssumption
  DEF LockInv, Busy, StageInv, PullUp, inotify, Goto
<1>16. ASSUME NEW c \in Callers, StartMonitor(c) PROVE StageInv'
  BY <1>1, <1>16, CallersAssumption
  DEF LockInv, Busy, StageInv, StartMonitor, inotify, configfs, Goto, Fail,
      CloseInotify
<1>17. ASSUME NEW c \in Callers, WaitReturns(c) PROVE StageInv'
  BY <1>1, <1>17, CallersAssumption
  DEF LockInv, Busy, StageInv, WaitReturns, inotify, configfs, Goto
<1>18. ASSUME NEW c \in Callers, Answer(c) PROVE StageInv'
  BY <1>1, <1>18, CallersAssumption
  DEF LockInv, Busy, StageInv, Answer, inotify, configfs, Goto
<1>19. ASSUME NEW c \in Callers, Reset(c) PROVE StageInv'
  BY <1>1, <1>19, CallersAssumption
  DEF LockInv, Busy, StageInv, Reset, hal, call, inotify
<1>20. CASE MonitorScan
  BY <1>1, <1>20, CallersAssumption
  DEF LockInv, Busy, StageInv, MonitorScan, hal, call, inotify, configfs
<1>21. CASE MonitorWrite
  BY <1>1, <1>21, CallersAssumption
  DEF LockInv, Busy, StageInv, MonitorWrite, hal, call, inotify
<1>22. CASE MonitorPublish
  BY <1>1, <1>22, CallersAssumption
  DEF LockInv, Busy, StageInv, MonitorPublish, inotify, configfs
<1>23. CASE MonitorEvent
  BY <1>1, <1>23, CallersAssumption
  DEF LockInv, Busy, StageInv, MonitorEvent, hal, call, inotify, configfs
<1>24. CASE MonitorEpoll
  BY <1>1, <1>24, CallersAssumption
  DEF LockInv, Busy, StageInv, MonitorEpoll, hal, call, configfs
<1>25. CASE Crash
  BY <1>1, <1>25, CallersAssumption
  DEF LockInv, Busy, StageInv, Crash, configfs, Release, CloseInotify
<1>26. ASSUME NEW f \in Daemons, FfsOpen(f) PROVE StageInv'
  BY <1>1, <1>26, CallersAssumption
  DEF LockInv, Busy, StageInv, FfsOpen, hal, call
<1>27. ASSUME NEW f \in Daemons, FfsDescriptors(f) PROVE StageInv'
  BY <1>1, <1>27, CallersAssumption
  DEF LockInv, Busy, StageInv, FfsDescriptors, hal, call, configfs
<1>28. ASSUME NEW f \in Daemons, FfsClose(f) PROVE StageInv'
  BY <1>1, <1>28, CallersAssumption
  DEF LockInv, Busy, StageInv, FfsClose, hal, call, configfs
<1>29. ASSUME NEW f \in Daemons, FfsActivity(f) PROVE StageInv'
  BY <1>1, <1>29, CallersAssumption
  DEF LockInv, Busy, StageInv, FfsActivity, hal, call, configfs
<1>30. CASE UsbHalPullUp
  BY <1>1, <1>30, CallersAssumption
  DEF LockInv, Busy, StageInv, UsbHalPullUp, hal, call, inotify
<1>31. CASE UsbHalPullDown
  BY <1>1, <1>31, CallersAssumption
  DEF LockInv, Busy, StageInv, UsbHalPullDown, hal, call, inotify
<1>32. ASSUME NEW v \in VendorConfigs, SetVendorConfig(v) PROVE StageInv'
  BY <1>1, <1>32, CallersAssumption
  DEF LockInv, Busy, StageInv, SetVendorConfig, hal, call, inotify, configfs
<1>33. CASE UNCHANGED vars
  BY <1>33
  DEF LockInv, Busy, StageInv, vars, hal, call, inotify, configfs
<1>. QED
  BY <1>2, <1>3, <1>4, <1>5, <1>6, <1>7, <1>8, <1>9, <1>10, <1>11, <1>12,
     <1>13, <1>14, <1>15, <1>16, <1>17, <1>18, <1>19, <1>20, <1>21, <1>22,
     <1>23, <1>24, <1>25, <1>26, <1>27, <1>28, <1>29, <1>30, <1>31, <1>32,
     <1>33
  DEF Next, Client, Caller, TearDown, Setup, MonitorFfs, Environment, Quiescent

\* What a waiting or answered call relies on.
LEMMA AnswerStep == IInv /\ [Next]_vars => AnswerInv'
<1>. SUFFICES ASSUME TypeOK, LockInv, MonitorInv, StageInv, AnswerInv, [Next]_vars PROVE AnswerInv'
  BY DEF IInv
<1>1. pc \in [Callers -> CallerPcs]
  BY DEF TypeOK, CallTypeOK
<1>2. ASSUME NEW c \in Callers, NEW functions \in Requests \cup {NONE},
             NEW callback \in BOOLEAN, Call(c, functions, callback)
      PROVE  AnswerInv'
  BY <1>1, <1>2, CallersAssumption
  DEF LockInv, Busy, AnswerInv, Call, hal, monitor, Goto
<1>3. ASSUME NEW c \in Callers, Lock(c) PROVE AnswerInv'
  BY <1>1, <1>3, CallersAssumption
  DEF LockInv, Busy, AnswerInv, Lock, monitor, Goto
<1>4. ASSUME NEW c \in Callers, ClearApplied(c) PROVE AnswerInv'
  BY <1>1, <1>4, CallersAssumption
  DEF LockInv, Busy, AnswerInv, ClearApplied, monitor, Goto
<1>5. ASSUME NEW c \in Callers, PullDown(c) PROVE AnswerInv'
  BY <1>1, <1>5, CallersAssumption
  DEF LockInv, Busy, AnswerInv, PullDown, hal, monitor, Goto
<1>6. ASSUME NEW c \in Callers, ClearDescriptors(c) PROVE AnswerInv'
  BY <1>1, <1>6, CallersAssumption
  DEF LockInv, Busy, AnswerInv, ClearDescriptors, hal, monitor, Goto, Fail
<1>7. ASSUME NEW c \in Callers, UnlinkFunctions(c) PROVE AnswerInv'
  BY <1>1, <1>7, CallersAssumption
  DEF LockInv, Busy, AnswerInv, UnlinkFunctions, hal, monitor, Goto, Fail
<1>8. ASSUME NEW c \in Callers, StopMonitor(c) PROVE AnswerInv'
  BY <1>1, <1>8, CallersAssumption
  DEF LockInv, Busy, AnswerInv, StopMonitor, monitor, Goto
<1>9. ASSUME NEW c \in Callers, JoinMonitor(c) PROVE AnswerInv'
  BY <1>1, <1>9, CallersAssumption
  DEF LockInv, Busy, AnswerInv, JoinMonitor, Goto
<1>10. ASSUME NEW c \in Callers, Disconnected(c) PROVE AnswerInv'
  BY <1>1, <1>10, CallersAssumption
  DEF LockInv, Busy, AnswerInv, Disconnected, hal, monitor, Goto, Fail
<1>11. ASSUME NEW c \in Callers, Validate(c) PROVE AnswerInv'
  BY <1>1, <1>11, CallersAssumption
  DEF LockInv, Busy, AnswerInv, Validate, hal, monitor, Goto, Fail
<1>12. ASSUME NEW c \in Callers, SetupFunctions(c) PROVE AnswerInv'
  BY <1>1, <1>12, CallersAssumption
  DEF LockInv, Busy, AnswerInv, SetupFunctions, monitor, Goto
<1>13. ASSUME NEW c \in Callers, LinkFunction(c) PROVE AnswerInv'
  BY <1>1, <1>13, CallersAssumption
  DEF LockInv, Busy, AnswerInv, LinkFunction, monitor, Fail, Goto
<1>14. ASSUME NEW c \in Callers, LinksMade(c) PROVE AnswerInv'
  BY <1>1, <1>14, CallersAssumption
  DEF LockInv, Busy, AnswerInv, LinksMade, hal, monitor, Goto
<1>15. ASSUME NEW c \in Callers, PullUp(c) PROVE AnswerInv'
  BY <1>1, <1>15, CallersAssumption
  DEF LockInv, Busy, AnswerInv, PullUp, monitor, Goto, StageInv
<1>16. ASSUME NEW c \in Callers, StartMonitor(c) PROVE AnswerInv'
  BY <1>1, <1>16, CallersAssumption
  DEF LockInv, Busy, AnswerInv, StartMonitor, monitor, Goto, Fail
<1>17. ASSUME NEW c \in Callers, WaitReturns(c) PROVE AnswerInv'
  BY <1>1, <1>17, CallersAssumption
  DEF LockInv, Busy, AnswerInv, WaitReturns, monitor, Goto
<1>18. ASSUME NEW c \in Callers, Answer(c) PROVE AnswerInv'
  BY <1>1, <1>18, CallersAssumption
  DEF LockInv, Busy, AnswerInv, Answer, monitor, Goto
<1>19. ASSUME NEW c \in Callers, Reset(c) PROVE AnswerInv'
  BY <1>1, <1>19, CallersAssumption
  DEF LockInv, Busy, AnswerInv, Reset, hal, call, monitor
<1>20. CASE MonitorScan
  BY <1>1, <1>20, CallersAssumption
  DEF LockInv, Busy, AnswerInv, MonitorScan, hal, call
<1>21. CASE MonitorWrite
  BY <1>1, <1>21, CallersAssumption
  DEF LockInv, Busy, AnswerInv, MonitorWrite, hal, call
<1>22. CASE MonitorPublish
  BY <1>1, <1>22, CallersAssumption
  DEF LockInv, Busy, AnswerInv, MonitorPublish, MonitorInv
<1>23. CASE MonitorEvent
  BY <1>1, <1>23, CallersAssumption
  DEF LockInv, Busy, AnswerInv, MonitorEvent, hal, call
<1>24. CASE MonitorEpoll
  BY <1>1, <1>24, CallersAssumption
  DEF LockInv, Busy, AnswerInv, MonitorEpoll, hal, call
<1>25. CASE Crash
  BY <1>1, <1>25, CallersAssumption
  DEF LockInv, Busy, AnswerInv, Crash
<1>26. ASSUME NEW f \in Daemons, FfsOpen(f) PROVE AnswerInv'
  BY <1>1, <1>26, CallersAssumption
  DEF LockInv, Busy, AnswerInv, FfsOpen, hal, call, monitor
<1>27. ASSUME NEW f \in Daemons, FfsDescriptors(f) PROVE AnswerInv'
  BY <1>1, <1>27, CallersAssumption
  DEF LockInv, Busy, AnswerInv, FfsDescriptors, hal, call, monitor
<1>28. ASSUME NEW f \in Daemons, FfsClose(f) PROVE AnswerInv'
  BY <1>1, <1>28, CallersAssumption
  DEF LockInv, Busy, AnswerInv, FfsClose, hal, call, monitor
<1>29. ASSUME NEW f \in Daemons, FfsActivity(f) PROVE AnswerInv'
  BY <1>1, <1>29, CallersAssumption
  DEF LockInv, Busy, AnswerInv, FfsActivity, hal, call, monitor
<1>30. CASE UsbHalPullUp
  BY <1>1, <1>30, CallersAssumption
  DEF LockInv, Busy, AnswerInv, UsbHalPullUp, hal, call, monitor
<1>31. CASE UsbHalPullDown
  BY <1>1, <1>31, CallersAssumption
  DEF LockInv, Busy, AnswerInv, UsbHalPullDown, hal, call, monitor
<1>32. ASSUME NEW v \in VendorConfigs, SetVendorConfig(v) PROVE AnswerInv'
  BY <1>1, <1>32, CallersAssumption
  DEF LockInv, Busy, AnswerInv, SetVendorConfig, hal, call, monitor
<1>33. CASE UNCHANGED vars
  BY <1>33
  DEF LockInv, Busy, AnswerInv, vars, hal, call, monitor
<1>. QED
  BY <1>2, <1>3, <1>4, <1>5, <1>6, <1>7, <1>8, <1>9, <1>10, <1>11, <1>12,
     <1>13, <1>14, <1>15, <1>16, <1>17, <1>18, <1>19, <1>20, <1>21, <1>22,
     <1>23, <1>24, <1>25, <1>26, <1>27, <1>28, <1>29, <1>30, <1>31, <1>32,
     <1>33
  DEF Next, Client, Caller, TearDown, Setup, MonitorFfs, Environment, Quiescent

\* A live monitor belongs to the current functions.
LEMMA MonForStep == IInv /\ [Next]_vars => MonForInv'
<1>. SUFFICES ASSUME TypeOK, LockInv, MonitorInv, StageInv, AnswerInv, MonForInv, [Next]_vars PROVE MonForInv'
  BY DEF IInv
<1>1. pc \in [Callers -> CallerPcs]
  BY DEF TypeOK, CallTypeOK
<1>2. ASSUME NEW c \in Callers, NEW functions \in Requests \cup {NONE},
             NEW callback \in BOOLEAN, Call(c, functions, callback)
      PROVE  MonForInv'
  BY <1>1, <1>2, CallersAssumption
  DEF LockInv, Busy, MonForInv, TearDownPcs, Call, hal, monitor, Goto
<1>3. ASSUME NEW c \in Callers, Lock(c) PROVE MonForInv'
  BY <1>1, <1>3, CallersAssumption
  DEF LockInv, Busy, MonForInv, TearDownPcs, Lock, monitor, Goto
<1>4. ASSUME NEW c \in Callers, ClearApplied(c) PROVE MonForInv'
  BY <1>1, <1>4, CallersAssumption
  DEF LockInv, Busy, MonForInv, TearDownPcs, ClearApplied, monitor, Goto
<1>5. ASSUME NEW c \in Callers, PullDown(c) PROVE MonForInv'
  BY <1>1, <1>5, CallersAssumption
  DEF LockInv, Busy, MonForInv, TearDownPcs, PullDown, hal, monitor, Goto
<1>6. ASSUME NEW c \in Callers, ClearDescriptors(c) PROVE MonForInv'
  BY <1>1, <1>6, CallersAssumption
  DEF LockInv, Busy, MonForInv, TearDownPcs, ClearDescriptors, hal, monitor,
      Goto, Fail
<1>7. ASSUME NEW c \in Callers, UnlinkFunctions(c) PROVE MonForInv'
  BY <1>1, <1>7, CallersAssumption
  DEF LockInv, Busy, MonForInv, TearDownPcs, UnlinkFunctions, hal, monitor,
      Goto, Fail
<1>8. ASSUME NEW c \in Callers, StopMonitor(c) PROVE MonForInv'
  BY <1>1, <1>8, CallersAssumption
  DEF LockInv, Busy, MonForInv, TearDownPcs, StopMonitor, monitor, Goto
<1>9. ASSUME NEW c \in Callers, JoinMonitor(c) PROVE MonForInv'
  BY <1>1, <1>9, CallersAssumption
  DEF LockInv, Busy, MonForInv, TearDownPcs, JoinMonitor, Goto
<1>10. ASSUME NEW c \in Callers, Disconnected(c) PROVE MonForInv'
  BY <1>1, <1>10, CallersAssumption
  DEF LockInv, Busy, MonForInv, TearDownPcs, Disconnected, hal, monitor,
      Goto, Fail, StageInv
<1>11. ASSUME NEW c \in Callers, Validate(c) PROVE MonForInv'
  BY <1>1, <1>11, CallersAssumption
  DEF LockInv, Busy, MonForInv, TearDownPcs, Validate, hal, monitor, Goto,
      Fail, StageInv
<1>12. ASSUME NEW c \in Callers, SetupFunctions(c) PROVE MonForInv'
  BY <1>1, <1>12, CallersAssumption
  DEF LockInv, Busy, MonForInv, TearDownPcs, SetupFunctions, monitor, Goto
<1>13. ASSUME NEW c \in Callers, LinkFunction(c) PROVE MonForInv'
  BY <1>1, <1>13, CallersAssumption
  DEF LockInv, Busy, MonForInv, TearDownPcs, LinkFunction, monitor, Fail,
      Goto
<1>14. ASSUME NEW c \in Callers, LinksMade(c) PROVE MonForInv'
  BY <1>1, <1>14, CallersAssumption
  DEF LockInv, Busy, MonForInv, TearDownPcs, LinksMade, hal, monitor, Goto
<1>15. ASSUME NEW c \in Callers, PullUp(c) PROVE MonForInv'
  BY <1>1, <1>15, CallersAssumption
  DEF LockInv, Busy, MonForInv, TearDownPcs, PullUp, monitor, Goto, StageInv
<1>16. ASSUME NEW c \in Callers, StartMonitor(c) PROVE MonForInv'
  BY <1>1, <1>16, CallersAssumption
  DEF LockInv, Busy, MonForInv, TearDownPcs, StartMonitor, monitor, Goto,
      Fail
<1>17. ASSUME NEW c \in Callers, WaitReturns(c) PROVE MonForInv'
  BY <1>1, <1>17, CallersAssumption
  DEF LockInv, Busy, MonForInv, TearDownPcs, WaitReturns, monitor, Goto,
      AnswerInv
<1>18. ASSUME NEW c \in Callers, Answer(c) PROVE MonForInv'
  BY <1>1, <1>18, CallersAssumption
  DEF LockInv, Busy, MonForInv, TearDownPcs, Answer, monitor, Goto
<1>19. ASSUME NEW c \in Callers, Reset(c) PROVE MonForInv'
  BY <1>1, <1>19, CallersAssumption
  DEF LockInv, Busy, MonForInv, TearDownPcs, Reset, hal, call, monitor
<1>20. CASE MonitorScan
  BY <1>1, <1>20, CallersAssumption
  DEF LockInv, Busy, MonForInv, TearDownPcs, MonitorScan, hal, call
<1>21. CASE MonitorWrite
  BY <1>1, <1>21, CallersAssumption
  DEF LockInv, Busy, MonForInv, TearDownPcs, MonitorWrite, hal, call
<1>22. CASE MonitorPublish
  BY <1>1, <1>22, CallersAssumption
  DEF LockInv, Busy, MonForInv, TearDownPcs, MonitorPublish
<1>23. CASE MonitorEvent
  BY <1>1, <1>23, CallersAssumption
  DEF LockInv, Busy, MonForInv, TearDownPcs, MonitorEvent, hal, call
<1>24. CASE MonitorEpoll
  BY <1>1, <1>24, CallersAssumption
  DEF LockInv, Busy, MonForInv, TearDownPcs, MonitorEpoll, hal, call
<1>25. CASE Crash
  BY <1>1, <1>25, CallersAssumption
  DEF LockInv, Busy, MonForInv, TearDownPcs, Crash
<1>26. ASSUME NEW f \in Daemons, FfsOpen(f) PROVE MonForInv'
  BY <1>1, <1>26, CallersAssumption
  DEF LockInv, Busy, MonForInv, TearDownPcs, FfsOpen, hal, call, monitor
<1>27. ASSUME NEW f \in Daemons, FfsDescriptors(f) PROVE MonForInv'
  BY <1>1, <1>27, CallersAssumption
  DEF LockInv, Busy, MonForInv, TearDownPcs, FfsDescriptors, hal, call,
      monitor
<1>28. ASSUME NEW f \in Daemons, FfsClose(f) PROVE MonForInv'
  BY <1>1, <1>28, CallersAssumption
  DEF LockInv, Busy, MonForInv, TearDownPcs, FfsClose, hal, call, monitor
<1>29. ASSUME NEW f \in Daemons, FfsActivity(f) PROVE MonForInv'
  BY <1>1, <1>29, CallersAssumption
  DEF LockInv, Busy, MonForInv, TearDownPcs, FfsActivity, hal, call, monitor
<1>30. CASE UsbHalPullUp
  BY <1>1, <1>30, CallersAssumption
  DEF LockInv, Busy, MonForInv, TearDownPcs, UsbHalPullUp, hal, call,
      monitor
<1>31. CASE UsbHalPullDown
  BY <1>1, <1>31, CallersAssumption
  DEF LockInv, Busy, MonForInv, TearDownPcs, UsbHalPullDown, hal, call,
      monitor
<1>32. ASSUME NEW v \in VendorConfigs, SetVendorConfig(v) PROVE MonForInv'
  BY <1>1, <1>32, CallersAssumption
  DEF LockInv, Busy, MonForInv, TearDownPcs, SetVendorConfig, hal, call,
      monitor
<1>33. CASE UNCHANGED vars
  BY <1>33
  DEF LockInv, Busy, MonForInv, TearDownPcs, vars, hal, call, monitor
<1>. QED
  BY <1>2, <1>3, <1>4, <1>5, <1>6, <1>7, <1>8, <1>9, <1>10, <1>11, <1>12,
     <1>13, <1>14, <1>15, <1>16, <1>17, <1>18, <1>19, <1>20, <1>21, <1>22,
     <1>23, <1>24, <1>25, <1>26, <1>27, <1>28, <1>29, <1>30, <1>31, <1>32,
     <1>33
  DEF Next, Client, Caller, TearDown, Setup, MonitorFfs, Environment, Quiescent

\* A call that waits is notified by the step that sets gadgetPullup, and no step
\* takes the notification back before the call is awake.
LEMMA WokenStep == IInv /\ [Next]_vars => WaitIsWoken'
<1>. SUFFICES ASSUME IInv, [Next]_vars, NEW d \in Callers,
                     pc'[d] = "wait", gadgetPullup'
              PROVE  notified'
  BY DEF WaitIsWoken
<1>1. /\ LockInv /\ pc \in [Callers -> CallerPcs]
      /\ pc[d] = "wait" /\ gadgetPullup => notified
  BY DEF IInv, TypeOK, CallTypeOK, WaitIsWoken
<1>. USE <1>1
<1>3. ASSUME NEW c \in Callers, StartMonitor(c) PROVE notified'
  <2>1. d # c => pc[d] # "wait"
    BY <1>3 DEF LockInv, Busy, StartMonitor
  <2>. QED  BY <1>3, <2>1 DEF StartMonitor, Goto, Fail
<1>4. CASE MonitorPublish
  BY <1>4 DEF MonitorPublish, NotifyAll
<1>5. CASE Crash
  BY <1>5 DEF Crash
<1>6. ASSUME NEW c \in Callers, Lock(c) \/ ClearApplied(c) PROVE notified'
  BY <1>6 DEF Lock, ClearApplied, Goto
<1>7. ASSUME NEW c \in Callers, Client(c) PROVE notified'
  BY <1>7 DEF Client, Call, Reset, Goto, hal, call
<1>8. ASSUME NEW c \in Callers, TearDown(c) PROVE notified'
  BY <1>8
  DEF TearDown, PullDown, ClearDescriptors, UnlinkFunctions, StopMonitor,
      JoinMonitor, Goto, Fail, hal
<1>9. ASSUME NEW c \in Callers, Disconnected(c) \/ Validate(c) \/ Answer(c)
      PROVE  notified'
  BY <1>9 DEF Disconnected, Validate, Answer, Goto, Fail, hal
<1>10. ASSUME NEW c \in Callers,
              \/ SetupFunctions(c) \/ LinkFunction(c) \/ LinksMade(c)
              \/ PullUp(c) \/ WaitReturns(c)
       PROVE  notified'
  BY <1>10
  DEF SetupFunctions, LinkFunction, LinksMade, PullUp, WaitReturns, Goto, Fail,
      hal
<1>11. CASE MonitorScan \/ MonitorWrite \/ MonitorEvent \/ MonitorEpoll
  BY <1>11
  DEF MonitorScan, MonitorWrite, MonitorEvent, MonitorEpoll, hal, call
<1>12. ASSUME NEW f \in Daemons,
              FfsOpen(f) \/ FfsDescriptors(f) \/ FfsClose(f) \/ FfsActivity(f)
       PROVE  notified'
  BY <1>12 DEF FfsOpen, FfsDescriptors, FfsClose, FfsActivity, hal, call
<1>13. CASE UsbHalPullUp \/ UsbHalPullDown
  BY <1>13 DEF UsbHalPullUp, UsbHalPullDown, hal, call
<1>14. ASSUME NEW v \in VendorConfigs, SetVendorConfig(v) PROVE notified'
  BY <1>14 DEF SetVendorConfig, hal, call
<1>15. CASE UNCHANGED vars
  BY <1>15 DEF vars, hal, call
<1>. QED
  BY <1>3, <1>4, <1>5, <1>6, <1>7, <1>8, <1>9, <1>10, <1>11, <1>12, <1>13,
     <1>14, <1>15
  DEF Next, Caller, Setup, MonitorFfs, Environment, Quiescent

\* IInv is an invariant: no action leaves it.
THEOREM Invariant == Spec => []IInv
<1>1. IInv /\ [Next]_vars => TypeOK'
  BY TypeStep DEF IInv
<1>2. IInv /\ [Next]_vars => IInv'
  BY <1>1, LockStep, MonitorStep, BoundStep, StageStep, AnswerStep, MonForStep,
     WokenStep
  DEF IInv
<1>. QED  BY InitInv, <1>2, PTL DEF Spec

\* Requests are processed one at a time (UsbGadget.h:80), for any number of
\* binder threads and any mix of failures and restarts.
THEOREM MutualExclusion == Spec => []OneRequestAtATime
<1>1. IInv => OneRequestAtATime
  BY DEF IInv, LockInv, Busy, OneRequestAtATime
<1>. QED  BY Invariant, <1>1, PTL

\* The gadget is down, and cannot be pulled up, for the whole disconnect wait of
\* setCurrentUsbFunctions (UsbGadget.cpp:685).
THEOREM Disconnect == Spec => []DownWhileDisconnecting
<1>1. IInv => DownWhileDisconnecting
  BY DEF IInv, StageInv, BoundInv, CanBind, Bindable, DownWhileDisconnecting
<1>. QED  BY Invariant, <1>1, PTL

\* No two monitorFfs threads: the old one is joined before a request links its
\* functions and assigns mMonitor (UsbGadget.cpp:647).
THEOREM OneMonitor == Spec => []MonitorStoppedBeforeSetup
<1>1. IInv => MonitorStoppedBeforeSetup
  BY DEF IInv, StageInv, MonitorInv, MonitorStoppedBeforeSetup
<1>. QED  BY Invariant, <1>1, PTL

\* A monitor is started for exactly the functionfs functions that are linked,
\* whatever a failed request left behind (UsbGadget.cpp:281-307).
THEOREM Endpoints == Spec => []EndpointsOfTheLinks
<1>1. IInv => EndpointsOfTheLinks
  BY DEF IInv, StageInv, EndpointsOfTheLinks
<1>. QED  BY Invariant, <1>1, PTL

\* SUCCESS reaches a client with a callback only after its own functions have
\* been pulled up and published (UsbGadget.cpp:652-664).
THEOREM Success == Spec => []SuccessIsApplied
<1>1. IInv => SuccessIsApplied
  BY DEF IInv, AnswerInv, SuccessIsApplied
<1>. QED  BY Invariant, <1>1, PTL

\* No step makes getCurrentUsbFunctions name functions that were not applied,
\* except the three UntruthfulOnlyByOvertakenMonitor lists.
LEMMA TruthStep ==
  ASSUME IInv, [Next]_vars, Truthful, ~Truthful',
         status # "ERROR",
         \A c \in Callers : /\ pc'[c] # "clear"
                            /\ pc[c] \notin {"clear"} \cup TearDownPcs
  PROVE  FALSE
<1>1. pc \in [Callers -> CallerPcs]
  BY DEF IInv, TypeOK, CallTypeOK
<1>2. UNCHANGED <<mCurrentUsbFunctions, mCurrentUsbFunctionsApplied, appliedFor>>
        => FALSE
  BY DEF Truthful
<1>3. ~mCurrentUsbFunctionsApplied' => FALSE
  BY DEF Truthful
<1>4. ASSUME NEW c \in Callers, Lock(c) PROVE FALSE
  BY <1>1, <1>4 DEF Lock, Goto
<1>5. ASSUME NEW c \in Callers, PullUp(c) PROVE FALSE
  <2>1. mCurrentUsbFunctions = req[c].functions
    BY <1>5 DEF IInv, LockInv, Busy, PullUp
  <2>. QED
    BY <1>2, <1>5, <2>1 DEF PullUp, Truthful
<1>6. CASE MonitorPublish
  <2>1. mMonitorCreated
    BY <1>6 DEF IInv, MonitorInv, MonitorPublish
  <2>2. monFor = mCurrentUsbFunctions
    BY <2>1 DEF IInv, MonForInv
  <2>. QED
    BY <1>6, <2>2 DEF MonitorPublish, Truthful
<1>7. CASE Crash
  BY <1>3, <1>7 DEF Crash
<1>8. ASSUME NEW c \in Callers, ClearApplied(c) PROVE FALSE
  BY <1>3, <1>8 DEF ClearApplied
<1>9. ASSUME NEW c \in Callers, Client(c) PROVE FALSE
  BY <1>2, <1>9 DEF Client, Call, Reset, hal
<1>10. ASSUME NEW c \in Callers, TearDown(c) PROVE FALSE
  BY <1>2, <1>10
  DEF TearDown, PullDown, ClearDescriptors, UnlinkFunctions, StopMonitor,
      JoinMonitor, hal
<1>11. ASSUME NEW c \in Callers, Disconnected(c) \/ Validate(c) \/ Answer(c)
       PROVE  FALSE
  BY <1>2, <1>11 DEF Disconnected, Validate, Answer, hal
<1>12. ASSUME NEW c \in Callers, Setup(c) PROVE FALSE
  BY <1>2, <1>5, <1>12
  DEF Setup, SetupFunctions, LinkFunction, LinksMade, StartMonitor, WaitReturns,
      hal
<1>13. CASE MonitorScan \/ MonitorWrite \/ MonitorEvent \/ MonitorEpoll
  BY <1>2, <1>13 DEF MonitorScan, MonitorWrite, MonitorEvent, MonitorEpoll, hal
<1>14. ASSUME NEW f \in Daemons,
              FfsOpen(f) \/ FfsDescriptors(f) \/ FfsClose(f) \/ FfsActivity(f)
       PROVE  FALSE
  BY <1>2, <1>14 DEF FfsOpen, FfsDescriptors, FfsClose, FfsActivity, hal
<1>15. CASE UsbHalPullUp \/ UsbHalPullDown
  BY <1>2, <1>15 DEF UsbHalPullUp, UsbHalPullDown, hal
<1>16. ASSUME NEW v \in VendorConfigs, SetVendorConfig(v) PROVE FALSE
  BY <1>2, <1>16 DEF SetVendorConfig, hal
<1>17. CASE UNCHANGED vars
  BY <1>2, <1>17 DEF vars, hal
<1>. QED
  BY <1>4, <1>6, <1>7, <1>8, <1>9, <1>10, <1>11, <1>12, <1>13, <1>14, <1>15,
     <1>16, <1>17
  DEF Next, Caller, MonitorFfs, Environment, Quiescent

\* The same as an action property of the specification.
THEOREM Truth == Spec => UntruthfulOnlyByOvertakenMonitor
<1>1. IInv /\ [Next]_vars =>
        [Truthful /\ ~Truthful' =>
           \/ \E c \in Callers :
                pc'[c] = "clear" \/ pc[c] \in {"clear"} \cup TearDownPcs
           \/ status = "ERROR"]_vars
  BY TruthStep
<1>. QED  BY Invariant, <1>1, PTL DEF Spec, UntruthfulOnlyByOvertakenMonitor

\* A waiting call is never left to its timeout by a pull-up it was not told of.
THEOREM Woken == Spec => []WaitIsWoken
<1>1. IInv => WaitIsWoken
  BY DEF IInv
<1>. QED  BY <1>1, Invariant, PTL

----------------------------------------------------------------------------
(* What is bound is whole. *)

\* Requests are answered with links only when they ask for some.
AskedInv ==
  \A c \in Callers :
    /\ req[c].functions \in Requests \cup {NONE}
    /\ pc[c] \in {"validate", "setup", "link", "pullUp", "start"}
         => req[c].functions # NONE

\* The ids, and the links with them, that a request selects with vendor.usb.config
\* as it is, which has been written back if it was unset.
Selected == GetVendorFunctions(vendorConfig)
IdsOf(f) ==
  ids = VidPid(f, Selected) /\ VendorConfigAfter(vendorConfig) = vendorConfig
Whole(f) == IdsOf(f) /\ links = Range(LinkList(f, Selected))

Unspent(kinds) == \A k \in kinds : left[k] = Budget[k]

\* What a monitor, or a call that is about to, may bind is a whole composition.
PartsInv ==
  Unspent({"vendor", "unlinkFaults"}) =>
    /\ mMonitorCreated => links = {} \/ \E f \in Requests : Whole(f)
    /\ \A c \in Callers :
         /\ pc[c] \in {"setup", "link", "pullUp", "start"}
              => IdsOf(req[c].functions)
         /\ pc[c] = "link" =>
              links \cup Range(todo) = Range(LinkList(req[c].functions, Selected))
         /\ pc[c] \in {"pullUp", "start"} => Whole(req[c].functions)

\* Without a pull-up by the USB HAL nothing else is bound.
UpInv ==
  Unspent({"vendor", "unlinkFaults", "usbHal"}) =>
    /\ udc => \E f \in Requests : Whole(f)
    /\ \A c \in Callers : pc[c] \in {"link", "pullUp", "start"} => ~udc

\* What is spent does not come back.
LeftInv == \A k \in Kinds : left[k] <= Budget[k]

LEMMA SpendLess ==
  ASSUME left \in [Kinds -> Nat], NEW k \in Kinds, Spend(k)
  PROVE  /\ left'[k] = left[k] - 1
         /\ \A j \in Kinds : left'[j] <= left[j]
BY DEF Spend

LEMMA NeverMore ==
  ASSUME left \in [Kinds -> Nat], [Next]_vars
  PROVE  \A k \in Kinds : left'[k] <= left[k]
<1>1. \A k \in Kinds : Spend(k) => \A j \in Kinds : left'[j] <= left[j]
  BY SpendLess
<1>2. CASE UNCHANGED left
  BY <1>2
<1>3. CASE \E k \in Kinds : Spend(k)
  BY <1>1, <1>3
<1>4. UNCHANGED left \/ \E k \in Kinds : Spend(k)
  <2>1. ASSUME NEW c \in Callers, Client(c) PROVE \E k \in Kinds : Spend(k)
    BY <2>1, KindNames DEF Client, Call, Reset
  <2>2. ASSUME NEW c \in Callers, TearDown(c)
        PROVE  UNCHANGED left \/ \E k \in Kinds : Spend(k)
    BY <2>2, KindNames
    DEF TearDown, PullDown, ClearDescriptors, UnlinkFunctions, StopMonitor,
        JoinMonitor
  <2>3. ASSUME NEW c \in Callers, Setup(c)
        PROVE  UNCHANGED left \/ \E k \in Kinds : Spend(k)
    BY <2>3, KindNames
    DEF Setup, SetupFunctions, LinkFunction, LinksMade, PullUp, StartMonitor,
        WaitReturns
  <2>4. ASSUME NEW c \in Callers,
               Lock(c) \/ ClearApplied(c) \/ Disconnected(c) \/ Answer(c)
        PROVE  UNCHANGED left
    BY <2>4 DEF Lock, ClearApplied, Disconnected, Answer
  <2>5. ASSUME NEW c \in Callers, Validate(c)
        PROVE  UNCHANGED left \/ \E k \in Kinds : Spend(k)
    BY <2>5, KindNames DEF Validate
  <2>6. CASE MonitorFfs
    BY <2>6, KindNames
    DEF MonitorFfs, MonitorScan, MonitorWrite, MonitorPublish, MonitorEvent,
        MonitorEpoll
  <2>7. CASE Environment
    BY <2>7, KindNames
    DEF Environment, Crash, FfsOpen, FfsDescriptors, FfsClose, FfsActivity,
        UsbHalPullUp, UsbHalPullDown, SetVendorConfig
  <2>8. CASE UNCHANGED vars
    BY <2>8 DEF vars
  <2> QED
    BY <2>1, <2>2, <2>3, <2>4, <2>5, <2>6, <2>7, <2>8
    DEF Next, Caller, Quiescent
<1> QED BY <1>2, <1>3, <1>4

LEMMA LeftStep == TypeOK /\ LeftInv /\ [Next]_vars => LeftInv'
<1> SUFFICES ASSUME TypeOK, LeftInv, [Next]_vars, NEW k \in Kinds
             PROVE  left'[k] <= Budget[k]
  BY DEF LeftInv
<1>1. /\ left \in [Kinds -> Nat] /\ left' \in [Kinds -> Nat]
      /\ Budget \in [Kinds -> Nat]
  BY TypeStep, BudgetAssumption DEF TypeOK, OutsideTypeOK
<1>2. left'[k] <= left[k] /\ left[k] <= Budget[k]
  BY <1>1, NeverMore DEF LeftInv
<1>3. left'[k] \in Nat /\ left[k] \in Nat /\ Budget[k] \in Nat
  BY <1>1
<1> QED BY <1>2, <1>3

\* What is unspent afterwards was unspent before.
LEMMA UnspentBefore ==
  ASSUME TypeOK, LeftInv, [Next]_vars, NEW kinds \in SUBSET Kinds, Unspent(kinds)'
  PROVE  Unspent(kinds) /\ \A k \in kinds : ~Spend(k)
<1> SUFFICES ASSUME NEW k \in kinds PROVE left[k] = Budget[k] /\ ~Spend(k)
  BY DEF Unspent
<1>1. /\ left \in [Kinds -> Nat] /\ Budget \in [Kinds -> Nat]
      /\ left' \in [Kinds -> Nat]
  BY TypeStep, BudgetAssumption DEF TypeOK, OutsideTypeOK
<1>2. left[k] \in Nat /\ Budget[k] \in Nat /\ left'[k] = Budget[k]
  BY <1>1 DEF Unspent
<1>3. left'[k] <= left[k] /\ left[k] <= Budget[k]
  BY <1>1, NeverMore DEF LeftInv
<1>4. left[k] = Budget[k]
  BY <1>2, <1>3
<1>5. Spend(k) => left'[k] = left[k] - 1
  BY <1>1, SpendLess
<1> QED BY <1>2, <1>4, <1>5

LEMMA InitParts == Init => AskedInv /\ PartsInv /\ UpInv /\ LeftInv
<1> SUFFICES ASSUME Init PROVE AskedInv /\ PartsInv /\ UpInv /\ LeftInv
  OBVIOUS
<1>1. AskedInv /\ PartsInv /\ UpInv
  BY DEF Init, AskedInv, PartsInv, UpInv
<1>2. LeftInv
  <2>1. left = Budget /\ \A k \in Kinds : Budget[k] \in Nat
    BY BudgetAssumption DEF Init
  <2> QED BY <2>1 DEF LeftInv
<1> QED BY <1>1, <1>2

LEMMA AskedStep == TypeOK /\ AskedInv /\ [Next]_vars => AskedInv'
<1> SUFFICES ASSUME TypeOK, AskedInv, [Next]_vars PROVE AskedInv'
  OBVIOUS
<1>1. /\ pc \in [Callers -> CallerPcs]
      /\ req \in [Callers -> [functions : SUBSET GadgetFunction,
                              callback : BOOLEAN]]
  BY DEF TypeOK, CallTypeOK
<1>2. ASSUME NEW c \in Callers, NEW functions \in Requests \cup {NONE},
             NEW callback \in BOOLEAN, Call(c, functions, callback)
      PROVE  AskedInv'
  BY <1>1, <1>2 DEF AskedInv, Call, Goto
<1>3. ASSUME NEW c \in Callers,
             \/ Lock(c) \/ ClearApplied(c) \/ TearDown(c) \/ Answer(c)
             \/ WaitReturns(c) \/ PullUp(c) \/ StartMonitor(c)
      PROVE  AskedInv'
  BY <1>1, <1>3
  DEF AskedInv, Lock, ClearApplied, TearDown, PullDown, ClearDescriptors,
      UnlinkFunctions, StopMonitor, JoinMonitor, Answer, WaitReturns, PullUp,
      StartMonitor, Goto, Fail
<1>4. ASSUME NEW c \in Callers, Disconnected(c) PROVE AskedInv'
  BY <1>1, <1>4 DEF AskedInv, Disconnected, Goto, Fail
<1>5. ASSUME NEW c \in Callers,
             Validate(c) \/ SetupFunctions(c) \/ LinkFunction(c) \/ LinksMade(c)
      PROVE  AskedInv'
  BY <1>1, <1>5
  DEF AskedInv, Validate, SetupFunctions, LinkFunction, LinksMade, Goto, Fail
<1>6. CASE MonitorFfs
  BY <1>6
  DEF AskedInv, MonitorFfs, MonitorScan, MonitorWrite, MonitorPublish,
      MonitorEvent, MonitorEpoll, call
<1>7. CASE Environment
  BY <1>7
  DEF AskedInv, Environment, Crash, FfsOpen, FfsDescriptors, FfsClose,
      FfsActivity, UsbHalPullUp, UsbHalPullDown, SetVendorConfig, call
<1>8. ASSUME UNCHANGED <<pc, req>> PROVE AskedInv'
  BY <1>8 DEF AskedInv
<1>9. \A c \in Callers : Reset(c) => UNCHANGED <<pc, req>>
  BY DEF Reset, call
<1>10. UNCHANGED vars => UNCHANGED <<pc, req>>
  BY DEF vars, call
<1> QED
  BY <1>2, <1>3, <1>4, <1>5, <1>6, <1>7, <1>8, <1>9, <1>10
  DEF Next, Client, Caller, Setup, Quiescent

\* What the two invariants read of the kernel and of the properties.
LEMMA SameParts ==
  ASSUME UNCHANGED <<ids, vendorConfig>>
  PROVE  /\ Selected' = Selected
         /\ \A f : IdsOf(f)' <=> IdsOf(f)
         /\ links' = links => \A f : Whole(f)' <=> Whole(f)
BY DEF Selected, IdsOf, Whole

\* A vendor string is not set a second time.
LEMMA WrittenBack ==
  ASSUME NEW p
  PROVE  /\ GetVendorFunctions(VendorConfigAfter(p)) = GetVendorFunctions(p)
         /\ VendorConfigAfter(VendorConfigAfter(p)) = VendorConfigAfter(p)
BY DEF GetVendorFunctions, VendorConfigAfter

\* One function less to link.
LEMMA HeadAndTail ==
  ASSUME NEW S, NEW s \in Seq(S), s # <<>>
  PROVE  {Head(s)} \cup Range(Tail(s)) = Range(s)
<1>1. /\ DOMAIN s = 1..Len(s) /\ Len(s) \in Nat /\ Len(s) > 0
      /\ DOMAIN Tail(s) = 1..(Len(s) - 1)
      /\ \A i \in 1..(Len(s) - 1) : Tail(s)[i] = s[i + 1]
      /\ Head(s) = s[1]
  OBVIOUS
<1>2. {Head(s)} \cup Range(Tail(s)) \subseteq Range(s)
  BY <1>1 DEF Range
<1>3. ASSUME NEW y \in Range(s) PROVE y \in {Head(s)} \cup Range(Tail(s))
  <2>1. PICK i \in 1..Len(s) : y = s[i]
    BY <1>1, <1>3 DEF Range
  <2>2. i = 1 \/ (i - 1 \in 1..(Len(s) - 1) /\ Tail(s)[i - 1] = s[i])
    BY <1>1
  <2> QED BY <1>1, <2>1, <2>2 DEF Range
<1> QED BY <1>2, <1>3

\* Every action: PartsInv.
LEMMA PartsStep ==
  IInv /\ AskedInv /\ PartsInv /\ LeftInv /\ [Next]_vars => PartsInv'
<1> SUFFICES ASSUME IInv, AskedInv, PartsInv, LeftInv, [Next]_vars,
                    Unspent({"vendor", "unlinkFaults"})'
             PROVE  PartsInv'
  BY DEF PartsInv
<1> DEFINE Stages == {"setup", "link", "pullUp", "start"}
           Live == mMonitorCreated => links = {} \/ \E f \in Requests : Whole(f)
           At(c) ==
             /\ pc[c] \in Stages => IdsOf(req[c].functions)
             /\ pc[c] = "link" =>
                  links \cup Range(todo)
                    = Range(LinkList(req[c].functions, Selected))
             /\ pc[c] \in {"pullUp", "start"} => Whole(req[c].functions)
<1>1. Unspent({"vendor", "unlinkFaults"}) /\ ~Spend("vendor")
      /\ ~Spend("unlinkFaults")
  BY UnspentBefore, KindNames DEF IInv
<1>2. Live /\ \A c \in Callers : At(c)
  BY <1>1 DEF PartsInv
<1>3. SUFFICES ASSUME TRUE PROVE Live' /\ \A c \in Callers : At(c)'
  BY DEF PartsInv
<1>4. /\ pc \in [Callers -> CallerPcs] /\ todo \in Seq(LinkName)
      /\ vendorConfig \in VendorStrings
      /\ req \in [Callers -> [functions : SUBSET GadgetFunction,
                              callback : BOOLEAN]]
  BY DEF IInv, TypeOK, CallTypeOK, OutsideTypeOK
\* Nothing else is past the lock.
<1>5. ASSUME NEW c \in Callers, pc[c] \notin {"idle", "locking"}
      PROVE  \A d \in Callers \ {c} : pc[d] \in {"idle", "locking"}
  BY <1>5 DEF IInv, LockInv, Busy
<1> HIDE DEF Live, At
\* Steps that change nothing the invariant is about, and those that leave it alone
\* but for the stage of one call.
<1>6. ASSUME UNCHANGED <<pc, req, todo, ids, links, vendorConfig, mMonitorCreated>>
      PROVE  Live' /\ \A c \in Callers : At(c)'
  BY <1>2, <1>6, SameParts DEF Live, At
<1>7. ASSUME NEW c \in Callers, pc' = [pc EXCEPT ![c] = pc'[c]],
             pc'[c] \notin Stages,
             UNCHANGED <<ids, vendorConfig, todo>>,
             links' = links \/ (links' = {} /\ pc[c] \notin {"idle", "locking"}),
             mMonitorCreated' =>
               \/ mMonitorCreated
               \/ Whole(req[c].functions) /\ req[c].functions \in Requests,
             \A d \in Callers \ {c} : req'[d] = req[d]
      PROVE  Live' /\ \A d \in Callers : At(d)'
  <2>1. Live'
    BY <1>2, <1>7, SameParts DEF Live
  <2>2. ASSUME NEW d \in Callers \ {c} PROVE At(d)'
    <3>1. pc'[d] = pc[d] /\ req'[d] = req[d]
      BY <1>4, <1>7
    <3>2. CASE links' = links
      BY <1>2, <1>7, <3>1, <3>2, SameParts DEF At
    <3>3. CASE pc[c] \notin {"idle", "locking"}
      BY <1>5, <3>1, <3>3 DEF At
    <3> QED BY <1>7, <3>2, <3>3
  <2>3. At(c)'
    BY <1>7 DEF At
  <2> QED BY <2>1, <2>2, <2>3
\* Clients and the teardown.
<1>8. ASSUME NEW c \in Callers, NEW functions \in Requests \cup {NONE},
             NEW callback \in BOOLEAN, Call(c, functions, callback)
      PROVE  Live' /\ \A d \in Callers : At(d)'
  <2>1. /\ pc' = [pc EXCEPT ![c] = "locking"]
        /\ \A d \in Callers \ {c} : req'[d] = req[d]
        /\ UNCHANGED <<ids, vendorConfig, todo, links, mMonitorCreated>>
    BY <1>4, <1>8 DEF Call, Goto, hal, configfs, outside
  <2> QED BY <1>4, <1>7, <2>1
<1>9. ASSUME NEW c \in Callers,
             \/ Lock(c) \/ ClearApplied(c) \/ PullDown(c) \/ ClearDescriptors(c)
             \/ StopMonitor(c) \/ JoinMonitor(c) \/ Disconnected(c) \/ PullUp(c)
             \/ WaitReturns(c) \/ Answer(c)
      PROVE  Live' /\ \A d \in Callers : At(d)'
  <2>1. /\ pc' = [pc EXCEPT ![c] = pc'[c]] /\ pc'[c] \notin Stages
        /\ UNCHANGED <<ids, vendorConfig, todo, links, req>>
        /\ mMonitorCreated' => mMonitorCreated
    BY <1>4, <1>9
    DEF Lock, ClearApplied, PullDown, ClearDescriptors, StopMonitor, JoinMonitor,
        Disconnected, PullUp, WaitReturns, Answer, Goto, Fail, hal, configfs,
        outside
  <2> QED BY <1>7, <2>1
<1>10. ASSUME NEW c \in Callers, UnlinkFunctions(c)
       PROVE  Live' /\ \A d \in Callers : At(d)'
  <2>1. /\ pc' = [pc EXCEPT ![c] = pc'[c]] /\ pc'[c] \notin Stages
        /\ UNCHANGED <<ids, vendorConfig, todo, mMonitorCreated, req>>
        /\ links' = {} /\ pc[c] \notin {"idle", "locking"}
    BY <1>1, <1>4, <1>10 DEF UnlinkFunctions, Goto, Fail, hal, outside
  <2> QED BY <1>7, <2>1
\* The set-up.
<1>11. ASSUME NEW c \in Callers, Validate(c)
       PROVE  Live' /\ \A d \in Callers : At(d)'
  <2>1. /\ pc[c] = "validate" /\ pc' = [pc EXCEPT ![c] = pc'[c]]
        /\ pc'[c] \in {"setup", "answer"}
        /\ UNCHANGED <<req, mMonitorCreated>>
        /\ vendorConfig' = VendorConfigAfter(vendorConfig)
        /\ pc'[c] = "setup" => ids' = VidPid(req[c].functions, Selected)
    BY <1>4, <1>11 DEF Validate, Goto, Fail, Selected, hal
  <2>2. ~mMonitorCreated
    BY <2>1 DEF IInv, StageInv
  <2>3. IdsOf(req[c].functions)' \/ pc'[c] = "answer"
    BY <2>1, WrittenBack DEF IdsOf, Selected
  <2>4. At(c)'
    BY <2>1, <2>3 DEF At
  <2>5. \A d \in Callers \ {c} : At(d)'
    BY <1>4, <1>5, <2>1 DEF At
  <2> QED BY <2>1, <2>2, <2>4, <2>5 DEF Live
<1>12. ASSUME NEW c \in Callers, SetupFunctions(c)
       PROVE  Live' /\ \A d \in Callers : At(d)'
  <2>1. /\ pc[c] = "setup" /\ pc' = [pc EXCEPT ![c] = "link"]
        /\ UNCHANGED <<req, mMonitorCreated, links, ids>>
        /\ vendorConfig' = VendorConfigAfter(vendorConfig)
        /\ todo' = LinkList(req[c].functions, Selected)
    BY <1>12 DEF SetupFunctions, Goto, Selected, configfs
  <2>2. ~mMonitorCreated /\ links = {}
    BY <2>1 DEF IInv, StageInv
  <2>3. IdsOf(req[c].functions)
    BY <1>2, <2>1 DEF At
  <2>4. vendorConfig' = vendorConfig
    BY <2>1, <2>3 DEF IdsOf
  <2>5. Selected' = Selected /\ IdsOf(req[c].functions)'
    BY <2>1, <2>3, <2>4, SameParts
  <2>6. links' \cup Range(todo') = Range(LinkList(req[c].functions, Selected))
    BY <2>1, <2>2
  <2>7. At(c)'
    BY <1>4, <2>1, <2>5, <2>6 DEF At
  <2>8. \A d \in Callers \ {c} : At(d)'
    BY <1>4, <1>5, <2>1 DEF At
  <2> QED BY <2>1, <2>2, <2>7, <2>8 DEF Live
<1>13. ASSUME NEW c \in Callers, LinkFunction(c)
       PROVE  Live' /\ \A d \in Callers : At(d)'
  <2>1. /\ pc[c] = "link" /\ UNCHANGED <<req, mMonitorCreated, ids, vendorConfig>>
        /\ todo # <<>>
        /\ \/ /\ links' = links \cup {Head(todo)} /\ todo' = Tail(todo)
              /\ pc' = pc
           \/ pc' = [pc EXCEPT ![c] = "answer"]
    BY <1>13 DEF LinkFunction, Goto, Fail, outside
  <2>2. ~mMonitorCreated
    BY <2>1 DEF IInv, StageInv
  <2>3. At(c)'
    <3>1. CASE /\ links' = links \cup {Head(todo)} /\ todo' = Tail(todo)
               /\ pc' = pc
      <4>1. IdsOf(req[c].functions)
            /\ links \cup Range(todo) = Range(LinkList(req[c].functions, Selected))
        BY <1>2, <2>1 DEF At
      <4>2. {Head(todo)} \cup Range(Tail(todo)) = Range(todo)
        BY <1>4, <2>1, HeadAndTail
      <4>3. links' \cup Range(todo') = links \cup Range(todo)
        BY <3>1, <4>2
      <4>4. Selected' = Selected /\ IdsOf(req[c].functions)'
        BY <2>1, <4>1, SameParts
      <4> QED BY <2>1, <3>1, <4>1, <4>3, <4>4 DEF At
    <3>2. CASE pc' = [pc EXCEPT ![c] = "answer"]
      BY <1>4, <3>2 DEF At
    <3> QED BY <2>1, <3>1, <3>2
  <2>4. \A d \in Callers \ {c} : At(d)'
    BY <1>4, <1>5, <2>1 DEF At
  <2> QED BY <2>1, <2>2, <2>3, <2>4 DEF Live
<1>14. ASSUME NEW c \in Callers, LinksMade(c)
       PROVE  Live' /\ \A d \in Callers : At(d)'
  <2>1. /\ pc[c] = "link" /\ pc' = [pc EXCEPT ![c] = pc'[c]]
        /\ pc'[c] \in {"pullUp", "start"} /\ todo = <<>>
        /\ UNCHANGED <<req, mMonitorCreated, ids, vendorConfig, links, todo>>
    BY <1>4, <1>14 DEF LinksMade, Goto, hal, configfs, outside
  <2>2. ~mMonitorCreated
    BY <2>1 DEF IInv, StageInv
  <2>3. Range(<<>>) = {}
    BY DEF Range
  <2>4. Whole(req[c].functions) /\ IdsOf(req[c].functions)
    BY <1>2, <2>1, <2>3 DEF At, Whole
  <2>5. At(c)'
    BY <2>1, <2>4, SameParts DEF At
  <2>6. \A d \in Callers \ {c} : At(d)'
    BY <1>4, <1>5, <2>1 DEF At
  <2> QED BY <2>1, <2>2, <2>5, <2>6 DEF Live
<1>15. ASSUME NEW c \in Callers, StartMonitor(c)
       PROVE  Live' /\ \A d \in Callers : At(d)'
  <2>1. /\ pc[c] = "start" /\ pc' = [pc EXCEPT ![c] = pc'[c]]
        /\ pc'[c] \notin Stages
        /\ UNCHANGED <<req, ids, vendorConfig, links, todo>>
    BY <1>4, <1>15 DEF StartMonitor, Goto, Fail, configfs, outside
  <2>2. Whole(req[c].functions)
    BY <1>2, <2>1 DEF At
  <2>3. req[c].functions \in Requests
    BY <2>1 DEF AskedInv
  <2> QED BY <1>7, <2>1, <2>2, <2>3
\* The monitor and the environment.
<1>16. CASE Crash
  <2>1. /\ ~mMonitorCreated' /\ \A c \in Callers : pc'[c] = "idle"
    BY <1>16 DEF Crash
  <2> QED BY <2>1 DEF Live, At
<1>17. CASE MonitorFfs
  BY <1>6, <1>17
  DEF MonitorFfs, MonitorScan, MonitorWrite, MonitorPublish, MonitorEvent,
      MonitorEpoll, hal, call, configfs, outside
<1>18. CASE \E c \in Callers : Reset(c)
  BY <1>6, <1>18 DEF Reset, hal, call, outside
<1>19. CASE \/ UsbHalPullUp \/ UsbHalPullDown
            \/ \E f \in Daemons :
                 FfsOpen(f) \/ FfsDescriptors(f) \/ FfsClose(f) \/ FfsActivity(f)
  BY <1>6, <1>19
  DEF UsbHalPullUp, UsbHalPullDown, FfsOpen, FfsDescriptors, FfsClose,
      FfsActivity, hal, call, configfs, outside
<1>20. ASSUME NEW v \in VendorConfigs, SetVendorConfig(v) PROVE FALSE
  BY <1>1, <1>20 DEF SetVendorConfig
<1>21. CASE UNCHANGED vars
  BY <1>6, <1>21 DEF vars, hal, call, configfs, outside
<1> QED
  BY <1>8, <1>9, <1>10, <1>11, <1>12, <1>13, <1>14, <1>15, <1>16, <1>17, <1>18,
     <1>19, <1>20, <1>21
  DEF Next, Client, Caller, TearDown, Setup, Environment, Quiescent

\* Every action: UpInv.
LEMMA UpStep ==
  IInv /\ AskedInv /\ PartsInv /\ UpInv /\ LeftInv /\ [Next]_vars => UpInv'
<1> SUFFICES ASSUME IInv, AskedInv, PartsInv, UpInv, LeftInv, [Next]_vars,
                    Unspent({"vendor", "unlinkFaults", "usbHal"})'
             PROVE  UpInv'
  BY DEF UpInv
<1> DEFINE Stages == {"link", "pullUp", "start"}
           Bound == udc => \E f \in Requests : Whole(f)
           Down == \A c \in Callers : pc[c] \in Stages => ~udc
<1>1. /\ Unspent({"vendor", "unlinkFaults", "usbHal"})
      /\ ~Spend("vendor") /\ ~Spend("unlinkFaults") /\ ~Spend("usbHal")
  BY UnspentBefore, KindNames DEF IInv
<1>2. Bound /\ Down
  BY <1>1 DEF UpInv
<1>3. /\ mMonitorCreated => links = {} \/ \E f \in Requests : Whole(f)
      /\ \A c \in Callers : pc[c] \in {"pullUp", "start"} => Whole(req[c].functions)
  BY <1>1 DEF PartsInv, Unspent
<1>4. pc \in [Callers -> CallerPcs]
  BY DEF IInv, TypeOK, CallTypeOK
<1>5. \A c, d \in Callers :
        pc[c] \notin {"idle", "locking"} /\ pc[d] \notin {"idle", "locking"} => c = d
  BY DEF IInv, LockInv, Busy
<1>6. SUFFICES ASSUME TRUE PROVE Bound' /\ Down'
  BY DEF UpInv
<1>7. udc => links # {}
  BY DEF IInv, BoundInv
<1> HIDE DEF Bound
\* Steps that leave what is linked alone and do not pull the gadget up.
<1>8. ASSUME udc' => udc, UNCHANGED <<links, ids, vendorConfig>>
      PROVE  Bound'
  BY <1>2, <1>8, SameParts DEF Bound
<1>9. ASSUME NEW c \in Callers, pc' = [pc EXCEPT ![c] = pc'[c]],
             pc'[c] \in Stages => pc[c] \in Stages, udc' => udc
      PROVE  Down'
  BY <1>2, <1>4, <1>9
<1>10. ASSUME ~udc' PROVE Bound' /\ Down'
  BY <1>10 DEF Bound
<1>11. ASSUME NEW c \in Callers, NEW functions \in Requests \cup {NONE},
              NEW callback \in BOOLEAN, Call(c, functions, callback)
       PROVE  Bound' /\ Down'
  <2>1. /\ pc' = [pc EXCEPT ![c] = "locking"]
        /\ UNCHANGED <<ids, vendorConfig, links, udc>>
    BY <1>11 DEF Call, Goto, configfs, outside
  <2> QED BY <1>4, <1>8, <1>9, <2>1
<1>12. ASSUME NEW c \in Callers,
              \/ Lock(c) \/ ClearApplied(c) \/ PullDown(c) \/ ClearDescriptors(c)
              \/ StopMonitor(c) \/ JoinMonitor(c) \/ Disconnected(c)
              \/ StartMonitor(c) \/ WaitReturns(c) \/ Answer(c)
       PROVE  Bound' /\ Down'
  <2>1. /\ pc' = [pc EXCEPT ![c] = pc'[c]] /\ pc'[c] \notin Stages
        /\ UNCHANGED <<ids, vendorConfig, links>> /\ (udc' => udc)
    BY <1>4, <1>12
    DEF Lock, ClearApplied, PullDown, ClearDescriptors, StopMonitor, JoinMonitor,
        Disconnected, StartMonitor, WaitReturns, Answer, Goto, Fail, configfs,
        outside
  <2> QED BY <1>8, <1>9, <2>1
<1>13. ASSUME NEW c \in Callers, UnlinkFunctions(c) PROVE Bound' /\ Down'
  <2>1. links' = {} /\ udc' = (udc /\ links' = links)
    BY <1>1, <1>13 DEF UnlinkFunctions
  <2> QED BY <1>7, <1>10, <2>1
<1>14. ASSUME NEW c \in Callers,
              \/ Validate(c) \/ SetupFunctions(c) \/ LinkFunction(c) \/ LinksMade(c)
       PROVE  Bound' /\ Down'
  <2>1. /\ pc[c] \in {"validate", "setup", "link"} /\ UNCHANGED udc
    BY <1>14
    DEF Validate, SetupFunctions, LinkFunction, LinksMade, configfs
  <2>2. ~udc
    BY <1>2, <1>7, <2>1 DEF IInv, StageInv
  <2> QED BY <1>10, <2>1, <2>2
<1>15. ASSUME NEW c \in Callers, PullUp(c) PROVE Bound' /\ Down'
  <2>1. /\ pc[c] = "pullUp" /\ pc' = [pc EXCEPT ![c] = "answer"]
        /\ UNCHANGED <<ids, vendorConfig, links>>
    BY <1>15 DEF PullUp, Goto, outside
  <2>2. Whole(req[c].functions) /\ req[c].functions \in Requests
    BY <1>3, <2>1 DEF AskedInv
  <2>3. Bound'
    BY <2>1, <2>2, SameParts DEF Bound
  <2>4. Down'
    BY <1>4, <1>5, <2>1
  <2> QED BY <2>3, <2>4
<1>16. CASE MonitorWrite
  <2>1. /\ UNCHANGED <<pc, ids, vendorConfig, links>> /\ monPc = "write"
        /\ (udc' => udc \/ links # {})
    BY <1>16 DEF MonitorWrite, CanBind, Bindable, call, outside
  <2>2. mMonitorCreated
    BY <2>1 DEF IInv, MonitorInv
  <2>3. udc' => \E f \in Requests : Whole(f)
    BY <1>3, <1>7, <2>1, <2>2
  <2>4. Bound'
    BY <2>1, <2>3, SameParts DEF Bound
  <2>5. \A c \in Callers : pc[c] \notin Stages
    BY <2>2 DEF IInv, StageInv
  <2> QED BY <2>1, <2>4, <2>5
<1>17. CASE MonitorScan \/ MonitorPublish \/ MonitorEvent \/ MonitorEpoll
  <2>1. UNCHANGED <<pc, udc, ids, vendorConfig, links>>
    BY <1>17
    DEF MonitorScan, MonitorPublish, MonitorEvent, MonitorEpoll, call, configfs,
        outside
  <2> QED BY <1>2, <1>8, <2>1
<1>18. CASE Crash
  <2>1. /\ \A c \in Callers : pc'[c] = "idle"
        /\ UNCHANGED <<udc, ids, vendorConfig, links>>
    BY <1>18 DEF Crash, configfs, outside
  <2> QED BY <1>8, <2>1
<1>19. ASSUME \/ UsbHalPullDown \/ \E c \in Callers : Reset(c)
              \/ \E f \in Daemons : FfsDescriptors(f) \/ FfsClose(f) \/ FfsActivity(f)
       PROVE  Bound' /\ Down'
  <2>1. UNCHANGED <<pc, ids, vendorConfig, links>> /\ (udc' => udc)
    BY <1>19
    DEF UsbHalPullDown, Reset, FfsDescriptors, FfsClose, FfsActivity, call,
        configfs, outside
  <2> QED BY <1>2, <1>8, <2>1
<1>20. ASSUME NEW f \in Daemons, FfsOpen(f) PROVE Bound' /\ Down'
  <2>1. UNCHANGED <<pc, ids, vendorConfig, links>> /\ (udc' => udc)
    BY <1>20 DEF FfsOpen, call
  <2> QED BY <1>2, <1>8, <2>1
<1>21. ASSUME UsbHalPullUp \/ \E v \in VendorConfigs : SetVendorConfig(v)
       PROVE  FALSE
  BY <1>1, <1>21 DEF UsbHalPullUp, SetVendorConfig
<1>22. CASE UNCHANGED vars
  <2>1. UNCHANGED <<pc, udc, ids, vendorConfig, links>>
    BY <1>22 DEF vars, call, configfs, outside
  <2> QED BY <1>2, <1>8, <2>1
<1> QED
  BY <1>11, <1>12, <1>13, <1>14, <1>15, <1>16, <1>17, <1>18, <1>19, <1>20, <1>21,
     <1>22
  DEF Next, Client, Caller, TearDown, Setup, MonitorFfs, Environment, Quiescent

\* No step binds half a composition, whatever failed before, as long as the loop
\* of unlinkFunctions goes through, nobody sets vendor.usb.config and the USB HAL
\* keeps out of it.
THEOREM Parts == Spec => [](AskedInv /\ PartsInv /\ UpInv /\ LeftInv)
<1>1. IInv /\ AskedInv /\ PartsInv /\ UpInv /\ LeftInv /\ [Next]_vars
        => (AskedInv /\ PartsInv /\ UpInv /\ LeftInv)'
  BY AskedStep, PartsStep, UpStep, LeftStep DEF IInv
<1> QED BY <1>1, InitParts, Invariant, PTL DEF Spec

\* VendorConfigReflectsLinks, for every boot mode and persistent property.
THEOREM VendorConfig == Spec => []VendorConfigReflectsLinks
<1>1. TypeOK /\ UpInv => VendorConfigReflectsLinks
  <2> SUFFICES ASSUME TypeOK, UpInv, udc, BuildType # "user",
                      Unspent({"vendor", "unlinkFaults", "usbHal"})
               PROVE  Range(VendorLinks[vendorConfig]) = links \ GadgetFunction
    BY DEF VendorConfigReflectsLinks, Unspent
  <2>1. PICK f \in Requests : Whole(f)
    BY DEF UpInv
  <2>2. f \in SUBSET GadgetFunction /\ vendorConfig \in VendorStrings
    BY RequestsAssumption DEF TypeOK, OutsideTypeOK
  <2>3. VendorLinks[Selected] = VendorLinks[vendorConfig]
        /\ Selected \in VendorStrings
    <3>1. Selected = vendorConfig
      BY <2>1 DEF Whole, IdsOf, Selected, GetVendorFunctions, VendorConfigAfter
    <3> QED BY <2>2, <3>1
  <2>4. links =
          (IF "mtp" \in f THEN f \ {"ptp"} ELSE f) \cup Range(VendorLinks[Selected])
    BY <2>1, <2>2, <2>3, LinkListRange DEF Whole
  <2>5. Range(VendorLinks[Selected]) \cap GadgetFunction = {}
    BY <2>3, VendorLinksRange
  <2> QED BY <2>2, <2>3, <2>4, <2>5
<1> QED BY <1>1, Parts, Invariant, PTL DEF IInv

\* IdsNameTheComposition, for every build type, boot mode and persistent property.
THEOREM Ids == Spec => []IdsNameTheComposition
<1>1. IdsNameTheComposition
  BY IdsDecideLinks DEF IdsNameTheComposition
<1> QED BY <1>1, PTL

==============================================================================
