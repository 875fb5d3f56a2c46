----------------------------- MODULE MacosDrives -----------------------------
(***************************************************************************)
(* What the macOS layer makes of the device registry: host.rs records each  *)
(* media and the nodes above it, and parse.rs (with model.rs) finds the     *)
(* drives in that and the ones that the running system starts from.  A      *)
(* machine m is                                                             *)
(*   nodes    the class and the properties of each node, a property as      *)
(*            [kind, it], and "over": the nodes that it really sits on      *)
(*   parent   the one node above each that IOKit gives, or Nothing          *)
(*   root     the device number of "/" as {<<major, minor>>}, or no number  *)
(***************************************************************************)
EXTENDS Integers, Sequences, FiniteSets, DriveOrder

CONSTANT LEVELS  \* how many nodes above a media are recorded

ASSUME LevelsAssumption == LEVELS \in Nat

\* No value.
Nothing == "nothing"

\* A container of APFS is a media as well, and its class ends in Media too; a
\* volume of it is one of a subclass with another ending.
MEDIA   == {"IOMedia", "AppleAPFSMedia"}
VOLUMES == {"AppleAPFSVolume"}

\* snapshot: IOServiceMatching takes IOMedia and its subclasses.
Media(m) == {n \in DOMAIN m.nodes : m.nodes[n].class \in MEDIA \cup VOLUMES}

\* chain: the media and the nodes above it, the nearest first: one parent each,
\* and no more than LEVELS of them.
Chain(m, n) ==
  LET up[k \in 0 .. LEVELS] ==
        [x \in DOMAIN m.parent |->
           IF k = 0 \/ m.parent[x] = Nothing THEN <<x>> ELSE <<x>> \o up[k - 1][m.parent[x]]]
  IN  up[LEVELS][n]

InChain(m, n) == LET chain == Chain(m, n) IN {chain[k] : k \in DOMAIN chain}

\* convert: a value of a kind that the code does not know is dropped.
KINDS == {"bool", "int", "text", "data", "dict", "list"}

Converted(value) == IF value.kind \in KINDS THEN {value} ELSE {}

\* RegistrySnapshot::get: at most one value.
Get(m, n, key) ==
  LET properties == m.nodes[n].properties
  IN  IF key \in DOMAIN properties THEN Converted(properties[key]) ELSE {}

\* Value::as_bool and the others: a value of another kind is none.
As(kind, values) == {v.it : v \in {w \in values : w.kind = kind}}

IsWhole(m, n) == m.nodes[n].class \in MEDIA /\ As("bool", Get(m, n, "Whole")) = {TRUE}

IsPhysicalWhole(m, n) == m.nodes[n].class = "IOMedia" /\ IsWhole(m, n)

\* whole_disks_above: every whole device at or above a media.
WholeDisksAbove(m, n) == {x \in InChain(m, n) : IsWhole(m, x)}

\* media_for_dev: the media that carries a device number.
MediaForDev(m, dev) ==
  {n \in Media(m) : /\ As("int", Get(m, n, "BSD Major")) = {dev[1]}
                    /\ As("int", Get(m, n, "BSD Minor")) = {dev[2]}}

Name(m, n) == As("text", Get(m, n, "BSD Name"))

\* system_disks: the names of the whole devices under the root.
MacosSystem(m) ==
  LET media == UNION {MediaForDev(m, dev) : dev \in m.root}
  IN  UNION {Name(m, w) : w \in UNION {WholeDisksAbove(m, n) : n \in media}}

\* find_dict: the dictionary of the node, or of the first above it that has one.
FindDict(m, n, key) ==
  LET carry == SelectSeq(Chain(m, n), LAMBDA x : As("dict", Get(m, x, key)) # {})
  IN  IF carry = <<>> THEN {} ELSE As("dict", Get(m, Head(carry), key))

\* protocol_text: a text of the one dictionary that was found.
ProtocolText(m, n, key) ==
  As("text", UNION {IF key \in DOMAIN d THEN {d[key]} ELSE {} :
                      d \in FindDict(m, n, "Protocol Characteristics")})

INTERCONNECT ==
  [USB |-> "Usb", SATA |-> "Sata", PCIExpress |-> "PciExpress", AppleFabric |-> "AppleFabric",
   SecureDigital |-> "Sd", Thunderbolt |-> "Thunderbolt", VirtualInterface |-> "Virtual"]

BusFromInterconnect(texts) ==
  IF texts # {} /\ texts \subseteq DOMAIN INTERCONNECT
  THEN CHOOSE bus \in {INTERCONNECT[t] : t \in texts} : TRUE ELSE "Unknown"

\* A slot that a person reaches counts as external.
IsExternalLocation(texts) == texts \cap {"External", "Internal/External"} # {}

\* drive_from_media: a plain whole media with a name and a size.
IsListedMedia(m, n) ==
  /\ IsPhysicalWhole(m, n)
  /\ Name(m, n) # {}
  /\ \E size \in As("int", Get(m, n, "Size")) : size # 0

MacosDrive(m, n, system) ==
  LET bool(key)     == As("bool", Get(m, n, key))
      protocol(key) == ProtocolText(m, n, key)
  IN  DriveInfo(CHOOSE name \in Name(m, n) : TRUE,
                CHOOSE size \in As("int", Get(m, n, "Size")) : TRUE,
                Name(m, n) \subseteq system,
                BusFromInterconnect(protocol("Physical Interconnect")),
                TRUE \in bool("Removable") \cup bool("Ejectable"),
                IsExternalLocation(protocol("Physical Interconnect Location")),
                bool("Writable") = {FALSE})

MacosDrives(m) ==
  LET system == MacosSystem(m)
  IN  {MacosDrive(m, n, system) : n \in {x \in Media(m) : IsListedMedia(m, x)}}
=============================================================================
