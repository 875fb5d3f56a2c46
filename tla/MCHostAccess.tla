---------------------------- MODULE MCHostAccess ----------------------------
(* Small machines of the three hosts for HostAccess.                         *)
EXTENDS HostTruth

Disk(size, path) ==
  [size |-> size, hidden |-> FALSE, ro |-> FALSE, removable |-> FALSE, path |-> path]

MCStem ==
  [x \in {"sda", "sda1", "sda2", "sdb", "sdb1", "sdb2", "sdc", "sdaa"} |-> "sd"]
    @@ ("dm-0" :> "dm-" @@ "dm-1" :> "dm-" @@ "md0" :> "md" @@ "loop0" :> "loop" @@ "sr0" :> "sr"
        @@ "mapper/root" :> "mapper/" @@ "nvme0n1" :> "nvme" @@ "nvme0n1p1" :> "nvme")

Letters(length, rank) == [digits |-> FALSE, number |-> 0, length |-> length, rank |-> rank]
Digits(number) == [digits |-> TRUE, number |-> number, length |-> 1, rank |-> 0]

\* As bytes nvme0n1 comes before all others, and sdaa between sda and sdb.
MCRuns ==
  ("nvme0n1" :> <<Letters(4, 0), Digits(0), Letters(1, 0), Digits(1)>>
     @@ "sda" :> <<Letters(3, 1)>> @@ "sdaa" :> <<Letters(4, 2)>> @@ "sdb" :> <<Letters(3, 3)>>
     @@ "sdc" :> <<Letters(3, 4)>>)
    @@ [d \in {"disk0", "disk1", "disk2", "disk4", "disk5"} |->
          <<Letters(4, 1), Digits(CASE d = "disk0" -> 0 [] d = "disk1" -> 1 [] d = "disk2" -> 2
                                    [] d = "disk4" -> 4 [] d = "disk5" -> 5)>>]
    @@ ("0" :> <<Digits(0)>> @@ "1" :> <<Digits(1)>> @@ "2" :> <<Digits(2)>> @@ "3" :> <<Digits(3)>>)

MountOf(point, number, source, on, inside) ==
  [point |-> point, number |-> number, source |-> source, on |-> on, inside |-> inside]

Plain(point, n) == MountOf(point, n, n, n, None)

Stick == MountOf("/mnt", "sdb1", "sdb1", "sdb1", None)
Inner == MountOf("/mnt/in", "dm-1", "mapper/root", "dm-1", "/mnt")

Image == [dir |-> "LiveOS", file |-> "squashfs", on |-> "sdb1"]

Linux(mounts, slaves, swaps, carriers, used) ==
  [kind |-> "linux",
   disks |-> ("sda" :> Disk(5, {"ata", "host"}) @@ "sdb" :> Disk(4, {"usb", "host"}) @@ "sdc" :> Disk(0, {"usb"})
              @@ "dm-0" :> Disk(3, {}) @@ "dm-1" :> Disk(3, {}) @@ "md0" :> Disk(3, {})
              @@ "loop0" :> Disk(2, {}) @@ "sr0" :> Disk(2, {"ata"})),
   above |-> ("sda1" :> "sda" @@ "sda2" :> "sda" @@ "sdb1" :> "sdb" @@ "sdb2" :> "sdb"),
   slaves |-> slaves @@ ("dm-1" :> {"sdb2"} @@ "md0" :> {"sda2", "sdb1"} @@ "dm-0" :> {"sda2"}),
   mounts |-> mounts, swaps |-> swaps,
   backing |-> "loop0" :> Image,
   holds |-> [p \in {"/", "/boot", "/mnt", "/mnt/in", "/run/root", "/run/live", "/run/disc"} |->
                IF p \in carriers THEN {<<"LiveOS", "squashfs">>} ELSE {}],
   spare |-> {Stick, Inner}, used |-> used, plugged |-> FALSE,
   next |-> "sdaa" :> Disk(4, {"usb"}), gone |-> {}]

\* A system on nvme0n1, and a bare stick sda before it in the list.
Laptop(next, gone) ==
  [kind |-> "linux", disks |-> "nvme0n1" :> Disk(5, {"nvme"}) @@ "sda" :> Disk(4, {"usb", "host"}),
   above |-> "nvme0n1p1" :> "nvme0n1", slaves |-> <<>>, mounts |-> {Plain("/", "nvme0n1p1")},
   swaps |-> {}, backing |-> <<>>, holds |-> "/" :> {}, spare |-> {}, used |-> {}, plugged |-> FALSE,
   next |-> next, gone |-> gone]

LaptopMachines ==
  LET sdb == "sdb" :> Disk(4, {"usb", "host"})
  IN  {Laptop(sdb, {}), Laptop(<<>>, {"sda"}), Laptop(sdb, {"sda"})}

Overlay == MountOf("/", "0", None, "loop0", None)
Live    == {Overlay, Plain("/run/root", "loop0"), Plain("/run/live", "sdb1")}

LinuxMachines ==
  {Linux({Plain("/", "sda2"), Stick, Inner}, <<>>, {}, {}, used) : used \in {{}, {"/mnt/in"}}}
    \cup {Linux({Plain("/", "sda1"), Plain("/boot", "dm-0")}, "dm-0" :> {"md0", "sda1"}, {}, {}, {}),
          Linux({MountOf("/", "0", "sda2", "sda2", None), Stick}, <<>>, {}, {}, {}),
          Linux({Plain("/", "sda2")}, <<>>, {"sdb2"}, {}, {}),
          Linux(Live, <<>>, {}, {"/run/live"}, {}),
          Linux(Live \cup {Plain("/run/disc", "sr0")}, <<>>, {}, {"/run/live", "/run/disc"}, {})}

\* btrfs on an encrypted volume: no device number, and a source below
\* /dev/mapper.
MCMapperRoot == {Linux({MountOf("/", "0", "mapper/root", "dm-0", None)}, <<>>, {}, {}, {})}

Bool(b) == [kind |-> "bool", it |-> b]
Num(i)  == [kind |-> "int", it |-> i]
Text(t) == [kind |-> "text", it |-> t]

Node(class, properties, over) == [class |-> class, properties |-> properties, over |-> over]

Bus(interconnect, location) ==
  Node("Controller",
       "Protocol Characteristics" :>
         [kind |-> "dict", it |-> "Physical Interconnect" :> Text(interconnect)
                                    @@ "Physical Interconnect Location" :> Text(location)],
       {})

Part(class, name, minor, over) ==
  Node(class, "BSD Name" :> Text(name) @@ "BSD Major" :> Num(1) @@ "BSD Minor" :> Num(minor)
                @@ "Whole" :> Bool(FALSE) @@ "Size" :> Num(2), over)

Whole(class, name, minor, size, over) ==
  [Part(class, name, minor, over) EXCEPT
     !.properties = "Whole" :> Bool(TRUE) @@ "Size" :> size @@ "Writable" :> Bool(TRUE) @@ @]

\* A drive that tells its size as a date, and a card reader with no card.
Nodes(stores) ==
  "bus" :> Bus("AppleFabric", "Internal") @@ "usb" :> Bus("USB", "External")
    @@ "disk0" :> Whole("IOMedia", "disk0", 1, Num(4), {"bus"})
    @@ "disk0s2" :> Part("IOMedia", "disk0s2", 2, {"disk0"})
    @@ "disk1" :> Whole("IOMedia", "disk1", 3, Num(4), {"bus"})
    @@ "disk1s2" :> Part("IOMedia", "disk1s2", 4, {"disk1"})
    @@ "scheme" :> Node("AppleAPFSContainerScheme", <<>>, stores)
    @@ "disk3" :> Whole("AppleAPFSMedia", "disk3", 5, Num(4), {"scheme"})
    @@ "disk3s1" :> Part("AppleAPFSVolume", "disk3s1", 6, {"disk3"})
    @@ "disk4" :> Whole("IOMedia", "disk4", 7, Num(4), {"usb"})
    @@ "disk6" :> Whole("IOMedia", "disk6", 8, [kind |-> "date", it |-> 4], {"usb"})
    @@ "disk7" :> Whole("IOMedia", "disk7", 9, Num(0), {"usb"})

Macos(stores, root, mounted, used) ==
  [kind |-> "macos", nodes |-> Nodes(stores),
   parent |-> [n \in DOMAIN Nodes(stores) |->
                 IF Nodes(stores)[n].over = {} THEN Nothing ELSE CHOOSE x \in Nodes(stores)[n].over : TRUE],
   root |-> root,
   volumes |-> [v \in {"system", "data", "stick", "more"} |->
                  [disks |-> CASE v = "system" -> {"disk0"} [] v = "data" -> {"disk1"}
                               [] OTHER -> {"disk4"}]],
   mounted |-> mounted, spare |-> {"stick", "more", "data"}, used |-> used, plugged |-> FALSE,
   next |-> "disk5" :> Whole("IOMedia", "disk5", 10, Num(4), {}), gone |-> {}]

\* disk2 is there, with nothing on it, and is taken out as disk5 comes.
Replaced(m) ==
  [m EXCEPT !.nodes = @ @@ "disk2" :> Whole("IOMedia", "disk2", 11, Num(4), {"usb"}),
            !.parent = @ @@ "disk2" :> "usb", !.gone = {"disk2"}]

MacosMachines ==
  {Macos({"disk0s2"}, {<<1, 6>>}, {"system", "stick"}, used) : used \in {{}, {"stick"}}}
    \cup {Macos({"disk0s2"}, {<<1, 4>>}, {"data", "more"}, {}), Macos({"disk0s2"}, {}, {"system"}, {}),
          Replaced(Macos({"disk0s2"}, {<<1, 6>>}, {"system", "stick"}, {}))}

\* A container on two stores.
MCTwoStores == {Macos({"disk0s2", "disk1s2"}, {<<1, 6>>}, {"system"}, {})}

Raw(busType, policy, mark) ==
  [descriptor |-> "good", geometry |-> "good", size |-> 4, busType |-> busType, policy |-> policy,
   removable |-> FALSE, writable |-> IF mark = Absent THEN "yes" ELSE "protected", mark |-> mark]

Vol(disks, asked, named) == [disks |-> disks, asked |-> asked, named |-> named]

Windows(system, used) ==
  [kind |-> "windows",
   answers |-> ("0" :> Raw(17, 3, Absent) @@ "1" :> Raw(7, 0, "set") @@ "2" :> Raw(11, 2, Absent)
               @@ "8" :> [Raw(7, 0, "set") EXCEPT !.descriptor = "short"]
               @@ "9" :> [Raw(7, 0, "set") EXCEPT !.geometry = "huge"]),
   volumes |-> ("C" :> system @@ "D" :> Vol({"1"}, TRUE, TRUE) @@ "E" :> Vol({"1", "2"}, TRUE, TRUE)
                @@ "X" :> Vol({"1"}, FALSE, TRUE) @@ "Y" :> Vol({"2"}, TRUE, FALSE)),
   windows |-> "C", mounted |-> {"C", "D", "E", "Y"}, spare |-> {"D", "E", "X"}, used |-> used,
   plugged |-> FALSE, next |-> "3" :> Raw(7, 0, "clear"), gone |-> {}]

\* Disk 3 is there, and is taken out.
Taken(m) == [m EXCEPT !.answers = @ @@ "3" :> Raw(7, 0, "set"), !.next = <<>>, !.gone = {"3"}]

WindowsMachines ==
  {Windows(Vol({"0"}, TRUE, TRUE), used) : used \in {{}, {"E"}}}
    \cup {Windows(Vol({"0", "2"}, TRUE, TRUE), {}), Windows(Vol({"0", "1", "2"}, TRUE, TRUE), {"D"}),
          Windows(Vol({"0"}, FALSE, TRUE), {}), Taken(Windows(Vol({"0"}, TRUE, TRUE), {"E"}))}

MCMachines == LinuxMachines \cup LaptopMachines \cup MacosMachines \cup WindowsMachines

\* These machines tell what their systems lie on, and stay so.
ASSUME MCMachinesTell == \A m \in MCMachines : HostTells(m) /\ HostIsSteady(m)
=============================================================================
