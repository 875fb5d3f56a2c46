------------------------------ MODULE HostTruth ------------------------------
(***************************************************************************)
(* When a machine of HostAccess tells what its system lies on: the devices  *)
(* of the kernel form what sysfs can form, and what the mount table or the  *)
(* device registry says of the marked mounts is so.  The list can mark no   *)
(* drive that the host says nothing of, so the proof that its marks are     *)
(* exact starts from here.  The machines of the findings tell less.         *)
(***************************************************************************)
EXTENDS HostAccess

\* The disk of a disk is itself, and a partition sits on its disk alone.
Tidy(d) ==
  /\ \A p \in DOMAIN d.above : d.above[p] \notin DOMAIN d.above
  /\ DOMAIN d.slaves \cap DOMAIN d.above = {}

\* What sysfs says of finitely many devices.
FiniteDevices(d) == IsFiniteSet(DOMAIN d.slaves) /\ \A n \in DOMAIN d.slaves : IsFiniteSet(d.slaves[n])

\* A device is a drive or sits on others, and not both.
DrivesSitOnNothing(d) == \A n \in DOMAIN d.slaves : ~IsDriveName(n)

\* The devices that the kernel of Linux names.
Devs(m) == DOMAIN m.disks \cup DOMAIN m.above

\* A machine of Linux as sysfs shows one.
Orderly(m) ==
  /\ Tidy(Devices(m)) /\ FiniteDevices(Devices(m)) /\ DrivesSitOnNothing(Devices(m))
  /\ DOMAIN m.disks \cap DOMAIN m.above = {} /\ DOMAIN m.slaves \subseteq DOMAIN m.disks
  /\ None \notin Devs(m) /\ IsFiniteSet(m.mounts)

\* A line of mountinfo that names a device of the kernel names the one that
\* carries the mount.
LineIsTrue(m, x) ==
  IF x.number # "0" THEN x.number = x.on /\ x.on \in Devs(m) ELSE x.source \in Devs(m) => x.source = x.on

NamesADevice(m, x) == x.number # "0" \/ x.source \in Devs(m)

HoldsFileOf(m, x, loop) == <<m.backing[loop].dir, m.backing[loop].file>> \in m.holds[x.point]

\* The file of a loop device that is mounted is read through a mount of its
\* device, and each mount that holds a file of that name says where it lies.
LoopIsTold(m, loop) ==
  /\ IsLoop(loop)
  /\ \A x \in m.mounts : HoldsFileOf(m, x, loop) =>
       LineIsTrue(m, x) /\ NamesADevice(m, x) /\ (IsLoop(x.source) <=> IsLoop(x.on))
  /\ (\E x \in m.mounts : x.source = loop) =>
       \E x \in m.mounts : /\ HoldsFileOf(m, x, loop) /\ ~IsLoop(x.on)
                           /\ PartitionToDisk(m, x.on) = PartitionToDisk(m, m.backing[loop].on)

LinuxTells(m) ==
  /\ Orderly(m)
  /\ \A x \in m.mounts : x.point \in MARKED => LineIsTrue(m, x)
  /\ \A loop \in DOMAIN m.backing : LoopIsTold(m, loop)

\* The device registry of macOS, as IOKit gives one.
Registry(m) ==
  /\ IsFiniteSet(DOMAIN m.nodes) /\ DOMAIN m.parent = DOMAIN m.nodes /\ Nothing \notin DOMAIN m.nodes
  /\ \A x \in DOMAIN m.nodes : m.nodes[x].over \in SUBSET DOMAIN m.nodes
  /\ \A x \in DOMAIN m.nodes : m.parent[x] \in DOMAIN m.nodes \cup {Nothing}

\* The record of a media reaches the top of the registry, and each node below
\* it sits on the one that IOKit gives above it.
IsRecorded(m, n) ==
  /\ m.parent[Last(Chain(m, n))] = Nothing
  /\ \A x \in BeneathNode(m, n) : m.nodes[x].over = {m.parent[x]} \ {Nothing}

MacosTells(m) ==
  /\ Registry(m)
  /\ \A dev \in m.root : \A n \in MediaForDev(m, dev) : IsRecorded(m, n)

\* Windows names the disks of its own volume, or fails.
HostTells(m) ==
  /\ m.kind = "linux" => LinuxTells(m)
  /\ m.kind = "macos" => MacosTells(m)

\* What comes and goes while the person reads the list is not of the running
\* system: no other volume at a marked place, no other holder of the file of a
\* loop device, a drive that is new to the host, and a bare drive taken out.
LinuxIsSteady(m) ==
  /\ \A v \in m.spare : /\ v.point \notin MARKED /\ v.source \notin DOMAIN m.backing
                        /\ \A loop \in DOMAIN m.backing : ~HoldsFileOf(m, v, loop)
  /\ ~m.plugged => /\ DOMAIN m.next \cap (Devs(m) \cup {None}) = {}
                   /\ \A n \in m.gone : n \in DOMAIN m.disks /\ IsDriveName(n)
                   /\ m.gone \cap Needed(m) = {}
                   /\ \A v \in m.mounts \cup m.spare : /\ v.source \notin DOMAIN m.next \cup m.gone
                                                       /\ v.on \notin m.gone

MacosIsSteady(m) ==
  ~m.plugged => /\ IsFiniteSet(DOMAIN m.next) /\ DOMAIN m.next \cap (DOMAIN m.nodes \cup {Nothing}) = {}
                /\ \A n \in DOMAIN m.next : m.next[n].over = {}
                /\ \A n \in DOMAIN m.nodes : m.nodes[n].over \cap m.gone = {} /\ m.parent[n] \notin m.gone
                /\ \A dev \in m.root : /\ MediaForDev(m, dev) \cap m.gone = {}
                                       /\ MediaForDev(Plugged(m), dev) \cap DOMAIN m.next = {}

HostIsSteady(m) ==
  /\ m.kind = "linux" => LinuxIsSteady(m)
  /\ m.kind = "macos" => MacosIsSteady(m)
=============================================================================
