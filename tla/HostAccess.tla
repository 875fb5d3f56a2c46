------------------------------ MODULE HostAccess ------------------------------
(***************************************************************************)
(* The drive access of the three hosts (platform/*/host.rs), as one command *)
(* uses it: list the drives, take the number that the person typed, list    *)
(* again, keep the host from mounting, unmount, open, hold the handle, let  *)
(* it go, eject, and stop keeping.  Beside it run the thread of a           *)
(* MountRefusal, Disk Arbitration, the automounter of the host, and a       *)
(* person who connects a drive, takes one out, or puts one in for another.  *)
(***************************************************************************)
EXTENDS LinuxDrives, MacosDrives, WindowsDrives

CONSTANT Machines  \* the machines that a run starts on

VARIABLES
  machine,  \* the hardware, what is mounted, and what a program uses
  caller,   \* the command: pc, the list it saw, the drive, its locks and handle
  request,  \* the request that is with Disk Arbitration
  refusal   \* the thread that refuses mounts, and its flag and channel

vars == <<machine, caller, request, refusal>>

(***************************************************************************)
(* The machine                                                             *)

ListOf(m) ==
  CASE m.kind = "linux"   -> LinuxDrives(m)
    [] m.kind = "macos"   -> MacosDrives(m)
    [] m.kind = "windows" -> WindowsDrives(m)

\* What a device of Linux really sits on, itself included.
Beneath(d, n) ==
  LET below(x) == {PartitionToDisk(d, x)} \cup Slaves(d, x)
      down[over \in SUBSET ({n, PartitionToDisk(d, n)} \cup Connected(d))] ==
        IF UNION {below(x) : x \in over} \subseteq over THEN over
        ELSE down[over \cup UNION {below(x) : x \in over}]
  IN  down[{n}]

\* The drives that really carry a mounted volume.
Carriers(m, volume) ==
  CASE m.kind = "linux"   -> {n \in Beneath(Devices(m), volume.on) \cap DOMAIN m.disks : IsDriveName(n)}
    [] m.kind = "macos"   -> m.volumes[volume].disks
    [] m.kind = "windows" -> m.volumes[volume].disks

Mounted(m) == IF m.kind = "linux" THEN m.mounts ELSE m.mounted

MountedOn(m, drive) == {v \in Mounted(m) : drive \in Carriers(m, v)}

\* The machine with these volumes mounted, and no others.
Mounting(m, volumes) ==
  IF m.kind = "linux" THEN [m EXCEPT !.mounts = volumes] ELSE [m EXCEPT !.mounted = volumes]

Without(m, volumes) == Mounting(m, Mounted(m) \ volumes)

With(m, volume) == Mounting(m, Mounted(m) \cup {volume})

Key(m, volume) == IF m.kind = "linux" THEN volume.point ELSE volume

IsUsed(m, volume) == Key(m, volume) \in m.used

\* What is there, without what goes and with what comes.
Changed(there, gone, new) ==
  [n \in (DOMAIN there \ gone) \cup DOMAIN new |-> IF n \in DOMAIN new THEN new[n] ELSE there[n]]

\* The machine after a drive came, went, or took the place of another: next is
\* what comes, under the name that the host gives it, and gone what goes.
Plugged(m) ==
  CASE m.kind = "linux" -> [m EXCEPT !.plugged = TRUE, !.disks = Changed(@, m.gone, m.next)]
    [] m.kind = "macos" ->
         [m EXCEPT !.plugged = TRUE, !.nodes = Changed(@, m.gone, m.next),
                   !.parent = Changed(@, m.gone, [n \in DOMAIN m.next |-> Nothing])]
    [] m.kind = "windows" -> [m EXCEPT !.plugged = TRUE, !.answers = Changed(@, m.gone, m.next)]

Fields(kind) ==
  {"kind", "spare", "used", "plugged", "next", "gone"} \cup
    CASE kind = "linux"   -> {"disks", "above", "slaves", "mounts", "swaps", "backing", "holds"}
      [] kind = "macos"   -> {"nodes", "parent", "root", "volumes", "mounted"}
      [] kind = "windows" -> {"answers", "volumes", "windows", "mounted"}

\* Each machine is one of the three hosts, with what that host has.
ASSUME MachinesAssumption ==
  \A m \in Machines :
    /\ m.kind \in {"linux", "macos", "windows"}
    /\ m = [field \in Fields(m.kind) |-> m[field]]
    /\ m.kind = "windows" => m.mounted \cup m.spare \subseteq DOMAIN m.volumes

Names(m) == {d.id : d \in ListOf(m)}

\* A host gives each name to one drive.
WellNamed(m) ==
  /\ IsFiniteSet(Names(m)) /\ Names(m) \subseteq DOMAIN Runs
  /\ m.kind = "macos" => \A x, y \in DOMAIN m.nodes : x # y => Name(m, x) \cap Name(m, y) = {}

ASSUME NamesAssumption ==
  \A m \in Machines : WellNamed(m) /\ WellNamed(Plugged(m))

(***************************************************************************)
(* The command                                                             *)

At(pc) == caller.pc = pc

Go(pc) == caller' = [caller EXCEPT !.pc = pc]

\* An error on the way: the handles are dropped, and then the mount refusal.
Fail(why) ==
  caller' = [caller EXCEPT !.pc = "let_go", !.why = why, !.locks = {}, !.handle = FALSE]

\* drives and in_list_order, as burnout list prints them.  The host gives its
\* drives in any order.
List ==
  /\ At("list")
  /\ UNCHANGED <<machine, request, refusal>>
  /\ \/ Fail("Host")
     \/ \E drives \in {ListOf(machine)} : \E found \in SetToSeqs(drives) :
          caller' = [caller EXCEPT !.pc = "type", !.list = InListOrder(found)]

\* The person types a number of the list, or one that is none.
Type ==
  /\ At("type")
  /\ UNCHANGED <<machine, request, refusal>>
  /\ \E i \in {0} \cup DOMAIN caller.list :
       caller' = [caller EXCEPT !.pc = "again", !.number = i,
                                !.shown = IF i = 0 THEN None ELSE caller.list[i].id]

\* find_target and check_target of the write, on a list of their own.
ListAgain ==
  /\ At("again")
  /\ UNCHANGED <<machine, request, refusal>>
  /\ \/ Fail("Host")
     \/ \E drives \in {ListOf(machine)} : \E found \in SetToSeqs(drives) :
          LET named == ByIndex(InListOrder(found), caller.number) IN
          \/ named = {} /\ Fail("NoSuchDrive")
          \/ \E d \in named :
               IF d.system \/ d.readOnly THEN Fail("Refused")
               ELSE caller' = [caller EXCEPT !.pc = "guard", !.target = d.id]

\* keep_unmounted: macOS starts the thread that refuses mounts; the others
\* hold nothing.
KeepUnmounted ==
  /\ At("guard")
  /\ UNCHANGED <<machine, request>>
  /\ IF machine.kind = "macos"
     THEN Go("ready") /\ refusal' = [refusal EXCEPT !.pc = "new"]
     ELSE Go("unmount") /\ UNCHANGED refusal

\* start: recv, and join the thread when it has failed.  The thread never
\* stops without an answer.
Ready ==
  /\ At("ready")
  /\ UNCHANGED <<machine, request, refusal>>
  /\ \/ refusal.answer = "ok" /\ Go("unmount")
     \/ refusal.answer = "failed" /\ refusal.pc = "gone" /\ Fail("Host")

(***************************************************************************)
(* Linux                                                                   *)

\* unmount_volumes: the mount points, as mountinfo has them now.
ReadMounts ==
  /\ At("unmount") /\ machine.kind = "linux"
  /\ UNCHANGED <<machine, request, refusal>>
  /\ \/ caller' = [caller EXCEPT !.pc = "umount",
                                 !.left = MountPointsForDisk(machine, caller.target)]
     \/ Fail("Host")

\* The mount points with the longest paths: a mount inside another goes first.
Deepest(points) == {p \in points : \A q \in points : Len(q) <= Len(p)}

\* umount: busy while a program uses the volume, or a mount lies inside it.
Umount ==
  /\ At("umount") /\ caller.left # {}
  /\ UNCHANGED <<request, refusal>>
  /\ \E p \in Deepest(caller.left) :
       LET volumes == {v \in machine.mounts : v.point = p} IN
       \/ /\ \E v \in volumes : IsUsed(machine, v) \/ \E w \in machine.mounts : w.inside = p
          /\ UNCHANGED machine /\ Fail("InUse")
       \/ /\ \A v \in volumes : ~IsUsed(machine, v) /\ \A w \in machine.mounts : w.inside # p
          /\ machine' = Without(machine, volumes)
          /\ caller' = [caller EXCEPT !.left = @ \ {p}]
       \/ UNCHANGED machine /\ Fail("Io")

Umounted ==
  /\ At("umount") /\ caller.left = {}
  /\ UNCHANGED <<machine, request, refusal>> /\ Go("open")

\* open with O_EXCL: the kernel refuses while anything holds the drive, and has
\* no node for one that went.
OpenLinux ==
  /\ At("open") /\ machine.kind = "linux"
  /\ UNCHANGED <<machine, request, refusal>>
  /\ \/ /\ caller.target \in DOMAIN machine.disks /\ MountedOn(machine, caller.target) = {}
        /\ caller' = [caller EXCEPT !.pc = "held", !.handle = TRUE]
     \/ MountedOn(machine, caller.target) # {} /\ Fail("InUse")
     \/ \E why \in {"Host", "Io"} : Fail(why)

(***************************************************************************)
(* macOS: a request to Disk Arbitration, and the wait for its answer        *)

\* unmount_whole and eject_whole.
Asks == machine.kind = "macos" /\ (At("unmount") \/ At("eject"))

\* settle: no session, no disk of that name, or the request goes out.
Settle ==
  /\ Asks /\ request = "none"
  /\ UNCHANGED <<machine, refusal>>
  /\ \/ request' = "sent" /\ caller' = [caller EXCEPT !.loop = TRUE]
     \/ /\ UNCHANGED request
        /\ IF At("eject") THEN Go("let_go") ELSE \E why \in {"Host", "NoSuchDrive"} : Fail(why)

\* What the status says: nothing for zero, and busy for the three words of a
\* volume in use.
Said(answer) == CASE answer = "done" -> "Ok" [] answer = "busy" -> "InUse" [] OTHER -> "Host"

\* The end of settle.  A failed eject is a line of the report and no error.
Settled(result) ==
  caller' = [caller EXCEPT !.pc   = IF At("unmount") /\ result = "Ok" THEN "open" ELSE "let_go",
                           !.why  = IF At("unmount") /\ result # "Ok" THEN result ELSE @,
                           !.loop = FALSE]

\* The run loop hands the answer over.
Heard ==
  /\ caller.loop /\ request \in {"done", "busy", "refused"}
  /\ UNCHANGED <<machine, refusal>>
  /\ request' = "none" /\ Settled(Said(request))

\* A mistake: the status that the outcome starts with, zero, is read where no
\* answer came.
DeadlineUnread ==
  /\ caller.loop /\ request = "sent"
  /\ UNCHANGED <<machine, refusal>>
  /\ request' = "late" /\ Settled("Ok")

\* Thirty seconds pass with no answer.  Disk Arbitration still has the request,
\* and nobody hears what it makes of it.
Deadline ==
  /\ caller.loop /\ request = "sent"
  /\ UNCHANGED <<machine, refusal>>
  /\ request' = "late" /\ Settled("Host")

\* one_drive: the list once more, and the drive of that name in it.
OneDriveFails == {"Host", "NoSuchDrive"}

\* The open of the raw node, which asks nobody whether a volume
\* is mounted.
OpenMacos ==
  /\ At("open") /\ machine.kind = "macos"
  /\ UNCHANGED <<machine, request, refusal>>
  /\ \/ /\ caller.target \in Names(machine)
        /\ caller' = [caller EXCEPT !.pc = "held", !.handle = TRUE]
     \/ \E why \in OneDriveFails \cup {"InUse", "Io"} : Fail(why)

(***************************************************************************)
(* Windows                                                                 *)

\* unmount_volumes does nothing; open reads the volumes that there are.
OpenWindows ==
  /\ At("unmount") /\ machine.kind = "windows"
  /\ UNCHANGED <<machine, request, refusal>>
  /\ \/ /\ caller.target \in Names(machine)
        /\ caller' = [caller EXCEPT !.pc = "lock", !.left = VolumesOnDisk(machine, caller.target)]
     \/ \E why \in OneDriveFails : Fail(why)

\* open_for_write.
OpenForWriteFails == {"NeedsPrivilege", "Io"}

\* lock_volume: open, lock, dismount.  An error drops the locks taken so far.
LockVolume ==
  /\ At("lock") /\ caller.left # {}
  /\ UNCHANGED <<request, refusal>>
  /\ \E v \in caller.left :
       \/ /\ ~IsUsed(machine, v)
          /\ machine' = Without(machine, {v})
          /\ caller' = [caller EXCEPT !.left = @ \ {v}, !.locks = @ \cup {v}]
       \/ IsUsed(machine, v) /\ UNCHANGED machine /\ Fail("InUse")
       \/ UNCHANGED machine /\ \E why \in OpenForWriteFails \cup {"Host"} : Fail(why)

OpenPhysical ==
  /\ At("lock") /\ caller.left = {}
  /\ UNCHANGED <<machine, request, refusal>>
  /\ \/ /\ caller.target \in DOMAIN machine.answers
        /\ caller' = [caller EXCEPT !.pc = "held", !.handle = TRUE]
     \/ \E why \in OpenForWriteFails : Fail(why)

(***************************************************************************)
(* The end of the command                                                  *)

\* The handle is dropped with its locks; the eject is macOS's alone.
CloseDrive ==
  /\ At("held")
  /\ UNCHANGED <<machine, request, refusal>>
  /\ caller' = [caller EXCEPT !.pc = IF machine.kind = "macos" THEN "eject" ELSE "let_go",
                              !.handle = FALSE, !.locks = {}]

\* A mistake: the thread is joined before it is told to stop.
LetGoJoinsFirst ==
  /\ At("let_go")
  /\ UNCHANGED <<machine, request>>
  /\ refusal.pc \in {"none", "gone"}
  /\ refusal' = [refusal EXCEPT !.stop = TRUE] /\ Go("done")

\* drop of the MountRefusal: the flag, and then the join of its thread.
LetGo ==
  /\ At("let_go")
  /\ UNCHANGED <<machine, request>>
  /\ refusal' = [refusal EXCEPT !.stop = TRUE] /\ Go("join")

Join ==
  /\ At("join") /\ refusal.pc \in {"none", "gone"}
  /\ UNCHANGED <<machine, request, refusal>> /\ Go("done")

(***************************************************************************)
(* The thread of a MountRefusal                                            *)

\* refuse_mounts: a session, the callback, and then the word that it is there.
Register ==
  /\ refusal.pc = "new"
  /\ UNCHANGED <<machine, caller, request>>
  /\ \/ refusal' = [refusal EXCEPT !.pc = "serving", !.answer = "ok"]
     \/ refusal' = [refusal EXCEPT !.pc = "gone", !.answer = "failed"]

Unregister ==
  /\ refusal.pc = "serving" /\ refusal.stop
  /\ UNCHANGED <<machine, caller, request>>
  /\ refusal' = [refusal EXCEPT !.pc = "gone"]

\* refuse: no to a volume of the disk, and no answer for another.
Refuses(volume) == refusal.pc = "serving" /\ caller.target \in Carriers(machine, volume)

(***************************************************************************)
(* The host and the person beside it                                       *)

\* Disk Arbitration settles a request when it likes, also a late one.
Arbitrate ==
  /\ request \in {"sent", "late"}
  /\ UNCHANGED <<caller, refusal>>
  /\ \E answer \in {"done", "busy", "refused"} :
       LET volumes == MountedOn(machine, caller.target) IN
       /\ (answer = "busy") <=> \E v \in volumes : IsUsed(machine, v)
       /\ request' = IF request = "sent" THEN answer ELSE "over"
       /\ machine' = IF answer = "done" THEN Without(machine, volumes) ELSE machine

\* The host mounts a volume where nothing stops it: an exclusive handle on
\* Linux, the refusal on macOS, the lock on Windows.
Mount ==
  /\ UNCHANGED <<caller, request, refusal>>
  /\ \E v \in machine.spare \ Mounted(machine) :
       /\ CASE machine.kind = "linux"   -> ~(caller.handle /\ caller.target \in Carriers(machine, v))
            [] machine.kind = "macos"   -> ~Refuses(v)
            [] machine.kind = "windows" -> v \notin caller.locks
       /\ machine' = With(machine, v)

\* A drive is connected, taken out, or put in for another.
Plug ==
  /\ ~machine.plugged
  /\ UNCHANGED <<caller, request, refusal>>
  /\ machine' = Plugged(machine)

(***************************************************************************)

Init ==
  /\ machine \in Machines
  /\ caller = [pc |-> "list", list |-> <<>>, number |-> 0, shown |-> None, target |-> None,
               left |-> {}, locks |-> {}, handle |-> FALSE, loop |-> FALSE, why |-> None]
  /\ request = "none"
  /\ refusal = [pc |-> "none", stop |-> FALSE, answer |-> "none"]

Command ==
  \/ List \/ Type \/ ListAgain \/ KeepUnmounted \/ Ready
  \/ ReadMounts \/ Umount \/ Umounted \/ OpenLinux
  \/ Settle \/ Heard \/ Deadline \/ OpenMacos
  \/ OpenWindows \/ LockVolume \/ OpenPhysical
  \/ CloseDrive \/ LetGo \/ Join

Refuser == Register \/ Unregister

Next == Command \/ Refuser \/ Arbitrate \/ Mount \/ Plug

\* The command and its thread run on; nothing makes Disk Arbitration answer.
Fairness == WF_vars(Command) /\ WF_vars(Refuser)

Spec == Init /\ [][Next]_vars /\ Fairness

-----------------------------------------------------------------------------
(* Properties                                                              *)

\* What a node of the registry of macOS really sits on, itself included.
BeneathNode(m, n) ==
  LET down[over \in SUBSET DOMAIN m.nodes] ==
        IF UNION {m.nodes[x].over : x \in over} \subseteq over THEN over
        ELSE down[over \cup UNION {m.nodes[x].over : x \in over}]
  IN  down[{n}]

\* The drives that the root of macOS really lies on.
MacosRoot(m) ==
  LET media == UNION {MediaForDev(m, dev) : dev \in m.root}
  IN  UNION {Name(m, x) : x \in {y \in UNION {BeneathNode(m, n) : n \in media} : IsPhysicalWhole(m, y)}}

\* The drives under the mounts that a system starts from.
LinuxRoot(m) == UNION {Carriers(m, x) : x \in {y \in m.mounts : y.point \in MARKED}}

\* The drives under those whose line names a device of the kernel.
NamedRoot(m) ==
  UNION {Carriers(m, x) : x \in {y \in m.mounts :
           y.point \in MARKED /\ (y.number # "0" \/ y.source \in DOMAIN m.disks \cup DOMAIN m.above)}}

\* The drive under the file of a mounted loop device, where no other device
\* holds a file of that name.
CertainLoop(m) ==
  UNION {LET file    == <<m.backing[l].dir, m.backing[l].file>>
             holders == {PartitionToDisk(m, x.on) :
                           x \in {y \in m.mounts : file \in m.holds[y.point] /\ ~IsLoop(y.on)}}
         IN  IF Cardinality(holders) = 1 THEN Carriers(m, [on |-> m.backing[l].on]) ELSE {} :
           l \in {x.source : x \in m.mounts} \cap DOMAIN m.backing}

\* The drives that the running system certainly needs, from what lies on what.
Needed(m) ==
  CASE m.kind = "linux" ->
         NamedRoot(m) \cup CertainLoop(m) \cup UNION {Carriers(m, [on |-> s]) : s \in m.swaps}
    [] m.kind = "macos"   -> MacosRoot(m)
    [] m.kind = "windows" -> IF m.windows = Absent THEN {} ELSE UNION DiskExtents(m.volumes[m.windows])

Marked == {caller.list[i].id : i \in {j \in DOMAIN caller.list : caller.list[j].system}}

Listed == {caller.list[i].id : i \in DOMAIN caller.list}

\* The list marks every drive that the running system needs, however many
\* devices lie between, and no other: a mark is a refusal that no option
\* overrides (system_disks, whole_disks_above, system_disk_numbers).
MarksAreExact == At("type") => Marked = Listed \cap Needed(machine)

\* Every drive under the root is marked, whatever its file system tells of the
\* device it lies on (parse.rs of Linux says so of an encrypted volume, parse.rs
\* of macOS of a container on two stores).
RootDrivesAreMarked ==
  At("type") => CASE machine.kind = "linux" -> Listed \cap LinuxRoot(machine) \subseteq Marked
                  [] machine.kind = "macos" -> Listed \cap MacosRoot(machine) \subseteq Marked
                  [] OTHER                  -> TRUE

\* How a host counts its names on: a number goes up, and letters that are used
\* up get one more (sdz, sdaa).  So a longer prefix comes after a shorter one
\* (sdb, nvme0n1).
CountsOn(x, y) ==
  \/ x.digits /\ y.digits /\ x.number < y.number
  \/ ~x.digits /\ ~y.digits /\ (x.length < y.length \/ (x.length = y.length /\ x.rank < y.rank))

GivenBefore(a, b) ==
  \E k \in DOMAIN Runs[a] \cap DOMAIN Runs[b] :
    /\ \A j \in 1 .. k - 1 : Runs[a][j] = Runs[b][j]
    /\ CountsOn(Runs[a][k], Runs[b][k])

\* The drives that came or went since the person read the list.
Since == (Listed \ Names(machine)) \cup (Names(machine) \ Listed)

\* The number that the person read names the same drive for the write, in
\* whatever order the host gives the drives, as long as the drives that came or
\* went meanwhile have names after it: a tenth drive, or sdaa after sdz, takes no
\* number of another.  One that comes or goes before it does: sdb shifts nvme0n1.
NumberNamesTheDrive ==
  caller.target # None /\ (\A n \in Since : GivenBefore(caller.shown, n)) => caller.target = caller.shown

\* The mounted volumes of a drive that the host can name.  Windows says nothing
\* of a volume whose extents do not fit, and cannot lock one by another name.
Known(m, drive) ==
  IF m.kind = "windows"
  THEN {v \in MountedOn(m, drive) : /\ m.volumes[v].asked /\ m.volumes[v].named
                                    /\ Cardinality(m.volumes[v].disks) <= ROOM}
  ELSE MountedOn(m, drive)

\* While the drive is open nothing of it is mounted; on macOS not from the
\* unmount to the eject either, whatever Disk Arbitration answers and when.
NothingMountedMeanwhile ==
  caller.handle \/ (machine.kind = "macos" /\ caller.pc \in {"open", "held", "eject"}) =>
    Known(machine, caller.target) = {}

\* With an answer or without one, after any error, the command ends, and then
\* no thread runs and no lock is held.
AccessEnds == <>(At("done") /\ refusal.pc \in {"none", "gone"} /\ caller.locks = {})
=============================================================================
