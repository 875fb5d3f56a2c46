---------------------------- MODULE WriteCommand ----------------------------
(***************************************************************************)
(* burnout write, from the image to the first byte on a drive: run,        *)
(* find_target and confirm of commands/write.rs, with the rules of         *)
(* safety.rs, the order of listing.rs and the restart of elevate.rs.       *)
(*                                                                         *)
(* Drives come and go between any two steps, and a name that one drive     *)
(* left goes to the next, so the drive of a name or of a number is not the *)
(* same drive at two moments.  What happens to a drive that is open is the *)
(* matter of RawWrite; here it is one step, which erases the drive.        *)
(***************************************************************************)
EXTENDS Integers, FiniteSets

CONSTANTS
  Drives,     \* the drives that there are, connected or not
  Facts,      \* what is true of each: its geometry, model, serial and so on
  MaxNames,   \* the host names its drives 1 .. MaxNames, in list order
  ImageSize   \* the least size of a drive that the image, or its layout, needs

ASSUME FactsAssumption ==
  /\ Facts \in [Drives -> [size : Nat, model : STRING, serial : STRING,
                           removable : BOOLEAN, system : BOOLEAN]]
  /\ MaxNames \in Nat
  /\ ImageSize \in Nat

VARIABLES
  proc,    \* the process: its arguments, where run is, and its locals
  host,    \* the names of the drives, the lock switches, and the privilege
  person,  \* what the person read, what was asked of them, and their answer
  erased   \* the drives that the command wrote to

vars == <<proc, host, person, erased>>

Names   == 1 .. MaxNames
Systems == {d \in Drives : Facts[d].system}

\* The fields of DriveInfo that the command reads.  The size stands for the
\* sector size too, and the id for the node and the name.
Info == [id : Names, size : {Facts[d].size : d \in Drives},
         model : {Facts[d].model : d \in Drives}, serial : {Facts[d].serial : d \in Drives},
         removable : BOOLEAN, system : BOOLEAN, readOnly : BOOLEAN]
Unknown == [id |-> 0]

\* What force_phrase asks for, and what a person may type: the words that are
\* wanted, or others, which are all <<"no">>.
Phrase(x) == <<"phrase", x.model, x.size>>
Answers   == {<<"yes">>, <<"no">>} \cup {Phrase(Facts[d]) : d \in Drives}

\* The steps of run, in the order that the head of write.rs fixes.
Order ==
  <<"prepare", "choose", "elevate", "confirm", "again", "unmount", "open", "write", "end">>

After(step) == Order[1 + CHOOSE i \in 1 .. 8 : Order[i] = step]

TypeOK ==
  /\ proc \in [args     : [target : Names, byName : BOOLEAN, force : BOOLEAN,
                           mode : {"raw", "windows"}],
               pc       : {Order[i] : i \in 1 .. 9},
               elevated : BOOLEAN,                 \* --elevated
               chosen   : Info \cup {Unknown},     \* the drive of the first listing
               known    : BOOLEAN,                 \* system_disk_known
               opened   : SUBSET Drives,           \* the drive of the handle, if one is open
               stale    : BOOLEAN]                 \* its name moved after the last listing
  /\ DOMAIN host.at \subseteq Names
  /\ host.at \in [DOMAIN host.at -> Drives]        \* the drive that has a name
  /\ host.named \subseteq Systems                  \* the drives of the system each listing marks
  /\ host.locked \subseteq Drives                  \* the drives that refuse each write
  /\ host.moved \in BOOLEAN                        \* the chosen name lost its drive since
  /\ {host.root, host.grants} \subseteq BOOLEAN    \* root now, and root after sudo
  /\ person \in [shown : Info \cup {Unknown}, wanted : Answers, said : Answers, asked : 0 .. 1]
  /\ erased \subseteq Drives

----------------------------------------------------------------------------
(* What a listing says, and the rules of safety.rs.                        *)

\* The drives that one listing marks as of the system, each by itself: those that
\* the host can name, and any others besides.
Marks == {m \in SUBSET Drives : host.named \subseteq m}

\* DriveInfo of the drive at a name, in a listing with these marks.
InfoOf(name, marks) ==
  LET d == host.at[name]
  IN  [id |-> name, size |-> Facts[d].size, model |-> Facts[d].model,
       serial |-> Facts[d].serial, removable |-> Facts[d].removable,
       system |-> d \in marks, readOnly |-> d \in host.locked]

\* The names that find_target may give: the one of --device, or the one at the
\* place of the number in list order.
Found ==
  {n \in DOMAIN host.at :
     IF proc.args.byName
     THEN n = proc.args.target
     ELSE Cardinality({m \in DOMAIN host.at : m <= n}) = proc.args.target}

\* A mistake: force reaches the system disk.
CheckTargetForced(x) ==
  /\ ~x.readOnly
  /\ x.system \/ ~x.removable => proc.args.force

CheckTarget(x) ==
  /\ ~x.system
  /\ ~x.readOnly
  /\ ~x.removable => proc.args.force

\* A mistake: the name is enough.
CheckSameName(x, y) == x.id = y.id

CheckSameDrive(x, y) ==
  x.id = y.id /\ x.size = y.size /\ x.model = y.model /\ x.serial = y.serial

\* Whether the process may write a drive, and what can_write makes of a node:
\* only a refusal of permission counts as no, and a node that is gone gives none.
Privileged  == host.root \/ (proc.elevated /\ host.grants)
CanWrite(n) == Privileged \/ n \notin DOMAIN host.at

\* A mistake: the restart does not know that it is one.
PlanAgain(privileged, mayAsk) ==
  CASE privileged -> "GoAhead" [] ~privileged /\ mayAsk -> "StartAgain" [] OTHER -> "Stop"

\* plan of elevate.rs.  mayAsk: the host can restart the program, there is a
\* terminal for the password, and there is no --no-elevate.
Plan(privileged, mayAsk) ==
  CASE privileged -> "GoAhead"
    [] ~privileged /\ mayAsk /\ ~proc.elevated -> "StartAgain"
    [] OTHER -> "Stop"

----------------------------------------------------------------------------
(* The steps of run.                                                       *)

Started(args, elevated) ==
  [args |-> args, pc |-> "prepare", elevated |-> elevated, chosen |-> Unknown,
   known |-> FALSE, opened |-> {}, stale |-> FALSE]

Init ==
  /\ proc \in {Started(args, FALSE) :
                 args \in [target : Names, byName : BOOLEAN, force : BOOLEAN,
                           mode : {"raw", "windows"}]}
  /\ \E used \in SUBSET Names :
       host \in [at : {f \in [used -> Drives] :
                         /\ \A m, n \in used : f[m] = f[n] => m = n
                         /\ Systems \subseteq {f[n] : n \in used}},
                 named : SUBSET Systems, locked : {{}}, moved : {FALSE},
                 root : BOOLEAN, grants : BOOLEAN]
  /\ person = [shown |-> Unknown, wanted |-> <<"no">>, said |-> <<"no">>, asked |-> 0]
  /\ erased = {}

Go(fields) == proc' = [fields EXCEPT !.pc = After(@)]
Stop       == proc' = [proc EXCEPT !.pc = "end", !.opened = {}]

\* prepare: the image is whole and has a mode, or the command ends here.
Prepare ==
  /\ proc.pc = "prepare"
  /\ Go(proc) \/ Stop
  /\ UNCHANGED <<host, person, erased>>

\* The first listing, the rules, and the size.
Choose ==
  /\ proc.pc = "choose"
  /\ host' = [host EXCEPT !.moved = FALSE]
  /\ \/ \E n \in Found, marks \in Marks :
          /\ CheckTarget(InfoOf(n, marks))
          /\ ImageSize <= InfoOf(n, marks).size
          /\ Go([proc EXCEPT !.chosen = InfoOf(n, marks),
                             !.known = \E m \in DOMAIN host.at : InfoOf(m, marks).system])
     \/ Stop
  /\ UNCHANGED <<person, erased>>

\* The privilege.  A restart goes through sudo, and begins from the start with
\* the same arguments, unless sudo is not there or gives no password prompt.
Elevate ==
  /\ proc.pc = "elevate"
  /\ \E mayAsk \in BOOLEAN :
       LET plan == Plan(CanWrite(proc.chosen.id), mayAsk)
       IN  \/ plan = "GoAhead" /\ Go(proc)
           \/ plan = "StartAgain" /\ proc' = Started(proc.args, TRUE)
           \/ plan # "GoAhead" /\ Stop
  /\ UNCHANGED <<host, person, erased>>

\* What confirm asks for.
Wanted ==
  IF proc.args.force \/ ~proc.known THEN Phrase(proc.chosen) ELSE <<"yes">>

Confirm ==
  /\ proc.pc = "confirm"
  /\ \E said \in {Wanted, <<"no">>} :
       /\ person' = [shown |-> proc.chosen, wanted |-> Wanted, said |-> said,
                     asked |-> person.asked + 1]
       /\ IF said = Wanted THEN Go(proc) ELSE Stop
  /\ UNCHANGED <<host, erased>>

\* A mistake: the rules ran once, so they need not run again.
FindAgainByIdentity ==
  /\ proc.pc = "again"
  /\ host' = [host EXCEPT !.moved = FALSE]
  /\ \/ /\ \E n \in Found, marks \in Marks : CheckSameDrive(proc.chosen, InfoOf(n, marks))
        /\ Go(proc)
     \/ Stop
  /\ UNCHANGED <<person, erased>>

\* The second listing: the drive that the person saw, and the rules again.
FindAgain ==
  /\ proc.pc = "again"
  /\ host' = [host EXCEPT !.moved = FALSE]
  /\ \/ /\ \E n \in Found, marks \in Marks :
             /\ CheckSameDrive(proc.chosen, InfoOf(n, marks))
             /\ CheckTarget(InfoOf(n, marks))
        /\ Go(proc)
     \/ Stop
  /\ UNCHANGED <<person, erased>>

\* keep_unmounted and unmount_volumes, by the name of the drive.
Unmount ==
  /\ proc.pc = "unmount"
  /\ Go(proc) \/ Stop
  /\ UNCHANGED <<host, person, erased>>

\* open, by the name of the drive: whichever drive has it now.  The code takes
\* the name of the second listing, which CheckSameDrive makes the same name.
Open ==
  /\ proc.pc = "open"
  /\ \/ /\ proc.chosen.id \in DOMAIN host.at /\ Privileged
        /\ host.at[proc.chosen.id] \notin host.locked
        /\ Go([proc EXCEPT !.opened = {host.at[proc.chosen.id]},
                           !.stale = host.moved])
     \/ Stop
  /\ UNCHANGED <<host, person, erased>>

\* A mistake: both modes ask of the drive only that the image fits.
RefusesFits(d) == Facts[d].size < ImageSize

\* check_fits in raw mode, and same_geometry in Windows mode.
Refuses(d) ==
  IF proc.args.mode = "raw" THEN Facts[d].size < ImageSize ELSE Facts[d].size # proc.chosen.size

\* The write.  It ends the command, with an error where the drive is gone.
Write ==
  /\ proc.pc = "write"
  /\ erased' \in {erased} \cup
       {erased \cup {d} : d \in {x \in proc.opened :
                                   ~Refuses(x) /\ \E n \in DOMAIN host.at : host.at[n] = x}}
  /\ Go(proc)
  /\ UNCHANGED <<host, person>>

Program ==
  Prepare \/ Choose \/ Elevate \/ Confirm \/ FindAgain \/ Unmount \/ Open \/ Write

\* Where the program may wait for the person: at the prompt, and at the
\* password that sudo asks for.
AtThePerson == proc.pc = "confirm" \/ (proc.pc = "elevate" /\ ~proc.elevated)

----------------------------------------------------------------------------
(* What people do to the drives meanwhile.                                 *)

Running == proc.pc # "end"

\* A drive that connects takes any name that is free.  No drive is two.
Connect(d, name) ==
  /\ Running
  /\ name \notin DOMAIN host.at
  /\ \A n \in DOMAIN host.at : host.at[n] # d
  /\ host' = [host EXCEPT !.at = [n \in DOMAIN @ \cup {name} |-> IF n = name THEN d ELSE @[n]]]
  /\ UNCHANGED <<proc, person, erased>>

\* A drive that the system does not start from may leave.
Disconnect(name) ==
  /\ Running
  /\ name \in DOMAIN host.at /\ host.at[name] \notin Systems
  /\ host' = [host EXCEPT !.at = [n \in DOMAIN @ \ {name} |-> @[n]],
                          !.moved = @ \/ name = proc.chosen.id]
  /\ UNCHANGED <<proc, person, erased>>

\* The lock switch of a card that the system does not start from.
Switch(d) ==
  /\ Running /\ Facts[d].removable /\ d \notin Systems
  /\ host' = [host EXCEPT !.locked = IF d \in @ THEN @ \ {d} ELSE @ \cup {d}]
  /\ UNCHANGED <<proc, person, erased>>

Next ==
  \/ Program
  \/ \E d \in Drives, name \in Names : Connect(d, name)
  \/ \E name \in Names : Disconnect(name)
  \/ \E d \in Drives : Switch(d)

\* The program goes on by itself, and nobody has to answer.
Spec == Init /\ [][Next]_vars /\ WF_vars(Program /\ ~AtThePerson)

----------------------------------------------------------------------------
(* Properties                                                              *)

\* A drive is erased only if it has the size, the model and the serial that
\* the person read before they agreed, whatever left, came back or moved
\* between the two listings and the restart.  The one gap is a name that goes
\* to another drive after the second listing.
ErasesWhatWasShown ==
  \A d \in erased :
    /\ person.said = person.wanted
    /\ proc.stale \/ /\ Facts[d].size = person.shown.size
                     /\ Facts[d].model = person.shown.model
                     /\ Facts[d].serial = person.shown.serial

\* A drive of the system that the listings mark is never erased, and one that
\* they miss, where the first listing marked no drive at all, only after the
\* words of that very drive.  No argument, no restart and no change of names
\* gives a way around that.  Where the first listing marked some drive and
\* missed this one, the ordinary words are all that the code asks for.
SystemDiskIsSafe ==
  \A d \in erased \cap Systems :
    /\ d \notin host.named
    /\ ~proc.known => person.said = Phrase(Facts[d])

\* A fixed drive is erased only with --force and with the words of that drive,
\* also where it took the name, and has the looks, of a removable one while
\* the person read.
FixedNeedsForce ==
  \A d \in erased :
    ~Facts[d].removable /\ ~proc.stale => proc.args.force /\ person.said = Phrase(Facts[d])

\* What is erased has room for what goes onto it: in Windows mode the drive
\* has the size that the confirmed layout is for, whichever drive it is.
HasRoom ==
  \A d \in erased :
    /\ Facts[d].size >= ImageSize
    /\ proc.args.mode = "windows" => Facts[d].size = person.shown.size

\* The command ends, or waits for the person for good.  A restart through sudo
\* that gives no root does not lead to another, and another.
EndsOrWaits == <>[](proc.pc = "end" \/ AtThePerson)

=============================================================================
