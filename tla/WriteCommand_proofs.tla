------------------------ MODULE WriteCommand_proofs ------------------------
(***************************************************************************)
(* The four safety properties of WriteCommand, for any drives, any facts   *)
(* about them, any number of names and any size of the image.              *)
(*                                                                         *)
(* None is inductive.  What is erased depends on the drive that was        *)
(* opened, that on the drive that had the name at the second listing, and  *)
(* for a drive of the system, which no listing protects where the host     *)
(* cannot name it, on that drive having had its name all the time.         *)
(***************************************************************************)
EXTENDS WriteCommand, TLAPS

\* The places of run after the first listing, and after the answer.
Chosen   == {"elevate", "confirm", "again", "unmount", "open", "write"}
AfterYes == {"again", "unmount", "open", "write"}

\* TypeOK by variables, and with the fields of host, whose names it leaves out.
ProcIsTyped ==
  proc \in [args     : [target : Names, byName : BOOLEAN, force : BOOLEAN,
                        mode : {"raw", "windows"}],
            pc       : {"prepare"} \cup Chosen \cup {"choose", "end"},
            elevated : BOOLEAN, chosen : Info \cup {Unknown}, known : BOOLEAN,
            opened   : SUBSET Drives, stale : BOOLEAN]
PersonIsTyped ==
  person \in [shown : Info \cup {Unknown}, wanted : Answers, said : Answers, asked : 0 .. 1]
Namings == UNION {[named -> Drives] : named \in SUBSET Names}
HostIsTyped ==
  host \in [at : Namings, named : SUBSET Systems, locked : SUBSET Drives, moved : BOOLEAN,
            root : BOOLEAN, grants : BOOLEAN]

\* A drive that the system starts from always has a name.
SystemsHaveNames == \A d \in Systems : \E n \in DOMAIN host.at : host.at[n] = d

\* The listing that chose the drive told of one drive, with room for the image;
\* and if that drive is one of the system, it is not one that every listing marks.
ChosenIsListed ==
  proc.pc \in Chosen =>
    /\ proc.chosen \in Info
    /\ ImageSize <= proc.chosen.size
    /\ \E d \in Drives : proc.chosen.model = Facts[d].model /\ proc.chosen.size = Facts[d].size
    /\ proc.chosen.id \in DOMAIN host.at /\ host.at[proc.chosen.id] \in Systems =>
         /\ host.at[proc.chosen.id] \notin host.named
         /\ proc.chosen.model = Facts[host.at[proc.chosen.id]].model
         /\ proc.chosen.size = Facts[host.at[proc.chosen.id]].size

\* The person is asked once, of the chosen drive, and gave the words asked for.
AgreedTo ==
  /\ proc.pc \in {"prepare", "choose", "elevate", "confirm"} => person.asked = 0
  /\ proc.pc \in AfterYes =>
       /\ person.shown = proc.chosen
       /\ person.said = person.wanted
       /\ proc.args.force \/ ~proc.known => person.said = Phrase(proc.chosen)

\* Until the name moves, the drive that has it is the one that was confirmed.
FoundAgain ==
  proc.pc \in {"unmount", "open"} /\ ~host.moved =>
    LET f == Facts[host.at[proc.chosen.id]]
    IN  /\ proc.chosen.id \in DOMAIN host.at
        /\ f.size = proc.chosen.size /\ f.model = proc.chosen.model
        /\ f.serial = proc.chosen.serial
        /\ f.removable \/ proc.args.force

\* What must be true of a drive that is to be erased.
May(d) ==
  /\ d \in Systems => d \notin host.named /\ (~proc.known => person.said = Phrase(Facts[d]))
  /\ \/ proc.stale
     \/ /\ Facts[d].size = person.shown.size
        /\ Facts[d].model = person.shown.model
        /\ Facts[d].serial = person.shown.serial
        /\ Facts[d].removable \/ (proc.args.force /\ person.said = Phrase(Facts[d]))

OpenedIsAllowed == proc.pc = "write" => \A d \in proc.opened : May(d)

ErasedWasAllowed ==
  /\ proc.pc # "end" => erased = {}
  /\ \A d \in erased :
       /\ May(d)
       /\ person.said = person.wanted
       /\ Facts[d].size >= ImageSize
       /\ proc.args.mode = "windows" => Facts[d].size = person.shown.size

Allowed ==
  /\ ProcIsTyped /\ HostIsTyped /\ PersonIsTyped /\ erased \subseteq Drives
  /\ SystemsHaveNames
  /\ ChosenIsListed
  /\ AgreedTo
  /\ FoundAgain
  /\ OpenedIsAllowed
  /\ ErasedWasAllowed

----------------------------------------------------------------------------

\* Each step of run has one next step (the order at the head of write.rs).
LEMMA OrderOfSteps ==
  /\ After("prepare") = "choose"
  /\ After("choose") = "elevate"
  /\ After("elevate") = "confirm"
  /\ After("confirm") = "again"
  /\ After("again") = "unmount"
  /\ After("unmount") = "open"
  /\ After("open") = "write"
  /\ After("write") = "end"
<1>1. \A i \in 1 .. 8 : (Order[i] = "prepare" <=> i = 1)
  BY DEF Order
<1>2. \A i \in 1 .. 8 : (Order[i] = "choose" <=> i = 2)
  BY DEF Order
<1>3. \A i \in 1 .. 8 : (Order[i] = "elevate" <=> i = 3)
  BY DEF Order
<1>4. \A i \in 1 .. 8 : (Order[i] = "confirm" <=> i = 4)
  BY DEF Order
<1>5. \A i \in 1 .. 8 : (Order[i] = "again" <=> i = 5)
  BY DEF Order
<1>6. \A i \in 1 .. 8 : (Order[i] = "unmount" <=> i = 6)
  BY DEF Order
<1>7. \A i \in 1 .. 8 : (Order[i] = "open" <=> i = 7)
  BY DEF Order
<1>8. \A i \in 1 .. 8 : (Order[i] = "write" <=> i = 8)
  BY DEF Order
<1>9. \A s : \A k \in 1 .. 8 : (\A i \in 1 .. 8 : (Order[i] = s <=> i = k)) => After(s) = Order[1 + k]
  <2> SUFFICES ASSUME NEW s, NEW k \in 1 .. 8, \A i \in 1 .. 8 : (Order[i] = s <=> i = k)
               PROVE  After(s) = Order[1 + k]
    OBVIOUS
  <2>1. (CHOOSE i \in 1 .. 8 : Order[i] = s) = k
    OBVIOUS
  <2> QED BY <2>1 DEF After
<1>10. /\ Order[2] = "choose" /\ Order[3] = "elevate" /\ Order[4] = "confirm"
       /\ Order[5] = "again" /\ Order[6] = "unmount" /\ Order[7] = "open"
       /\ Order[8] = "write" /\ Order[9] = "end"
  BY DEF Order
<1> QED
  <2>1. After("prepare") = "choose" BY <1>1, <1>9, <1>10
  <2>2. After("choose") = "elevate" BY <1>2, <1>9, <1>10
  <2>3. After("elevate") = "confirm" BY <1>3, <1>9, <1>10
  <2>4. After("confirm") = "again" BY <1>4, <1>9, <1>10
  <2>5. After("again") = "unmount" BY <1>5, <1>9, <1>10
  <2>6. After("unmount") = "open" BY <1>6, <1>9, <1>10
  <2>7. After("open") = "write" BY <1>7, <1>9, <1>10
  <2>8. After("write") = "end" BY <1>8, <1>9, <1>10
  <2> QED BY <2>1, <2>2, <2>3, <2>4, <2>5, <2>6, <2>7, <2>8

\* The steps, as a set: what TypeOK says of proc.pc.
LEMMA AllSteps ==
  {Order[i] : i \in 1 .. 9} =
  {"prepare", "choose", "elevate", "confirm", "again", "unmount", "open", "write", "end"}
BY DEF Order

----------------------------------------------------------------------------

\* A listing gives the fields of DriveInfo, and those of the drive of the name.
LEMMA ListingIsTyped ==
  ASSUME HostIsTyped, NEW n \in DOMAIN host.at, NEW marks \in Marks
  PROVE  /\ host.at[n] \in Drives
         /\ n \in Names
         /\ InfoOf(n, marks) \in Info
<1>1. PICK named \in SUBSET Names : host.at \in [named -> Drives]
  BY DEF HostIsTyped, Namings
<1>2. n \in Names /\ host.at[n] \in Drives
  BY <1>1
<1>3. /\ Facts[host.at[n]].size \in {Facts[d].size : d \in Drives}
      /\ Facts[host.at[n]].model \in {Facts[d].model : d \in Drives}
      /\ Facts[host.at[n]].serial \in {Facts[d].serial : d \in Drives}
  BY <1>2
<1>4. Facts[host.at[n]].removable \in BOOLEAN
  BY <1>2, FactsAssumption
<1> QED
  BY <1>2, <1>3, <1>4 DEF InfoOf, Info

\* The first listing is of drives that there are.
LEMMA AllowedInitially == Init => Allowed
<1> SUFFICES ASSUME Init PROVE Allowed
  OBVIOUS
<1>1. PICK used \in SUBSET Names :
        host \in [at : {f \in [used -> Drives] :
                          /\ \A m, n \in used : f[m] = f[n] => m = n
                          /\ Systems \subseteq {f[n] : n \in used}},
                  named : SUBSET Systems, locked : {{}}, moved : {FALSE},
                  root : BOOLEAN, grants : BOOLEAN]
  BY DEF Init
<1>2. /\ host.at \in [used -> Drives]
      /\ Systems \subseteq {host.at[n] : n \in used}
      /\ host.locked = {} /\ host.moved = FALSE /\ host.root \in BOOLEAN /\ host.grants \in BOOLEAN
  BY <1>1
<1>3. HostIsTyped
  BY <1>1 DEF HostIsTyped, Namings
<1>4. PICK args \in [target : Names, byName : BOOLEAN, force : BOOLEAN, mode : {"raw", "windows"}] :
        proc = Started(args, FALSE)
  BY DEF Init
<1>5. ProcIsTyped
  BY <1>4 DEF Started, ProcIsTyped
<1>6. PersonIsTyped
  BY DEF Init, Answers, PersonIsTyped
<1>7. erased \subseteq Drives
  BY DEF Init
<1>8. SystemsHaveNames
  BY <1>2 DEF SystemsHaveNames
<1>9. proc.pc = "prepare"
  BY <1>4 DEF Started
<1> QED
  BY <1>3, <1>5, <1>6, <1>7, <1>8, <1>9 DEF Allowed, ChosenIsListed, AgreedTo, FoundAgain,
     OpenedIsAllowed, ErasedWasAllowed, Chosen, AfterYes, Init

\* The invariant gives the type invariant that the run checks.
LEMMA AllowedIsTyped == Allowed => TypeOK
<1> SUFFICES ASSUME Allowed PROVE TypeOK
  OBVIOUS
<1>1. proc \in [args : [target : Names, byName : BOOLEAN, force : BOOLEAN, mode : {"raw", "windows"}],
                pc : {Order[i] : i \in 1 .. 9}, elevated : BOOLEAN, chosen : Info \cup {Unknown},
                known : BOOLEAN, opened : SUBSET Drives, stale : BOOLEAN]
  BY AllSteps DEF Allowed, ProcIsTyped, Chosen
<1>2. PICK named \in SUBSET Names : host.at \in [named -> Drives]
  BY DEF Allowed, HostIsTyped, Namings
<1>3. /\ DOMAIN host.at \subseteq Names /\ host.at \in [DOMAIN host.at -> Drives]
      /\ host.named \subseteq Systems /\ host.locked \subseteq Drives /\ host.moved \in BOOLEAN
      /\ {host.root, host.grants} \subseteq BOOLEAN
  BY <1>2 DEF Allowed, HostIsTyped
<1>4. person \in [shown : Info \cup {Unknown}, wanted : Answers, said : Answers, asked : 0 .. 1]
  BY DEF Allowed, PersonIsTyped
<1> QED
  BY <1>1, <1>3, <1>4 DEF TypeOK, Allowed

----------------------------------------------------------------------------
(* The steps of run.                                                       *)

\* A step that ends the command keeps what is known of the drives.
LEMMA StopKeepsAllowed ==
  ASSUME Allowed, Stop, proc.pc # "end", HostIsTyped', host'.at = host.at, host'.named = host.named,
         UNCHANGED <<person, erased>>
  PROVE  Allowed'
<1>1. /\ proc'.pc = "end" /\ proc'.chosen = proc.chosen /\ proc'.args = proc.args
      /\ erased' = {}
  BY DEF Stop, Allowed, ProcIsTyped, ErasedWasAllowed
<1>2. ProcIsTyped'
  BY DEF Stop, Allowed, ProcIsTyped
<1>3. PersonIsTyped' /\ (erased \subseteq Drives)'
  BY <1>1 DEF Allowed, PersonIsTyped
<1>4. SystemsHaveNames'
  BY DEF Allowed, SystemsHaveNames
<1> QED
  BY <1>1, <1>2, <1>3, <1>4 DEF Allowed, ChosenIsListed, AgreedTo, FoundAgain, OpenedIsAllowed,
     ErasedWasAllowed, Chosen, AfterYes

\* No listing has been made, and nothing is asked of the person.
LEMMA PrepareKeepsAllowed == Allowed /\ Prepare => Allowed'
<1> SUFFICES ASSUME Allowed, Prepare PROVE Allowed'
  OBVIOUS
<1>1. proc.pc = "prepare" /\ UNCHANGED <<host, person, erased>> /\ HostIsTyped'
  BY DEF Prepare, Allowed, HostIsTyped
<1>2. CASE Stop
  BY <1>1, <1>2, StopKeepsAllowed
<1>3. CASE Go(proc)
  <2>1. proc' = [proc EXCEPT !.pc = "choose"]
    BY <1>1, <1>3, OrderOfSteps DEF Go, Allowed, ProcIsTyped
  <2>2. ProcIsTyped'
    BY <2>1 DEF Allowed, ProcIsTyped
  <2>3. proc'.pc = "choose"
    BY <2>1 DEF Allowed, ProcIsTyped
  <2> QED
    BY <1>1, <2>2, <2>3 DEF Allowed, PersonIsTyped, SystemsHaveNames, ChosenIsListed, AgreedTo,
       FoundAgain, OpenedIsAllowed, ErasedWasAllowed, Chosen, AfterYes
<1> QED
  BY <1>2, <1>3 DEF Prepare

\* A chosen drive keeps the rules: one that the system starts from is chosen
\* only where the listing missed it.
LEMMA ChooseKeepsAllowed == Allowed /\ Choose => Allowed'
<1> SUFFICES ASSUME Allowed, Choose PROVE Allowed'
  OBVIOUS
<1>1. /\ proc.pc = "choose" /\ UNCHANGED <<person, erased>>
      /\ host' = [host EXCEPT !.moved = FALSE]
  BY DEF Choose
<1>2. HostIsTyped' /\ host'.at = host.at /\ host'.named = host.named
  BY <1>1 DEF Allowed, HostIsTyped
<1>3. CASE Stop
  BY <1>1, <1>2, <1>3, StopKeepsAllowed
<1>4. CASE \E n \in Found, marks \in Marks :
             /\ CheckTarget(InfoOf(n, marks))
             /\ ImageSize <= InfoOf(n, marks).size
             /\ Go([proc EXCEPT !.chosen = InfoOf(n, marks),
                                !.known = \E m \in DOMAIN host.at : InfoOf(m, marks).system])
  <2>1. PICK n \in DOMAIN host.at, marks \in Marks :
             /\ CheckTarget(InfoOf(n, marks))
             /\ ImageSize <= InfoOf(n, marks).size
             /\ Go([proc EXCEPT !.chosen = InfoOf(n, marks),
                                !.known = \E m \in DOMAIN host.at : InfoOf(m, marks).system])
    BY <1>4 DEF Found
  <2>2. /\ host.at[n] \in Drives /\ n \in Names /\ InfoOf(n, marks) \in Info
        /\ \A m \in DOMAIN host.at : host.at[m] \in Drives
    BY ListingIsTyped DEF Allowed
  <2>3. proc' = [proc EXCEPT !.chosen = InfoOf(n, marks), !.pc = "elevate",
                             !.known = \E m \in DOMAIN host.at : InfoOf(m, marks).system]
    BY <1>1, <2>1, OrderOfSteps DEF Go, Allowed, ProcIsTyped
  <2>4. /\ proc'.pc = "elevate" /\ proc'.chosen = InfoOf(n, marks)
        /\ proc'.known = \E m \in DOMAIN host.at : InfoOf(m, marks).system
    BY <2>3 DEF Allowed, ProcIsTyped
  <2>5. ProcIsTyped'
    BY <2>2, <2>3 DEF Allowed, ProcIsTyped, Chosen
  <2>6. host.at[n] \notin marks
    BY <2>1 DEF CheckTarget, InfoOf
  <2>7. host.at[n] \notin host.named
    BY <2>6 DEF Marks
  <2>8. /\ InfoOf(n, marks).id = n
        /\ InfoOf(n, marks).model = Facts[host.at[n]].model
        /\ InfoOf(n, marks).size = Facts[host.at[n]].size
    BY DEF InfoOf
  <2>9. ChosenIsListed'
    BY <1>2, <2>1, <2>2, <2>4, <2>7, <2>8 DEF ChosenIsListed
  <2> QED
    BY <1>1, <1>2, <2>4, <2>5, <2>9 DEF Allowed, PersonIsTyped, SystemsHaveNames, AgreedTo,
       FoundAgain, OpenedIsAllowed, ErasedWasAllowed, Chosen, AfterYes
<1> QED
  BY <1>3, <1>4 DEF Choose

\* A restart begins again, with nothing chosen, asked or opened.
LEMMA ElevateKeepsAllowed == Allowed /\ Elevate => Allowed'
<1> SUFFICES ASSUME Allowed, Elevate PROVE Allowed'
  OBVIOUS
<1>1. proc.pc = "elevate" /\ UNCHANGED <<host, person, erased>> /\ HostIsTyped'
  BY DEF Elevate, Allowed, HostIsTyped
<1>2. CASE Stop
  BY <1>1, <1>2, StopKeepsAllowed
<1>3. CASE Go(proc)
  <2>1. proc' = [proc EXCEPT !.pc = "confirm"]
    BY <1>1, <1>3, OrderOfSteps DEF Go, Allowed, ProcIsTyped
  <2>2. ProcIsTyped'
    BY <2>1 DEF Allowed, ProcIsTyped, Chosen
  <2>3. proc'.pc = "confirm" /\ proc'.chosen = proc.chosen /\ proc'.known = proc.known
    BY <2>1 DEF Allowed, ProcIsTyped
  <2> QED
    BY <1>1, <2>2, <2>3 DEF Allowed, PersonIsTyped, SystemsHaveNames, ChosenIsListed, AgreedTo,
       FoundAgain, OpenedIsAllowed, ErasedWasAllowed, Chosen, AfterYes
<1>4. CASE proc' = Started(proc.args, TRUE)
  <2>1. ProcIsTyped' /\ proc'.pc = "prepare"
    BY <1>4 DEF Started, Allowed, ProcIsTyped
  <2> QED
    BY <1>1, <2>1 DEF Allowed, PersonIsTyped, SystemsHaveNames, ChosenIsListed, AgreedTo,
       FoundAgain, OpenedIsAllowed, ErasedWasAllowed, Chosen, AfterYes
<1> QED
  BY <1>2, <1>3, <1>4 DEF Elevate

\* What a person is asked for is the words of a drive that there is, or yes.
LEMMA ConfirmKeepsAllowed == Allowed /\ Confirm => Allowed'
<1> SUFFICES ASSUME Allowed, Confirm PROVE Allowed'
  OBVIOUS
<1>1. proc.pc = "confirm" /\ UNCHANGED <<host, erased>> /\ HostIsTyped'
  BY DEF Confirm, Allowed, HostIsTyped
<1>2. PICK said \in {Wanted, <<"no">>} :
        /\ person' = [shown |-> proc.chosen, wanted |-> Wanted, said |-> said,
                      asked |-> person.asked + 1]
        /\ IF said = Wanted THEN Go(proc) ELSE Stop
  BY DEF Confirm
<1>3. person.asked = 0
  BY <1>1 DEF Allowed, AgreedTo
<1>4. Wanted \in Answers
  <2>1. PICK d \in Drives : proc.chosen.model = Facts[d].model /\ proc.chosen.size = Facts[d].size
    BY <1>1 DEF Allowed, ChosenIsListed, Chosen
  <2>2. Phrase(proc.chosen) = Phrase(Facts[d])
    BY <2>1 DEF Phrase
  <2> QED
    BY <2>2 DEF Wanted, Answers
<1>5. proc.chosen \in Info
  BY <1>1 DEF Allowed, ChosenIsListed, Chosen
<1>6. PersonIsTyped'
  <2>1. said \in Answers
    BY <1>4 DEF Answers
  <2> QED
    BY <1>2, <1>3, <1>4, <1>5, <2>1 DEF PersonIsTyped
<1>7. erased = {} /\ SystemsHaveNames'
  BY <1>1 DEF Allowed, ErasedWasAllowed, SystemsHaveNames
<1>8. CASE said = Wanted
  <2>1. proc' = [proc EXCEPT !.pc = "again"]
    BY <1>1, <1>2, <1>8, OrderOfSteps DEF Go, Allowed, ProcIsTyped
  <2>2. ProcIsTyped'
    BY <2>1 DEF Allowed, ProcIsTyped, Chosen
  <2>3. /\ proc'.pc = "again" /\ proc'.chosen = proc.chosen /\ proc'.known = proc.known
        /\ proc'.args = proc.args
    BY <2>1 DEF Allowed, ProcIsTyped
  <2>4. /\ person'.shown = proc.chosen /\ person'.said = Wanted /\ person'.wanted = Wanted
    BY <1>2, <1>8
  <2>5. AgreedTo'
    BY <2>3, <2>4 DEF AgreedTo, AfterYes, Wanted, Phrase
  <2>6. ChosenIsListed'
    BY <1>1, <2>3 DEF Allowed, ChosenIsListed, Chosen
  <2> QED
    BY <1>1, <1>6, <1>7, <2>2, <2>3, <2>5, <2>6 DEF Allowed, FoundAgain, OpenedIsAllowed,
       ErasedWasAllowed
<1>9. CASE said # Wanted
  <2>1. Stop
    BY <1>2, <1>9
  <2>2. ProcIsTyped' /\ proc'.pc = "end"
    BY <2>1 DEF Stop, Allowed, ProcIsTyped
  <2> QED
    BY <1>1, <1>6, <1>7, <2>2 DEF Allowed, ChosenIsListed, AgreedTo, FoundAgain,
       OpenedIsAllowed, ErasedWasAllowed, Chosen, AfterYes
<1> QED
  BY <1>8, <1>9

\* The second listing finds the confirmed drive at its name, and the rules hold.
LEMMA FindAgainKeepsAllowed == Allowed /\ FindAgain => Allowed'
<1> SUFFICES ASSUME Allowed, FindAgain PROVE Allowed'
  OBVIOUS
<1>1. /\ proc.pc = "again" /\ UNCHANGED <<person, erased>>
      /\ host' = [host EXCEPT !.moved = FALSE]
  BY DEF FindAgain
<1>2. HostIsTyped' /\ host'.at = host.at /\ host'.named = host.named
  BY <1>1 DEF Allowed, HostIsTyped
<1>3. CASE Stop
  BY <1>1, <1>2, <1>3, StopKeepsAllowed
<1>4. CASE /\ \E n \in Found, marks \in Marks :
                /\ CheckSameDrive(proc.chosen, InfoOf(n, marks))
                /\ CheckTarget(InfoOf(n, marks))
           /\ Go(proc)
  <2>1. PICK n \in DOMAIN host.at, marks \in Marks :
          /\ CheckSameDrive(proc.chosen, InfoOf(n, marks))
          /\ CheckTarget(InfoOf(n, marks))
    BY <1>4 DEF Found
  <2>2. proc' = [proc EXCEPT !.pc = "unmount"]
    BY <1>1, <1>4, OrderOfSteps DEF Go, Allowed, ProcIsTyped
  <2>3. ProcIsTyped'
    BY <2>2 DEF Allowed, ProcIsTyped, Chosen
  <2>4. /\ proc'.pc = "unmount" /\ proc'.chosen = proc.chosen /\ proc'.known = proc.known
        /\ proc'.args = proc.args
    BY <2>2 DEF Allowed, ProcIsTyped
  <2>5. /\ proc.chosen.id = n
        /\ Facts[host.at[n]].size = proc.chosen.size
        /\ Facts[host.at[n]].model = proc.chosen.model
        /\ Facts[host.at[n]].serial = proc.chosen.serial
        /\ Facts[host.at[n]].removable \/ proc.args.force
    BY <2>1 DEF CheckSameDrive, CheckTarget, InfoOf
  <2>6. FoundAgain'
    BY <1>2, <2>1, <2>4, <2>5 DEF FoundAgain
  <2>7. ChosenIsListed' /\ AgreedTo'
    BY <1>1, <1>2, <2>4 DEF Allowed, ChosenIsListed, AgreedTo, Chosen, AfterYes
  <2> QED
    BY <1>1, <1>2, <2>3, <2>4, <2>6, <2>7 DEF Allowed, PersonIsTyped, SystemsHaveNames,
       OpenedIsAllowed, ErasedWasAllowed
<1> QED
  BY <1>3, <1>4 DEF FindAgain

\* The volumes are released by the same name that the second listing gave.
LEMMA UnmountKeepsAllowed == Allowed /\ Unmount => Allowed'
<1> SUFFICES ASSUME Allowed, Unmount PROVE Allowed'
  OBVIOUS
<1>1. proc.pc = "unmount" /\ UNCHANGED <<host, person, erased>> /\ HostIsTyped'
  BY DEF Unmount, Allowed, HostIsTyped
<1>2. CASE Stop
  BY <1>1, <1>2, StopKeepsAllowed
<1>3. CASE Go(proc)
  <2>1. proc' = [proc EXCEPT !.pc = "open"]
    BY <1>1, <1>3, OrderOfSteps DEF Go, Allowed, ProcIsTyped
  <2>2. ProcIsTyped'
    BY <2>1 DEF Allowed, ProcIsTyped, Chosen
  <2>3. /\ proc'.pc = "open" /\ proc'.chosen = proc.chosen /\ proc'.known = proc.known
        /\ proc'.args = proc.args
    BY <2>1 DEF Allowed, ProcIsTyped
  <2>4. ChosenIsListed' /\ AgreedTo' /\ FoundAgain'
    BY <1>1, <2>3 DEF Allowed, ChosenIsListed, AgreedTo, FoundAgain, Chosen, AfterYes
  <2> QED
    BY <1>1, <2>2, <2>3, <2>4 DEF Allowed, PersonIsTyped, SystemsHaveNames, OpenedIsAllowed,
       ErasedWasAllowed
<1> QED
  BY <1>2, <1>3 DEF Unmount

\* The drive that is opened by its name may be erased: it is the one that was
\* confirmed, or it took the name after the second listing.
LEMMA OpenKeepsAllowed == Allowed /\ Open => Allowed'
<1> SUFFICES ASSUME Allowed, Open PROVE Allowed'
  OBVIOUS
<1>1. proc.pc = "open" /\ UNCHANGED <<host, person, erased>> /\ HostIsTyped'
  BY DEF Open, Allowed, HostIsTyped
<1>2. CASE Stop
  BY <1>1, <1>2, StopKeepsAllowed
<1>3. CASE /\ proc.chosen.id \in DOMAIN host.at
           /\ Go([proc EXCEPT !.opened = {host.at[proc.chosen.id]}, !.stale = host.moved])
  <2> DEFINE d == host.at[proc.chosen.id]
  <2>1. d \in Drives
    BY <1>3 DEF Allowed, HostIsTyped, Namings
  <2>2. proc' = [proc EXCEPT !.pc = "write", !.opened = {d}, !.stale = host.moved]
    BY <1>1, <1>3, OrderOfSteps DEF Go, Allowed, ProcIsTyped
  <2>3. ProcIsTyped'
    BY <2>1, <2>2 DEF Allowed, ProcIsTyped, HostIsTyped, Chosen
  <2>4. /\ proc'.pc = "write" /\ proc'.chosen = proc.chosen /\ proc'.known = proc.known
        /\ proc'.args = proc.args /\ proc'.opened = {d} /\ proc'.stale = host.moved
    BY <2>2 DEF Allowed, ProcIsTyped
  <2>5. ChosenIsListed' /\ AgreedTo'
    BY <1>1, <2>4 DEF Allowed, ChosenIsListed, AgreedTo, Chosen, AfterYes
  <2>6. /\ person.shown = proc.chosen
        /\ proc.args.force \/ ~proc.known => person.said = Phrase(proc.chosen)
    BY <1>1 DEF Allowed, AgreedTo, AfterYes
  <2>7. d \in Systems => d \notin host.named /\ (~proc.known => person.said = Phrase(Facts[d]))
    BY <1>1, <1>3, <2>6 DEF Allowed, ChosenIsListed, Chosen, Phrase
  <2>8. host.moved \/ /\ Facts[d].size = person.shown.size
                      /\ Facts[d].model = person.shown.model
                      /\ Facts[d].serial = person.shown.serial
                      /\ Facts[d].removable \/ (proc.args.force /\ person.said = Phrase(Facts[d]))
    BY <1>1, <2>6 DEF Allowed, FoundAgain, Phrase
  <2>9. May(d)'
    BY <1>1, <2>4, <2>7, <2>8 DEF May
  <2>10. OpenedIsAllowed'
    BY <1>1, <2>4, <2>9 DEF OpenedIsAllowed
  <2> QED
    BY <1>1, <2>3, <2>4, <2>5, <2>10 DEF Allowed, PersonIsTyped, SystemsHaveNames, FoundAgain,
       ErasedWasAllowed
<1> QED
  BY <1>2, <1>3 DEF Open

\* What is erased is what was opened, and is large enough.
LEMMA WriteKeepsAllowed == Allowed /\ Write => Allowed'
<1> SUFFICES ASSUME Allowed, Write PROVE Allowed'
  OBVIOUS
<1>1. proc.pc = "write" /\ UNCHANGED <<host, person>> /\ HostIsTyped' /\ erased = {}
  BY DEF Write, Allowed, HostIsTyped, ErasedWasAllowed
<1>2. proc' = [proc EXCEPT !.pc = "end"]
  BY <1>1, OrderOfSteps DEF Write, Go, Allowed, ProcIsTyped
<1>3. ProcIsTyped'
  BY <1>2 DEF Allowed, ProcIsTyped
<1>4. /\ proc'.pc = "end" /\ proc'.known = proc.known /\ proc'.args = proc.args
      /\ proc'.stale = proc.stale
  BY <1>2 DEF Allowed, ProcIsTyped
<1>5. \A d \in erased' : d \in proc.opened /\ ~Refuses(d)
  BY <1>1 DEF Write
<1>6. /\ person.shown = proc.chosen /\ person.said = person.wanted
      /\ ImageSize <= proc.chosen.size /\ proc.chosen \in Info
  BY <1>1 DEF Allowed, AgreedTo, ChosenIsListed, AfterYes, Chosen
<1>7. ASSUME NEW d \in erased'
      PROVE  /\ d \in Drives
             /\ May(d)'
             /\ person'.said = person'.wanted
             /\ Facts[d].size >= ImageSize
             /\ proc'.args.mode = "windows" => Facts[d].size = person'.shown.size
  <2>1. d \in proc.opened /\ ~Refuses(d) /\ d \in Drives
    BY <1>5 DEF Allowed, ProcIsTyped
  <2>2. May(d)'
    BY <1>1, <1>4, <2>1 DEF Allowed, OpenedIsAllowed, May
  <2>3. Facts[d].size \in Nat /\ ImageSize \in Nat
    BY <2>1, FactsAssumption
  <2>4. CASE proc.args.mode = "raw"
    BY <1>1, <1>4, <1>6, <2>1, <2>2, <2>3, <2>4 DEF Refuses
  <2>5. CASE proc.args.mode # "raw"
    BY <1>1, <1>4, <1>6, <2>1, <2>2, <2>3, <2>5 DEF Refuses
  <2> QED
    BY <2>4, <2>5
<1>8. ErasedWasAllowed'
  BY <1>4, <1>7 DEF ErasedWasAllowed
<1> QED
  BY <1>1, <1>3, <1>4, <1>7, <1>8 DEF Allowed, PersonIsTyped, SystemsHaveNames, ChosenIsListed,
     AgreedTo, FoundAgain, OpenedIsAllowed, Chosen, AfterYes

----------------------------------------------------------------------------
(* The steps of the drives.                                                *)

\* What a step of the drives leaves to show, when it leaves the command alone.
LEMMA HostStepKeepsAllowed ==
  ASSUME Allowed, UNCHANGED <<proc, person, erased>>, HostIsTyped', SystemsHaveNames',
         host'.named = host.named,
         \* A name of a drive of the system is as it was, ...
         \A n \in DOMAIN host'.at : host'.at[n] \in Systems =>
           n \in DOMAIN host.at /\ host'.at[n] = host.at[n],
         \* ... and the chosen name too, or it moved.
         ~host'.moved /\ proc.chosen.id \in DOMAIN host.at =>
           /\ ~host.moved
           /\ proc.chosen.id \in DOMAIN host'.at
           /\ host'.at[proc.chosen.id] = host.at[proc.chosen.id],
         host.moved => host'.moved
  PROVE  Allowed'
<1>1. ProcIsTyped' /\ PersonIsTyped' /\ (erased \subseteq Drives)'
  BY DEF Allowed, ProcIsTyped, PersonIsTyped
<1>2. AgreedTo' /\ OpenedIsAllowed' /\ ErasedWasAllowed'
  BY DEF Allowed, AgreedTo, OpenedIsAllowed, ErasedWasAllowed, May
<1>3. ChosenIsListed'
  <2>1. /\ proc.pc \in Chosen => /\ proc.chosen \in Info
                                 /\ ImageSize <= proc.chosen.size
                                 /\ \E d \in Drives : /\ proc.chosen.model = Facts[d].model
                                                      /\ proc.chosen.size = Facts[d].size
    BY DEF Allowed, ChosenIsListed
  <2>2. ASSUME proc.pc \in Chosen, proc.chosen.id \in DOMAIN host'.at,
               host'.at[proc.chosen.id] \in Systems
        PROVE  /\ host'.at[proc.chosen.id] \notin host'.named
               /\ proc.chosen.model = Facts[host'.at[proc.chosen.id]].model
               /\ proc.chosen.size = Facts[host'.at[proc.chosen.id]].size
    BY <2>2 DEF Allowed, ChosenIsListed
  <2> QED
    BY <2>1, <2>2 DEF ChosenIsListed
<1>4. FoundAgain'
  BY DEF Allowed, FoundAgain, HostIsTyped
<1> QED
  BY <1>1, <1>2, <1>3, <1>4 DEF Allowed

\* A drive that connects is not of the system, whose drives all have names, and
\* takes no name that another has.
LEMMA ConnectKeepsAllowed ==
  ASSUME Allowed, NEW d \in Drives, NEW name \in Names, Connect(d, name)
  PROVE  Allowed'
<1> DEFINE new == [n \in DOMAIN host.at \cup {name} |-> IF n = name THEN d ELSE host.at[n]]
<1>1. /\ name \notin DOMAIN host.at /\ UNCHANGED <<proc, person, erased>>
      /\ \A n \in DOMAIN host.at : host.at[n] # d
      /\ host' = [host EXCEPT !.at = new]
  BY DEF Connect
<1>2. PICK named \in SUBSET Names : host.at \in [named -> Drives]
  BY DEF Allowed, HostIsTyped, Namings
<1>3. new \in [named \cup {name} -> Drives]
  BY <1>2
<1>4. new \in Namings
  BY <1>3 DEF Namings
<1>5. host'.at = new /\ host'.moved = host.moved /\ host'.named = host.named /\ HostIsTyped'
  BY <1>1, <1>4 DEF Allowed, HostIsTyped
<1>6. /\ DOMAIN new = DOMAIN host.at \cup {name}
      /\ \A n \in DOMAIN host.at : new[n] = host.at[n]
      /\ new[name] = d
  BY <1>1
<1>7. SystemsHaveNames'
  BY <1>5, <1>6 DEF Allowed, SystemsHaveNames
<1>8. d \notin Systems
  BY <1>1 DEF Allowed, SystemsHaveNames
<1>9. \A n \in DOMAIN host'.at : host'.at[n] \in Systems =>
        n \in DOMAIN host.at /\ host'.at[n] = host.at[n]
  BY <1>5, <1>6, <1>8
<1>10. ~host'.moved /\ proc.chosen.id \in DOMAIN host.at =>
           /\ ~host.moved
           /\ proc.chosen.id \in DOMAIN host'.at
           /\ host'.at[proc.chosen.id] = host.at[proc.chosen.id]
  BY <1>5, <1>6
<1> QED
  BY <1>1, <1>5, <1>7, <1>9, <1>10, HostStepKeepsAllowed

\* A drive that leaves is not of the system, and the name is marked as moved.
LEMMA DisconnectKeepsAllowed ==
  ASSUME Allowed, NEW name \in Names, Disconnect(name)
  PROVE  Allowed'
<1> DEFINE new == [n \in DOMAIN host.at \ {name} |-> host.at[n]]
<1>1. /\ name \in DOMAIN host.at /\ host.at[name] \notin Systems
      /\ UNCHANGED <<proc, person, erased>>
      /\ host' = [host EXCEPT !.at = new, !.moved = host.moved \/ name = proc.chosen.id]
  BY DEF Disconnect
<1>2. PICK named \in SUBSET Names : host.at \in [named -> Drives]
  BY DEF Allowed, HostIsTyped, Namings
<1>3. new \in [named \ {name} -> Drives]
  BY <1>2
<1>4. new \in Namings
  BY <1>3 DEF Namings
<1>5. (host.moved \/ name = proc.chosen.id) \in BOOLEAN
  BY DEF Allowed, HostIsTyped
<1>6. host'.at = new /\ host'.named = host.named /\ HostIsTyped'
  BY <1>1, <1>4, <1>5 DEF Allowed, HostIsTyped
<1>7. host'.moved = (host.moved \/ name = proc.chosen.id)
  BY <1>1 DEF Allowed, HostIsTyped
<1>8. /\ DOMAIN new = DOMAIN host.at \ {name}
      /\ \A n \in DOMAIN new : new[n] = host.at[n]
  OBVIOUS
<1>9. SystemsHaveNames'
  BY <1>1, <1>6, <1>8 DEF Allowed, SystemsHaveNames
<1>10. \A n \in DOMAIN host'.at : host'.at[n] \in Systems =>
         n \in DOMAIN host.at /\ host'.at[n] = host.at[n]
  BY <1>6, <1>8
<1>11. ~host'.moved /\ proc.chosen.id \in DOMAIN host.at =>
           /\ ~host.moved
           /\ proc.chosen.id \in DOMAIN host'.at
           /\ host'.at[proc.chosen.id] = host.at[proc.chosen.id]
  BY <1>6, <1>7, <1>8
<1>12. host.moved => host'.moved
  BY <1>7
<1> QED
  BY <1>1, <1>6, <1>9, <1>10, <1>11, <1>12, HostStepKeepsAllowed

\* A lock switch changes no name.
LEMMA SwitchKeepsAllowed ==
  ASSUME Allowed, NEW d \in Drives, Switch(d)
  PROVE  Allowed'
<1>1. UNCHANGED <<proc, person, erased>>
  BY DEF Switch
<1>2. /\ host'.at = host.at /\ host'.moved = host.moved /\ host'.named = host.named
      /\ HostIsTyped'
  BY DEF Switch, Allowed, HostIsTyped
<1>3. SystemsHaveNames'
  BY <1>2 DEF Allowed, SystemsHaveNames
<1> QED
  BY <1>1, <1>2, <1>3, HostStepKeepsAllowed

----------------------------------------------------------------------------

\* What is known of the drives holds at every moment of every run.
THEOREM AllowedAlways == Spec => []Allowed
<1>1. Init => Allowed
  BY AllowedInitially
<1>2. Allowed /\ [Next]_vars => Allowed'
  <2> SUFFICES ASSUME Allowed, [Next]_vars PROVE Allowed'
    OBVIOUS
  <2>1. CASE Program
    BY <2>1, PrepareKeepsAllowed, ChooseKeepsAllowed, ElevateKeepsAllowed, ConfirmKeepsAllowed,
       FindAgainKeepsAllowed, UnmountKeepsAllowed, OpenKeepsAllowed, WriteKeepsAllowed
       DEF Program
  <2>2. CASE \E d \in Drives, name \in Names : Connect(d, name)
    BY <2>2, ConnectKeepsAllowed
  <2>3. CASE \E name \in Names : Disconnect(name)
    BY <2>3, DisconnectKeepsAllowed
  <2>4. CASE \E d \in Drives : Switch(d)
    BY <2>4, SwitchKeepsAllowed
  <2>5. CASE UNCHANGED vars
    BY <2>5 DEF vars, Allowed, ProcIsTyped, HostIsTyped, PersonIsTyped, SystemsHaveNames,
       ChosenIsListed, AgreedTo, FoundAgain, OpenedIsAllowed, ErasedWasAllowed, May
  <2> QED
    BY <2>1, <2>2, <2>3, <2>4, <2>5 DEF Next
<1> QED
  BY <1>1, <1>2, PTL DEF Spec

\* The variables of the command keep their types.
THEOREM TypeCorrect == Spec => []TypeOK
BY AllowedAlways, AllowedIsTyped, PTL

\* A drive of the system is erased only where a listing missed it, and, where the
\* first listing marked no drive at all, only after the words of that very drive
\* (check_target, and system_disk_known of write.rs).
THEOREM SystemDiskIsSafeAlways == Spec => []SystemDiskIsSafe
<1>1. Allowed => SystemDiskIsSafe
  BY DEF Allowed, ErasedWasAllowed, May, SystemDiskIsSafe
<1> QED BY <1>1, AllowedAlways, PTL

\* A drive is erased only if it is as the person read it, or if it took the
\* name after the second listing (commands/write.rs, run and confirm).
THEOREM ErasesWhatWasShownAlways == Spec => []ErasesWhatWasShown
<1>1. Allowed => ErasesWhatWasShown
  BY DEF Allowed, ErasedWasAllowed, May, ErasesWhatWasShown
<1> QED BY <1>1, AllowedAlways, PTL

\* A fixed drive is erased only with --force and its words (safety.rs).
THEOREM FixedNeedsForceAlways == Spec => []FixedNeedsForce
<1>1. Allowed => FixedNeedsForce
  BY DEF Allowed, ErasedWasAllowed, May, FixedNeedsForce
<1> QED BY <1>1, AllowedAlways, PTL

\* What is erased has room for the image, and in Windows mode the size that the
\* confirmed layout is for (write.rs, check_fits and same_geometry).
THEOREM HasRoomAlways == Spec => []HasRoom
<1>1. Allowed => HasRoom
  BY DEF Allowed, ErasedWasAllowed, HasRoom
<1> QED BY <1>1, AllowedAlways, PTL

=============================================================================
