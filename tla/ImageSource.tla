---------------------------- MODULE ImageSource ----------------------------
(***************************************************************************)
(* What the write command reads of an image before it needs privilege:     *)
(* whether the file is whole (whole.rs), the mode that it asks for         *)
(* (mode.rs), its tree (source.rs over UdfTree and IsoTree), and then the  *)
(* bytes of a file of the tree, as the copy reads them.                    *)
(***************************************************************************)
EXTENDS UdfTree, IsoTree

CONSTANTS
  Images,    \* images: whole ones with the tree that each holds, and damaged ones
  Args,      \* the mode and the options that a person gives
  INSTALLS,  \* the paths of an install image
  Lower,     \* a name in lower case
  Apps,      \* names that end in .app
  Buffers    \* how much of a file one read asks for

VARIABLES
  args,  \* the arguments of write
  file   \* Extents: the file that is read, and where the read is in it

vars == <<image, pc, result, walk, udf, iso, args, file>>

NoFile == [node |-> Node(<<>>, "none", 0, <<>>), index |-> 1, offset |-> 0, got |-> <<>>]

Init ==
  /\ image \in Images /\ args \in Args
  /\ pc = "whole" /\ result = "none"
  /\ walk = [stack |-> <<>>, seen |-> {}, nodes |-> {}]
  /\ UdfInit /\ IsoInit /\ file = NoFile

Others == UNCHANGED <<image, args, walk, udf, iso, file>>

----------------------------------------------------------------------------
(* prepare.                                                                *)

\* volume_bytes: what the first primary descriptor says, if the descriptors
\* before it are of ISO 9660 and do not end.
VolumeBytes ==
  LET passed(at) == SectorIn(at) /\ IsIso(at) /\ Descriptor(at).type \notin {"primary", "terminator"}
      at == {n \in FIRST .. FIRST + MOST - 1 :
               /\ SectorIn(n) /\ IsIso(n) /\ Descriptor(n).type = "primary"
               /\ \A before \in FIRST .. n - 1 : passed(before)}
  IN  {Descriptor(n).blocks * Descriptor(n).block : n \in at}

\* refuse_incomplete.  A path that is not a file goes on.
RefuseIncomplete ==
  /\ pc = "whole"
  /\ IF image.path = "file" /\ \E bytes \in VolumeBytes : bytes > image.length
     THEN Fault("Incomplete") ELSE pc' = "mode" /\ UNCHANGED result
  /\ Others

\* The job of raw mode, with what prepare refuses for it.
RawJob == Fault(IF args.options THEN "WindowsOption"
                ELSE IF image.path # "file" THEN "Unreadable"
                ELSE IF image.length = 0 THEN "Image" ELSE "Raw")

First == IF SectorIn(0) THEN Descriptor(0).id ELSE "short"

\* mode_of_file and mode_of, up to the tree of the image.
ChooseMode ==
  /\ pc = "mode"
  /\ \/ args.mode = "raw" /\ RawJob
     \/ args.mode = "windows" /\ image.path = "file" /\ pc' = "tree" /\ UNCHANGED result
     \/ args.mode = "windows" /\ image.path # "file" /\ Fault("Unreadable")
     \/ args.mode = "none" /\ image.path = "dir" /\ Fault("Image")
     \/ /\ args.mode = "none"
        /\ \/ image.path = "app" /\ Fault("MacosMedia")
           \/ image.path = "file" /\ IF First = "xar" \/ image.koly THEN Fault("MacosMedia")
                                    ELSE IF First = "table" THEN RawJob
                                    ELSE pc' = "tree" /\ UNCHANGED result
  /\ Others

Folded(path) == [k \in DOMAIN path |-> IF path[k] \in DOMAIN Lower THEN Lower[path[k]] ELSE path[k]]

Installer == \E n \in walk.nodes : n.kind = "dir" /\ Len(n.path) = 1 /\ n.path[1] \in Apps
HasInstall == \E n \in walk.nodes : n.kind = "file" /\ Folded(n.path) \in INSTALLS

\* mode_of, with the tree, and decide; or windows_job.
Decide ==
  /\ pc = "built"
  /\ IF result = "NoTree" THEN Fault(IF args.mode = "windows" THEN "Image" ELSE "NoMode")
     ELSE IF args.mode = "none" /\ Installer THEN Fault("MacosMedia")
     ELSE IF HasInstall THEN pc' = "source" /\ result' = "Windows"
     ELSE Fault(IF args.mode = "windows" THEN "NoInstall" ELSE "NoMode")
  /\ Others

----------------------------------------------------------------------------
(* FileSource of IsoSource.                                                *)

Files == {n \in walk.nodes : n.kind = "file"}

Open ==
  /\ pc = "source"
  /\ \E n \in Files : file' = [NoFile EXCEPT !.node = n]
  /\ pc' = "read"
  /\ UNCHANGED <<image, args, walk, udf, iso, result>>

ExtentLeft == file.node.extents[file.index].length - file.offset

\* Extents::read past an extent that is read.
NextExtent ==
  /\ pc = "read" /\ file.index <= Len(file.node.extents) /\ ExtentLeft = 0
  /\ file' = [file EXCEPT !.index = @ + 1, !.offset = 0]
  /\ UNCHANGED <<image, args, walk, udf, iso, pc, result>>

\* Extents::read, from one extent.
Read ==
  /\ pc = "read" /\ file.index <= Len(file.node.extents) /\ ExtentLeft > 0
  /\ \E buffer \in Buffers :
       LET extent == file.node.extents[file.index]
           n      == IF ExtentLeft < buffer THEN ExtentLeft ELSE buffer
           at     == extent.at + file.offset
           part   == IF extent.zero THEN [k \in 1 .. n |-> [u |-> "zero"]] ELSE Bytes(at, n)
       IN  IF ~extent.zero /\ ~InImage(at, n) THEN Fault("Source") /\ UNCHANGED file
           ELSE /\ file' = [file EXCEPT !.offset = @ + n, !.got = @ \o part]
                /\ UNCHANGED <<pc, result>>
  /\ UNCHANGED <<image, args, walk, udf, iso>>

EndOfFile ==
  /\ pc = "read" /\ file.index > Len(file.node.extents)
  /\ Fault("Windows")
  /\ Others

Next ==
  \/ RefuseIncomplete \/ ChooseMode \/ Decide \/ Open \/ NextExtent \/ Read \/ EndOfFile
  \/ UdfNext /\ UNCHANGED <<iso, args, file>>
  \/ IsoNext /\ UNCHANGED <<udf, args, file>>

\* The program goes on by itself.
Spec == Init /\ [][Next]_vars /\ WF_vars(Next)

----------------------------------------------------------------------------
(* Properties                                                              *)

Built == pc \in {"built", "source", "read"} /\ result # "NoTree"

Content(extents) ==
  LET part(x) == IF x.zero THEN [k \in 1 .. x.length |-> [u |-> "zero"]] ELSE Bytes(x.at, x.length)
  IN  FlattenSeq([k \in 1 .. Len(extents) |-> part(extents[k])])

\* An image that is whole is read as the tree that it holds, with no fault, and
\* reads of a file give its bytes, whatever each read asks for: through old and
\* newer descriptors, deleted entries, runs that part a descriptor, areas that
\* chain, and the names of Rock Ridge, of Joliet or of neither.
TreeReadsBack == \A tree \in image.holds :
  /\ result \notin {"Image", "Incomplete", "Source"}
  /\ Built => tree = {[path |-> n.path, kind |-> n.kind, bytes |-> Content(n.extents)] : n \in walk.nodes}
  /\ pc = "end" /\ file # NoFile =>
       [path |-> file.node.path, kind |-> "file", bytes |-> file.got] \in tree

\* Whatever was damaged, a tree that is taken has one node for each path, a
\* directory above each node, no directory twice, and for each file the extents
\* that its size says, inside the image; and no read of it fails.
TakenTreeIsSound ==
  /\ Built =>
       /\ \A a, b \in walk.nodes : a.path = b.path => a = b
       /\ \A n \in walk.nodes : Len(n.path) \in 1 .. DEEPEST + 1
            /\ (Len(n.path) > 1 => \E d \in walk.nodes : d.kind = "dir" /\ d.path = Front(n.path))
       /\ Cardinality(walk.seen) = 1 + Cardinality({n \in walk.nodes : n.kind = "dir"})
       /\ \A n \in Files :
            /\ \A k \in DOMAIN n.extents : n.extents[k].zero
                 \/ InImage(n.extents[k].at, n.extents[k].length)
            /\ Len(Content(n.extents)) = n.size
  /\ result # "Source"

\* The reader comes to an end, whatever leads back to itself in the image.
ImageEnds == <>(pc = "end")

=============================================================================
