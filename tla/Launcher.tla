--------------------------------- MODULE Launcher ---------------------------------
(***************************************************************************)
(* main.go: every start of the program unpacks the payload into the cache  *)
(* of its version, if the directory is not there, and runs what it finds.  *)
(* Several starts may be under way at once, and one may be cut short.      *)
(***************************************************************************)
EXTENDS Naturals

CONSTANTS
  Launchers,   \* the starts of the program
  NodeBin,     \* how many files node-bin/* has
  Payload      \* how many files payload/* has

ASSUME FilesAssumption == NodeBin \in Nat /\ Payload \in Nat

Files == 1..(NodeBin + Payload)   \* in the order of the walk

VARIABLES
  pc,        \* pc[l]: how far start l has come
  next,      \* next[l]: the entry of the walk it is at
  cacheDir,  \* does the cache directory exist
  content,   \* content[f]: "absent", "partial", "whole"
  writer,    \* writer[f]: who opened, and so truncated, f last
  cutShort   \* history: an unpacking was interrupted, or failed

vars == <<pc, next, cacheDir, content, writer, cutShort>>

(* How many files embeddedFiles has.  (The first form forgets one of the   *)
(* patterns of go:embed.)                                                  *)
NodeOnly == NodeBin
Embedded == NodeBin + Payload

Init ==
  /\ pc = [l \in Launchers |-> "off"]
  /\ next = [l \in Launchers |-> 0]
  /\ cacheDir = FALSE
  /\ content = [f \in Files |-> "absent"]
  /\ writer = [f \in Files |-> "nobody"]
  /\ cutShort = FALSE

-----------------------------------------------------------------------------
Goes(l, to) == pc' = [pc EXCEPT ![l] = to]

(* os.Stat.                                                                *)
Starts(l) ==
  /\ pc[l] = "off"
  /\ Goes(l, IF cacheDir THEN "ready" ELSE "walking")
  /\ UNCHANGED <<next, cacheDir, content, writer, cutShort>>

(* os.MkdirAll for the first directory of the walk, the cache itself.      *)
MakesDir(l) ==
  /\ pc[l] = "walking" /\ next[l] = 0
  /\ cacheDir' = TRUE
  /\ next' = [next EXCEPT ![l] = 1]
  /\ UNCHANGED <<pc, content, writer, cutShort>>

(* os.WriteFile truncates the file ...                                     *)
OpensFile(l) ==
  /\ pc[l] = "walking" /\ next[l] \in 1..Embedded
  /\ LET f == next[l] IN
     /\ content' = [content EXCEPT ![f] = "partial"]
     /\ writer' = [writer EXCEPT ![f] = l]
  /\ Goes(l, "writing")
  /\ UNCHANGED <<next, cacheDir, cutShort>>

(* ... and writes it.  If someone truncated it meanwhile, what was written *)
(* before is missing until that one is done.                               *)
WritesFile(l) ==
  /\ pc[l] = "writing"
  /\ LET f == next[l] IN
       content' = IF writer[f] = l THEN [content EXCEPT ![f] = "whole"] ELSE content
  /\ next' = [next EXCEPT ![l] = @ + 1]
  /\ Goes(l, "walking")
  /\ UNCHANGED <<cacheDir, writer, cutShort>>

Unpacked(l) ==
  /\ pc[l] = "walking" /\ next[l] = Embedded + 1
  /\ Goes(l, "ready")
  /\ UNCHANGED <<next, cacheDir, content, writer, cutShort>>

(* An error ends the walk, and unpack drops it: a full disk, or a file     *)
(* that is being executed.                                                 *)
UnpackFails(l) ==
  /\ pc[l] \in {"walking", "writing"}
  /\ Goes(l, "ready")
  /\ cutShort' = TRUE
  /\ UNCHANGED <<next, cacheDir, content, writer>>

(* The process is killed while it unpacks.                                 *)
Interrupted(l) ==
  /\ pc[l] \in {"walking", "writing"}
  /\ Goes(l, "ended")
  /\ cutShort' = TRUE
  /\ UNCHANGED <<next, cacheDir, content, writer>>

(* cmd.Run: "failed" if a file that it needs is not all there.             *)
Complete == \A f \in Files : content[f] = "whole"
Runs(l) ==
  /\ pc[l] = "ready"
  /\ Goes(l, IF Complete THEN "running" ELSE "failed")
  /\ UNCHANGED <<next, cacheDir, content, writer, cutShort>>

Unpacks(l) == MakesDir(l) \/ OpensFile(l) \/ WritesFile(l) \/ Unpacked(l)

Next == \E l \in Launchers : \/ Starts(l)
                             \/ Unpacks(l)
                             \/ UnpackFails(l)
                             \/ Interrupted(l)
                             \/ Runs(l)

Spec == Init /\ [][Next]_vars /\ \A l \in Launchers : WF_vars(Unpacks(l))

-----------------------------------------------------------------------------
Unpacking(l) == pc[l] \in {"walking", "writing"}

(* A cache that is there and not complete is being unpacked, or was left   *)
(* so by an unpacking that was cut short: starts that overtake each other  *)
(* do not leave it so (the directory exists from the first step on, and    *)
(* later starts take its existence for a complete payload).                *)
IncompleteHasCause ==
  cacheDir /\ ~Complete => cutShort \/ \E l \in Launchers : Unpacking(l)

(* The cache gets complete, unless an unpacking is cut short.              *)
GetsComplete == cacheDir ~> (Complete \/ cutShort)
===============================================================================
