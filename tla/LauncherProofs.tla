----------------------------- MODULE LauncherProofs -----------------------------
(***************************************************************************)
(* Why an incomplete cache is being unpacked or was left so, for any       *)
(* number of starts and files.  No start is ahead of a file that no one    *)
(* has opened, and a file that is not whole has a writer; so once the      *)
(* start that made the directory is through, and no one writes, all the    *)
(* files are whole.  An unpacking that is cut short breaks the second.     *)
(***************************************************************************)
EXTENDS Launcher, TLAPS

Typed ==
  /\ pc \in [Launchers -> {"off", "walking", "writing", "ready", "running", "failed", "ended"}]
  /\ next \in [Launchers -> 0..(Embedded + 1)]
  /\ cacheDir \in BOOLEAN /\ cutShort \in BOOLEAN
  /\ content \in [Files -> {"absent", "partial", "whole"}]
  /\ writer \in [Files -> Launchers \cup {"nobody"}]

(* A start that writes is at a file, and one that walked has a directory.  *)
AtFile == \A l \in Launchers : pc[l] = "writing" => next[l] \in Files
Made == cacheDir => \E l \in Launchers : next[l] # 0

(* The walk is in order, and it opens what it passes.                      *)
Opened ==
  \A l \in Launchers, f \in Files :
    (f < next[l] \/ (pc[l] = "writing" /\ f = next[l])) => content[f] # "absent"

(* Unless an unpacking was cut short, who began to walk walks to the end,  *)
(* and who truncated a file last is about to write it.                     *)
WalksOn ==
  \A l \in Launchers : next[l] # 0 => Unpacking(l) \/ next[l] = Embedded + 1
Truncated(f) ==
  \E l \in Launchers : writer[f] = l /\ pc[l] = "writing" /\ next[l] = f
Healed ==
  ~cutShort => WalksOn /\ \A f \in Files : content[f] = "partial" => Truncated(f)

Inv == Typed /\ AtFile /\ Made /\ Opened /\ Healed

LEMMA FilesAre ==
  /\ Embedded \in Nat /\ Files = 1..Embedded
  /\ 0 \in 0..(Embedded + 1) /\ 1 \in 0..(Embedded + 1)
  /\ \A f \in Files : f \in Nat /\ f # 0 /\ f < Embedded + 1
                      /\ f \in 0..(Embedded + 1) /\ f + 1 \in 0..(Embedded + 1)
  BY FilesAssumption DEF Embedded, Files

LEMMA InitEstablishes == Init => Inv
<1> SUFFICES ASSUME Init PROVE Inv
  OBVIOUS
<1>1. Typed /\ AtFile /\ Made
  BY FilesAre DEF Init, Typed, AtFile, Made
<1>2. Opened /\ Healed
  BY FilesAre DEF Init, Opened, Healed, WalksOn, Typed
<1> QED
  BY <1>1, <1>2 DEF Inv

-----------------------------------------------------------------------------
(* Steps that only move a start: from "off", or out of an unpacking, which *)
(* is through or has been cut short.                                       *)
LEMMA MovesKeep ==
  ASSUME Inv, NEW l \in Launchers, NEW to \in {"walking", "ready", "running", "failed", "ended"},
         Goes(l, to), UNCHANGED <<next, cacheDir, content, writer>>,
         cutShort' \in BOOLEAN, cutShort => cutShort',
         \/ cutShort'
         \/ ~Unpacking(l)
         \/ pc[l] = "walking" /\ next[l] = Embedded + 1
  PROVE  Inv'
<1>1. Typed' /\ AtFile' /\ Made'
  BY DEF Inv, Goes, Typed, AtFile, Made
<1>2. Opened'
  BY DEF Inv, Goes, Typed, Opened
<1>3. Healed'
  <2> SUFFICES ASSUME ~cutShort' PROVE WalksOn' /\ \A f \in Files : content[f] = "partial" => Truncated(f)'
    BY DEF Healed
  <2>1. WalksOn /\ \A f \in Files : content[f] = "partial" => Truncated(f)
    BY DEF Inv, Healed
  <2>2. WalksOn'
    BY <2>1 DEF Inv, Typed, Goes, WalksOn, Unpacking
  <2>3. \A f \in Files : Truncated(f) => Truncated(f)'
    BY DEF Inv, Typed, Goes, Truncated, Unpacking
  <2> QED
    BY <2>1, <2>2, <2>3
<1> QED
  BY <1>1, <1>2, <1>3 DEF Inv

LEMMA MakesDirKeeps ==
  ASSUME Inv, NEW l \in Launchers, MakesDir(l)
  PROVE  Inv'
<1>1. Typed' /\ AtFile' /\ Made'
  BY FilesAre DEF Inv, MakesDir, Typed, AtFile, Made
<1>2. Opened'
  BY FilesAre DEF Inv, MakesDir, Typed, Opened
<1>3. Healed'
  BY DEF Inv, MakesDir, Typed, Healed, WalksOn, Truncated, Unpacking
<1> QED
  BY <1>1, <1>2, <1>3 DEF Inv

LEMMA OpensFileKeeps ==
  ASSUME Inv, NEW l \in Launchers, OpensFile(l)
  PROVE  Inv'
<1> DEFINE f == next[l]
<1>1. /\ f \in Files /\ pc[l] = "walking" /\ Goes(l, "writing")
      /\ content' = [content EXCEPT ![f] = "partial"]
      /\ writer' = [writer EXCEPT ![f] = l]
      /\ UNCHANGED <<next, cacheDir, cutShort>>
  BY FilesAre DEF OpensFile
<1>2. Typed' /\ AtFile' /\ Made'
  BY <1>1 DEF Inv, Goes, Typed, AtFile, Made
<1>3. Opened'
  BY <1>1 DEF Inv, Goes, Typed, Opened
<1>4. Healed'
  <2> SUFFICES ASSUME ~cutShort'
               PROVE  WalksOn' /\ \A g \in Files : content'[g] = "partial" => Truncated(g)'
    BY DEF Healed
  <2>1. WalksOn /\ \A g \in Files : content[g] = "partial" => Truncated(g)
    BY <1>1 DEF Inv, Healed
  <2>2. WalksOn'
    BY <1>1, <2>1 DEF Inv, Typed, Goes, WalksOn, Unpacking
  <2>3. ASSUME NEW g \in Files, g = f PROVE Truncated(g)'
    BY <1>1, <2>3 DEF Inv, Typed, Goes, Truncated
  <2>4. ASSUME NEW g \in Files \ {f}, content'[g] = "partial" PROVE Truncated(g)'
    BY <1>1, <2>1, <2>4 DEF Inv, Typed, Goes, Truncated
  <2> QED
    BY <2>2, <2>3, <2>4
<1> QED
  BY <1>2, <1>3, <1>4 DEF Inv

LEMMA WritesFileKeeps ==
  ASSUME Inv, NEW l \in Launchers, WritesFile(l)
  PROVE  Inv'
<1> DEFINE f == next[l]
<1>1. /\ f \in Files /\ pc[l] = "writing" /\ Goes(l, "walking")
      /\ content' = IF writer[f] = l THEN [content EXCEPT ![f] = "whole"] ELSE content
      /\ next' = [next EXCEPT ![l] = @ + 1]
      /\ UNCHANGED <<cacheDir, writer, cutShort>>
  BY DEF Inv, AtFile, WritesFile
<1>2. Typed' /\ AtFile'
  BY <1>1, FilesAre DEF Inv, Goes, Typed, AtFile
<1>3. Made'
  <2>1. next'[l] # 0
    BY <1>1, FilesAre DEF Inv, Typed
  <2> QED
    BY <2>1 DEF Made
<1>4. Opened'
  <2> SUFFICES ASSUME NEW k \in Launchers, NEW g \in Files,
                      g < next'[k] \/ (pc'[k] = "writing" /\ g = next'[k])
               PROVE  content'[g] # "absent"
    BY DEF Opened
  <2>1. content[g] # "absent" => content'[g] # "absent"
    BY <1>1 DEF Inv, Typed
  <2>2. CASE k = l
    <3>1. g < f + 1
      BY <1>1, <2>2 DEF Inv, Typed, Goes
    <3>2. g < f \/ g = f
      BY <1>1, <3>1, FilesAre
    <3> QED
      BY <1>1, <2>1, <2>2, <3>2 DEF Inv, Opened
  <2>3. CASE k # l
    BY <1>1, <2>1, <2>3 DEF Inv, Typed, Goes, Opened
  <2> QED
    BY <2>2, <2>3
<1>5. Healed'
  <2> SUFFICES ASSUME ~cutShort' PROVE WalksOn' /\ \A g \in Files : content'[g] = "partial" => Truncated(g)'
    BY DEF Healed
  <2>1. WalksOn /\ \A g \in Files : content[g] = "partial" => Truncated(g)
    BY <1>1 DEF Inv, Healed
  <2>2. WalksOn'
    BY <1>1, <2>1 DEF Inv, Typed, Goes, WalksOn, Unpacking
  <2>3. ASSUME NEW g \in Files, content'[g] = "partial" PROVE Truncated(g)'
    <3>1. PICK k \in Launchers : writer[g] = k /\ pc[k] = "writing" /\ next[k] = g
      BY <1>1, <2>1, <2>3 DEF Inv, Typed, Truncated
    <3>2. k # l
      BY <1>1, <2>3, <3>1 DEF Inv, Typed
    <3> QED
      BY <1>1, <3>1, <3>2 DEF Inv, Typed, Goes, Truncated
  <2> QED
    BY <2>2, <2>3
<1> QED
  BY <1>2, <1>3, <1>4, <1>5 DEF Inv

-----------------------------------------------------------------------------
LEMMA StepKeeps == Inv /\ [Next]_vars => Inv'
<1> SUFFICES ASSUME Inv, [Next]_vars PROVE Inv'
  OBVIOUS
<1>1. ASSUME NEW l \in Launchers, Starts(l) PROVE Inv'
  BY <1>1, MovesKeep DEF Starts, Inv, Typed, Unpacking
<1>2. ASSUME NEW l \in Launchers, Unpacked(l) PROVE Inv'
  BY <1>2, MovesKeep DEF Unpacked, Inv, Typed
<1>3. ASSUME NEW l \in Launchers, UnpackFails(l) \/ Interrupted(l) PROVE Inv'
  BY <1>3, MovesKeep DEF UnpackFails, Interrupted
<1>4. ASSUME NEW l \in Launchers, Runs(l) PROVE Inv'
  BY <1>4, MovesKeep DEF Runs, Inv, Typed, Unpacking
<1>5. CASE UNCHANGED vars
  BY <1>5 DEF vars, Inv, Typed, AtFile, Made, Opened, Healed, WalksOn, Truncated, Unpacking
<1> QED
  BY <1>1, <1>2, <1>3, <1>4, <1>5, MakesDirKeeps, OpensFileKeeps, WritesFileKeeps
     DEF Next, Unpacks

(* A cache that is there and not complete is being unpacked, or was left   *)
(* so by an unpacking that was cut short, however many starts unpack into  *)
(* it at once (unpack of main.go, which does not lock the directory).      *)
THEOREM IncompleteIsExplained == Spec => []IncompleteHasCause
<1>1. Inv => IncompleteHasCause
  <2> SUFFICES ASSUME Inv, cacheDir, ~cutShort, \A l \in Launchers : ~Unpacking(l)
               PROVE  Complete
    BY DEF IncompleteHasCause
  <2>1. PICK l \in Launchers : next[l] = Embedded + 1
    BY DEF Inv, Made, Healed, WalksOn
  <2> SUFFICES ASSUME NEW f \in Files PROVE content[f] = "whole"
    BY DEF Complete
  <2>2. content[f] # "absent"
    BY <2>1, FilesAre DEF Inv, Opened
  <2>3. content[f] # "partial"
    BY DEF Inv, Healed, Truncated, Unpacking
  <2> QED
    BY <2>2, <2>3 DEF Inv, Typed
<1> QED
  BY <1>1, InitEstablishes, StepKeeps, PTL DEF Spec

===============================================================================
