-------------------------- MODULE LogRotationProofs --------------------------
(* That the log file in use is kept, that the link follows it and that old   *)
(* files are taken away, for any number of days, names, files to keep and    *)
(* faults.                                                                   *)
EXTENDS LogRotation, FiniteSetTheorems, SequenceTheorems,
        NatInduction, TLAPS

\* The types, and that what a rotation opens has a name within the bound.
LogTypes ==
    /\ LogTypeOK /\ IsFiniteSet(files)
    /\ w.pc \in {"idle", "naming", "opening"} => w.fh = "none"
    /\ w.pc # "idle" => w.baseFn \in 1..Days
    /\ w.pc = "naming" =>
          \E h \in w.generation..MaxGen[w.baseFn] : <<w.baseFn, h>> \notin files
    /\ w.pc \notin {"idle", "naming"} => filename \in Name
    /\ rl.outFh # "none" => curFn \in Name

LEMMA NameFacts ==
    ASSUME NEW d \in 1..Days, NEW g \in Nat
    PROVE  /\ MaxGen[d] \in Nat
           /\ <<d, g>> \in Name <=> g <= MaxGen[d]
    BY RotationAssumption DEF Name

LEMMA LogTypesInit == Init => LogTypes
<1> SUFFICES ASSUME Init PROVE LogTypes
    OBVIOUS
<1>1. IsFiniteSet(files)
    BY FS_EmptySet DEF Init
<1>2. LogTypeOK
  <2>1. /\ rl \in [curBaseFn : 0..Days, generation : Nat, outFh : Handle]
        /\ rl.outFh = "none"
      BY RotationAssumption DEF Init, NewRL, Handle
  <2>2. /\ w \in [pc : Steps, baseFn : 0..Days, generation : Nat, fh : Handle]
        /\ w.fh = "none"
      BY RotationAssumption DEF Init, Idle, Handle, Steps
  <2>3. day \in 1..Days /\ faults \in 0..MaxFaults
      BY RotationAssumption DEF Init
  <2> QED BY <2>1, <2>2, <2>3 DEF Init, LogTypeOK
<1> QED BY <1>1, <1>2 DEF Init, LogTypes, Idle, NewRL

\* What only the disk and the clock change.
LEMMA QuietTypes ==
    ASSUME LogTypes, NextDay \/ Start \/ CloseLog \/ WritePlain
    PROVE  LogTypes'
<1> USE RotationAssumption DEF LogTypes, disk
<1>1. CASE NextDay
  <2>1. day' \in 1..Days
      BY <1>1 DEF NextDay, LogTypeOK
  <2> QED BY <1>1, <2>1 DEF NextDay, LogTypeOK, curFn, filename
<1>2. CASE Start
    BY <1>2 DEF Start, LogTypeOK, curFn, filename
<1>3. CASE CloseLog
  <2>1. /\ rl' \in [curBaseFn : 0..Days, generation : Nat, outFh : Handle]
        /\ rl'.outFh = "none"
      BY <1>3 DEF CloseLog, LogTypeOK, Handle
  <2> QED BY <1>3, <2>1 DEF CloseLog, LogTypeOK, curFn, filename
<1>4. CASE WritePlain
  <2>1. full' \subseteq files
      BY <1>4 DEF WritePlain, AppendTo, LogTypeOK
  <2> QED BY <1>4, <2>1 DEF WritePlain, LogTypeOK, curFn, filename
<1> QED BY <1>1, <1>2, <1>3, <1>4

LEMMA ExitTypes == ASSUME LogTypes, Exit PROVE LogTypes'
<1> USE RotationAssumption DEF LogTypes, disk
<1>1. /\ rl' \in [curBaseFn : 0..Days, generation : Nat, outFh : Handle]
      /\ rl'.outFh = "none"
    BY DEF Exit, NewRL, Handle
<1>2. /\ w' \in [pc : Steps, baseFn : 0..Days, generation : Nat, fh : Handle]
      /\ w'.pc = "idle" /\ w'.fh = "none"
    BY DEF Exit, Idle, Handle, Steps
<1>3. faults' \in 0..MaxFaults /\ full' \subseteq files
    BY DEF Exit, Fault, OpenedAgain, LogTypeOK
<1> QED BY <1>1, <1>2, <1>3 DEF Exit, LogTypeOK

\* The steps of a rotation up to the file that is opened.
LEMMA BeginTypes == ASSUME LogTypes, BeginRotation PROVE LogTypes'
<1> USE RotationAssumption DEF LogTypes, disk
<1> DEFINE g == IF rl.curBaseFn # day THEN 0 ELSE rl.generation + 1
<1>1. g \in Nat /\ day \in 1..Days
    BY DEF LogTypeOK
<1>2. /\ w'.baseFn = day /\ w'.generation = g /\ w'.fh = "none"
      /\ w' \in [pc : Steps, baseFn : 0..Days, generation : Nat, fh : Handle]
      /\ w'.pc = IF sizeRotation THEN "naming" ELSE "opening"
    BY <1>1 DEF BeginRotation, Steps, Handle
<1>3. /\ sizeRotation => \E h \in g..MaxGen[day] : <<day, h>> \notin files
      /\ ~sizeRotation => g = 0
    BY DEF BeginRotation, InBound
<1>4. <<day, 0>> \in Name
    BY <1>1, NameFacts
<1> HIDE DEF g
<1> QED BY <1>1, <1>2, <1>3, <1>4 DEF BeginRotation, LogTypeOK, filename, curFn

LEMMA NameTypes == ASSUME LogTypes, NextName PROVE LogTypes'
<1> USE RotationAssumption DEF LogTypes, disk
<1>1. /\ w.pc = "naming" /\ w.baseFn \in 1..Days /\ w.generation \in Nat
      /\ w \in [pc : Steps, baseFn : 0..Days, generation : Nat, fh : Handle]
    BY DEF NextName, At, LogTypeOK
<1>2. PICK h \in w.generation..MaxGen[w.baseFn] : <<w.baseFn, h>> \notin files
    BY <1>1
<1>3. MaxGen[w.baseFn] \in Nat
    BY <1>1, NameFacts
<1>4. CASE filename \in files
  <2>1. w' = [w EXCEPT !.generation = @ + 1]
      BY <1>4 DEF NextName
  <2>2. /\ w'.pc = "naming" /\ w'.baseFn = w.baseFn /\ w'.fh = w.fh
        /\ w'.generation = w.generation + 1
        /\ w' \in [pc : Steps, baseFn : 0..Days, generation : Nat, fh : Handle]
      BY <1>1, <2>1
  <2>3. h # w.generation
      BY <1>2, <1>4 DEF filename
  <2>4. h \in w'.generation..MaxGen[w'.baseFn] /\ <<w'.baseFn, h>> \notin files
      BY <1>1, <1>2, <1>3, <2>2, <2>3
  <2>5. w'.fh # "file"
      BY <1>1, <2>2
  <2> QED BY <1>1, <2>2, <2>4, <2>5 DEF NextName, LogTypeOK, filename, curFn
<1>5. CASE filename \notin files
  <2>1. w' = [w EXCEPT !.pc = "opening"]
      BY <1>5 DEF NextName, Go
  <2>2. /\ w'.pc = "opening" /\ w'.baseFn = w.baseFn /\ w'.fh = w.fh
        /\ w'.generation = w.generation
        /\ w' \in [pc : Steps, baseFn : 0..Days, generation : Nat, fh : Handle]
      BY <1>1, <2>1 DEF Steps
  <2>3. filename \in Name
      BY <1>1, <1>2, <1>3, NameFacts DEF filename
  <2> QED BY <1>1, <2>2, <2>3 DEF NextName, LogTypeOK, filename, curFn
<1> QED BY <1>4, <1>5

LEMMA OpenTypes == ASSUME LogTypes, Open \/ OpenFails PROVE LogTypes'
<1> USE RotationAssumption DEF LogTypes, disk
<1>1. /\ w.pc = "opening" /\ filename \in Name
      /\ w \in [pc : Steps, baseFn : 0..Days, generation : Nat, fh : Handle]
    BY DEF Open, OpenFails, At, LogTypeOK
<1>2. CASE Open
  <2>1. /\ w'.pc = "locking" /\ w'.baseFn = w.baseFn /\ w'.fh = "file"
        /\ w'.generation = w.generation
        /\ w' \in [pc : Steps, baseFn : 0..Days, generation : Nat, fh : Handle]
      BY <1>1, <1>2 DEF Open, Steps, Handle
  <2>2. filename' = filename
      BY <2>1 DEF filename
  <2>3. /\ files' = files \cup {filename} /\ IsFiniteSet(files')
      BY <1>2, FS_AddElement DEF Open
  <2>4. curFn' = curFn
      BY <1>2 DEF Open, curFn
  <2>5. LogTypeOK'
      BY <1>1, <1>2, <2>1, <2>2, <2>3, <2>4 DEF Open, LogTypeOK
  <2> QED BY <1>1, <1>2, <2>1, <2>2, <2>3, <2>4, <2>5 DEF Open
<1>3. CASE OpenFails
  <2>1. /\ w'.pc = "idle" /\ w'.fh = "none"
        /\ w' \in [pc : Steps, baseFn : 0..Days, generation : Nat, fh : Handle]
      BY <1>3 DEF OpenFails, Idle, Steps, Handle
  <2>2. faults' \in 0..MaxFaults
      BY <1>3 DEF OpenFails, Fault, LogTypeOK
  <2>3. curFn' = curFn
      BY <1>3 DEF OpenFails, curFn
  <2>4. LogTypeOK'
      BY <1>3, <2>1, <2>2, <2>3 DEF OpenFails, LogTypeOK
  <2> QED BY <1>3, <2>1, <2>3, <2>4 DEF OpenFails
<1> QED BY <1>2, <1>3

\* The steps of rotate_nolock, each of which goes to the next.
RotateStep ==
    \/ Lock \/ LockThere \/ Symlink \/ SymlinkFails \/ Rename \/ RenameFails
    \/ Purge \/ Unlock

LEMMA RotateMoves ==
    ASSUME LogTypes, RotateStep
    PROVE  /\ w.pc \notin {"idle", "naming", "opening", "switching"}
           /\ w'.pc \in Steps \ {"idle", "naming", "opening"}
           /\ w' = [w EXCEPT !.pc = w'.pc]
           /\ w' \in [pc : Steps, baseFn : 0..Days, generation : Nat, fh : Handle]
           /\ w'.fh = w.fh /\ w'.baseFn = w.baseFn
           /\ UNCHANGED <<filename, curFn, day, files, full, running, rl>>
           /\ filename \in Name
<1> USE DEF Go, At
<1>1. w \in [pc : Steps, baseFn : 0..Days, generation : Nat, fh : Handle]
    BY DEF LogTypes, LogTypeOK
<1>2. \E pc \in Steps \ {"idle", "naming", "opening"} : w' = [w EXCEPT !.pc = pc]
    BY DEF RotateStep, Lock, LockThere, Symlink, SymlinkFails, Rename,
           RenameFails, Purge, Unlock, Steps
<1>3. /\ w.pc \notin {"idle", "naming", "opening", "switching"}
      /\ UNCHANGED <<day, files, full, running, rl>>
    BY DEF RotateStep, Lock, LockThere, Symlink, SymlinkFails, Rename,
           RenameFails, Purge, Unlock, disk
<1>4. PICK pc \in Steps \ {"idle", "naming", "opening"} : w' = [w EXCEPT !.pc = pc]
    BY <1>2
<1>5. /\ w'.pc = pc /\ w'.fh = w.fh /\ w'.baseFn = w.baseFn
      /\ w'.generation = w.generation
      /\ w' \in [pc : Steps, baseFn : 0..Days, generation : Nat, fh : Handle]
    BY <1>1, <1>4
<1>6. filename \in Name
    BY <1>3 DEF LogTypes
<1> QED BY <1>3, <1>4, <1>5, <1>6 DEF filename, curFn

LEMMA RotateTypes == ASSUME LogTypes, RotateStep PROVE LogTypes'
<1> USE RotationAssumption DEF LogTypes, disk
<1>1. faults' \in 0..MaxFaults /\ complained' \in BOOLEAN
  <2>1. complained' \in {complained, TRUE} /\ (faults' = faults \/ Fault)
      BY DEF RotateStep, Lock, LockThere, Symlink, SymlinkFails, Rename,
             RenameFails, Purge, Unlock
  <2>2. faults \in 0..MaxFaults /\ complained \in BOOLEAN
      BY DEF LogTypeOK
  <2>3. faults' \in 0..MaxFaults
      BY <2>1, <2>2 DEF Fault
  <2> QED BY <2>1, <2>2, <2>3
<1>2. filename \in Name
    BY RotateMoves
<1>3. locks' \subseteq Name /\ temps' \subseteq Name
      /\ link' \in Name \union {<<0, 0>>}
    BY <1>2 DEF RotateStep, Lock, LockThere, Symlink, SymlinkFails, Rename,
           RenameFails, Purge, Unlock, LogTypeOK
<1>4. purgers' \subseteq (SUBSET Name)
  <2>1. ToUnlink(files) \subseteq Name
      BY DEF LogTypeOK, ToUnlink
  <2>2. purgers' = purgers \/ purgers' \subseteq purgers \cup {ToUnlink(files)}
      BY DEF RotateStep, Lock, LockThere, Symlink, SymlinkFails, Rename,
             RenameFails, Purge, Unlock
  <2> QED BY <2>1, <2>2 DEF LogTypeOK
<1>5. LogTypeOK'
    BY <1>1, <1>3, <1>4, RotateMoves DEF LogTypeOK
<1> QED BY <1>2, <1>5, RotateMoves

LEMMA SwitchTypes == ASSUME LogTypes, Switch PROVE LogTypes'
<1> USE RotationAssumption DEF LogTypes, disk
<1>1. /\ w.pc = "switching" /\ filename \in Name
      /\ w \in [pc : Steps, baseFn : 0..Days, generation : Nat, fh : Handle]
    BY DEF Switch, At, LogTypeOK
<1>2. /\ rl'.outFh = w.fh /\ curFn' = filename
      /\ rl' \in [curBaseFn : 0..Days, generation : Nat, outFh : Handle]
    BY <1>1 DEF Switch, curFn, filename
<1>3. /\ w'.pc = "idle" /\ w'.fh = "none"
      /\ w' \in [pc : Steps, baseFn : 0..Days, generation : Nat, fh : Handle]
    BY DEF Switch, Idle, Steps, Handle
<1>4. full' \subseteq files
    BY DEF Switch, AppendTo, OpenedAgain, LogTypeOK
<1>5. LogTypeOK'
    BY <1>2, <1>3, <1>4 DEF Switch, LogTypeOK
<1> QED BY <1>1, <1>2, <1>3, <1>5 DEF Switch

\* A goroutine's next file, and what becomes of it.
Takes(p, n) ==
    /\ files' = files \ {n} /\ full' = full \ {n}
    /\ purgers' = (purgers \ {p}) \union ({p \ {n}} \ {{}})
    /\ rl' = [rl EXCEPT !.outFh = Unlinked(n, curFn, @)]
    /\ w' = [w EXCEPT !.fh = Unlinked(n, filename, @)]
    /\ UNCHANGED <<day, locks, temps, link, running, complained, faults>>

LEMMA UnlinkTakes ==
    ASSUME Unlink
    PROVE  \E p \in purgers : \E n \in p : Takes(p, n)
    BY DEF Unlink, Takes

LEMMA UnlinkTypes == ASSUME LogTypes, Unlink PROVE LogTypes'
<1> USE RotationAssumption DEF LogTypes, disk
<1>1. PICK p \in purgers : \E n \in p : Takes(p, n)
    BY UnlinkTakes
<1> PICK n \in p : Takes(p, n)
    BY <1>1
<1> USE DEF Takes
<1>2. /\ rl'.outFh = Unlinked(n, curFn, rl.outFh) /\ curFn' = curFn
      /\ rl' \in [curBaseFn : 0..Days, generation : Nat, outFh : Handle]
    BY DEF LogTypeOK, curFn, Unlinked, Handle
<1>3. /\ w'.pc = w.pc /\ w'.fh = Unlinked(n, filename, w.fh)
      /\ w'.baseFn = w.baseFn /\ w'.generation = w.generation
      /\ w' \in [pc : Steps, baseFn : 0..Days, generation : Nat, fh : Handle]
    BY <1>1 DEF LogTypeOK, Unlinked, Handle
<1>4. filename' = filename
    BY <1>3 DEF filename
<1>5. IsFiniteSet(files') /\ purgers' \subseteq (SUBSET Name)
    BY <1>1, FS_RemoveElement DEF LogTypeOK
<1>6. LogTypeOK'
    BY <1>1, <1>2, <1>3, <1>4, <1>5 DEF LogTypeOK, Unlinked
<1> QED BY <1>1, <1>2, <1>3, <1>4, <1>5, <1>6 DEF Unlinked

LEMMA LogTypesStep == ASSUME LogTypes, [Next]_vars PROVE LogTypes'
<1>1. CASE UNCHANGED vars
    BY <1>1 DEF LogTypes, LogTypeOK, vars, disk, curFn, filename
<1>2. CASE Next
    BY <1>2, QuietTypes, ExitTypes, BeginTypes, NameTypes, OpenTypes,
       RotateTypes, SwitchTypes, UnlinkTypes DEF Next, RotateStep
<1> QED BY <1>1, <1>2

LEMMA LogTypesHold == Spec => []LogTypes
<1> QED BY LogTypesInit, LogTypesStep, PTL DEF Spec

\* The variables keep their types, every file has a name within the bound of
\* its day, and a handle on a file is on the file of its name
\* (rotatelogs.go 132-230).
THEOREM LogTypesCorrect == Spec => []LogTypeOK
<1>1. LogTypes => LogTypeOK
    BY DEF LogTypes
<1> QED BY <1>1, LogTypesHold, PTL

-----------------------------------------------------------------------------
(* The link.                                                               *)

\* From the rename on the link names the new file, and until then the old
\* one, unless an error was printed.
LinkInv ==
    /\ w.pc \in {"idle", "naming", "opening"} /\ rl.outFh # "none" =>
          link = curFn \/ complained
    /\ w.pc \in {"purging", "unlocking", "switching"} =>
          link = filename \/ complained

LEMMA LinkInvStep == ASSUME LogTypes, LinkInv, [Next]_vars PROVE LinkInv'
<1> USE DEF LinkInv, disk, At
<1>1. CASE UNCHANGED vars
    BY <1>1 DEF vars, curFn, filename
<1>2. CASE NextDay \/ Start \/ WritePlain
    BY <1>2 DEF NextDay, Start, WritePlain, curFn, filename
<1>3. CASE CloseLog
  <2>1. rl'.outFh = "none"
      BY <1>3 DEF CloseLog, LogTypes, LogTypeOK
  <2> QED BY <1>3, <2>1 DEF CloseLog, filename
<1>4. CASE Exit
    BY <1>4 DEF Exit, NewRL, Idle
<1>5. CASE BeginRotation \/ NextName \/ OpenFails
  <2>1. w'.pc \in {"idle", "naming", "opening"}
        /\ w.pc \in {"idle", "naming", "opening"}
      BY <1>5 DEF BeginRotation, NextName, OpenFails, Idle, Go, LogTypes, LogTypeOK
  <2> QED BY <1>5, <2>1 DEF BeginRotation, NextName, OpenFails, curFn
<1>6. CASE Open
  <2>1. w'.pc = "locking"
      BY <1>6 DEF Open, LogTypes, LogTypeOK
  <2> QED BY <2>1
<1>7. CASE RotateStep
  <2>1. \/ w'.pc \notin {"purging", "unlocking", "switching"}
        \/ complained'
        \/ link' = filename
        \/ w.pc \in {"purging", "unlocking"} /\ UNCHANGED <<link, complained>>
      BY <1>7 DEF RotateStep, Lock, LockThere, Symlink, SymlinkFails, Rename,
                  RenameFails, Purge, Unlock, Go, LogTypes, LogTypeOK
  <2> QED BY <1>7, <2>1, RotateMoves
<1>8. CASE Switch
  <2>1. /\ w.pc = "switching" /\ w'.pc = "idle" /\ curFn' = filename
        /\ UNCHANGED <<link, complained>>
      BY <1>8 DEF Switch, Idle, curFn, filename
  <2> QED BY <2>1
<1>9. CASE Unlink
  <2>1. PICK p \in purgers : \E n \in p : Takes(p, n)
      BY <1>9, UnlinkTakes
  <2>2. PICK n \in p : Takes(p, n)
      BY <2>1
  <2>3. /\ rl'.outFh = Unlinked(n, curFn, rl.outFh) /\ curFn' = curFn
        /\ w'.pc = w.pc /\ filename' = filename /\ UNCHANGED <<link, complained>>
      BY <2>2 DEF Takes, LogTypes, LogTypeOK, curFn, filename
  <2> QED BY <2>3 DEF Unlinked
<1> QED BY <1>1, <1>2, <1>3, <1>4, <1>5, <1>6, <1>7, <1>8, <1>9
        DEF Next, RotateStep

\* Between two writes the link names the file that is written to, unless the
\* rotation printed an error (rotatelogs.go 203-219, 315-329).
THEOREM LinkAlwaysFollows == Spec => []LinkFollows
<1>1. Init => LinkInv
    BY DEF Init, LinkInv, NewRL, Idle
<1>2. LinkInv => LinkFollows
    BY DEF LinkInv, LinkFollows
<1> QED BY <1>1, <1>2, LogTypesHold, LinkInvStep, PTL DEF Spec

-----------------------------------------------------------------------------
(* The order of the names.                                                  *)

LEMMA DivFacts ==
    ASSUME NEW g \in Nat \ {0}
    PROVE  /\ g \div Radix \in Nat /\ g \div Radix < g
           /\ g % Radix \in Nat
           /\ g = Radix * (g \div Radix) + (g % Radix)
    BY RotationAssumption

\* The digits of g, given those of smaller numbers.
DigitsFrom(f, g) == IF g = 0 THEN << >> ELSE Append(f[g \div Radix], g % Radix)

\* The functions that are the digits up to some number.
DigitsUpTo(k) ==
    {f \in [0..k -> Seq(Nat)] : \A g \in 0..k : f[g] = DigitsFrom(f, g)}

LEMMA DigitsUpToAgree ==
    ASSUME NEW k \in Nat, NEW j \in Nat, NEW f \in DigitsUpTo(k),
           NEW h \in DigitsUpTo(j), NEW g \in Nat, g <= k, g <= j
    PROVE  f[g] = h[g]
<1> DEFINE S == {i \in Nat : i <= k /\ i <= j => f[i] = h[i]}
<1>1. ASSUME NEW i \in Nat, \A l \in Nat : l < i => l \in S PROVE i \in S
  <2>1. SUFFICES ASSUME i <= k, i <= j, i # 0 PROVE f[i] = h[i]
      BY DEF DigitsUpTo, DigitsFrom
  <2>2. i \div Radix \in Nat /\ i \div Radix < i
      BY <2>1, DivFacts
  <2>3. f[i \div Radix] = h[i \div Radix]
      BY <1>1, <2>1, <2>2
  <2>4. i \in 0..k /\ i \in 0..j
      BY <2>1
  <2>5. f[i] = DigitsFrom(f, i) /\ h[i] = DigitsFrom(h, i)
      BY <2>4 DEF DigitsUpTo
  <2> QED BY <2>1, <2>3, <2>5 DEF DigitsFrom
<1> HIDE DEF S
<1>2. g \in S
    BY <1>1, InductionOnNat
<1> QED BY <1>2 DEF S

LEMMA DigitsUpToExists ==
    ASSUME NEW k \in Nat
    PROVE  DigitsUpTo(k) # {}
<1> DEFINE S == {i \in Nat : DigitsUpTo(i) # {}}
<1>1. ASSUME NEW i \in Nat, \A l \in Nat : l < i => l \in S PROVE i \in S
  <2>1. CASE i = 0
    <3> DEFINE f == [g \in 0..0 |-> << >>]
    <3>1. f \in [0..0 -> Seq(Nat)] /\ \A g \in 0..0 : f[g] = DigitsFrom(f, g)
        BY DEF DigitsFrom
    <3>2. f \in DigitsUpTo(0)
        BY <3>1 DEF DigitsUpTo
    <3> QED BY <2>1, <3>2
  <2>2. CASE i # 0
    <3>1. i - 1 \in Nat /\ i - 1 \in S
        BY <1>1, <2>2
    <3>2. PICK h \in DigitsUpTo(i - 1) : TRUE
        BY <3>1
    <3>3. i \div Radix \in 0..(i - 1) /\ i % Radix \in Nat
        BY <2>2, DivFacts
    <3> DEFINE f == [g \in 0..i |-> IF g = i THEN Append(h[i \div Radix], i % Radix)
                                             ELSE h[g]]
    <3>4. h \in [0..(i - 1) -> Seq(Nat)]
        BY DEF DigitsUpTo
    <3>5. f \in [0..i -> Seq(Nat)]
      <4>1. Append(h[i \div Radix], i % Radix) \in Seq(Nat)
          BY <3>3, <3>4, AppendProperties
      <4>2. \A g \in 0..i : g = i \/ g \in 0..(i - 1)
          OBVIOUS
      <4> QED BY <3>4, <4>1, <4>2
    <3>6. ASSUME NEW g \in 0..i PROVE f[g] = DigitsFrom(f, g)
      <4>1. CASE g = i
          BY <2>2, <3>3, <4>1 DEF DigitsFrom
      <4>2. CASE g # i
        <5>1. g \in 0..(i - 1) /\ f[g] = h[g] /\ h[g] = DigitsFrom(h, g)
            BY <4>2 DEF DigitsUpTo
        <5>2. CASE g = 0
            BY <5>1, <5>2 DEF DigitsFrom
        <5>3. CASE g # 0
          <6>1. g \div Radix \in Nat /\ g \div Radix < g
              BY <5>3, DivFacts
          <6>2. f[g \div Radix] = h[g \div Radix]
              BY <4>2, <6>1
          <6> QED BY <5>1, <5>3, <6>2 DEF DigitsFrom
        <5> QED BY <5>2, <5>3
      <4> QED BY <4>1, <4>2
    <3>7. f \in DigitsUpTo(i)
        BY <3>5, <3>6 DEF DigitsUpTo
    <3> QED BY <3>7
  <2> QED BY <2>1, <2>2
<1> HIDE DEF S
<1>2. k \in S
    BY <1>1, InductionOnNat
<1> QED BY <1>2 DEF S

\* What Digits is: the recursion has a solution.
LEMMA DigitsFacts ==
    /\ Digits \in [Nat -> Seq(Nat)]
    /\ \A g \in Nat : Digits[g] = DigitsFrom(Digits, g)
<1> DEFINE D == [g \in Nat |-> (CHOOSE f \in DigitsUpTo(g) : TRUE)[g]]
<1>1. ASSUME NEW g \in Nat
      PROVE  /\ (CHOOSE f \in DigitsUpTo(g) : TRUE) \in DigitsUpTo(g)
             /\ D[g] \in Seq(Nat) /\ D[g] = DigitsFrom(D, g)
  <2>1. PICK f : f = CHOOSE e \in DigitsUpTo(g) : TRUE
      OBVIOUS
  <2>2. f \in DigitsUpTo(g) /\ D[g] = f[g]
      BY <2>1, DigitsUpToExists
  <2>3. D[g] \in Seq(Nat)
      BY <2>2 DEF DigitsUpTo
  <2>4. D[g] = DigitsFrom(D, g)
    <3>1. CASE g = 0
        BY <2>2, <3>1 DEF DigitsUpTo, DigitsFrom
    <3>2. CASE g # 0
      <4> DEFINE q == g \div Radix
      <4>1. q \in Nat /\ q < g
          BY <3>2, DivFacts
      <4>2. PICK h : h = CHOOSE e \in DigitsUpTo(q) : TRUE
          OBVIOUS
      <4>3. h \in DigitsUpTo(q) /\ D[q] = h[q]
          BY <4>1, <4>2, DigitsUpToExists
      <4>4. f[q] = h[q]
          BY <2>2, <4>1, <4>3, DigitsUpToAgree
      <4>5. f[g] = Append(f[q], g % Radix)
          BY <2>2, <3>2 DEF DigitsUpTo, DigitsFrom
      <4> QED BY <2>2, <3>2, <4>3, <4>4, <4>5 DEF DigitsFrom
    <3> QED BY <3>1, <3>2
  <2> QED BY <2>1, <2>2, <2>3, <2>4
<1>2. PICK E : E = D
    OBVIOUS
<1>3. /\ E = [g \in Nat |-> E[g]]
      /\ \A g \in Nat : E[g] \in Seq(Nat) /\ E[g] = DigitsFrom(E, g)
    BY <1>1, <1>2
<1> HIDE DEF D
<1>4. \E f : f = [g \in Nat |-> IF g = 0 THEN << >>
                               ELSE Append(f[g \div Radix], g % Radix)]
  <2>1. \A g \in Nat : E[g] = IF g = 0 THEN << >>
                                ELSE Append(E[g \div Radix], g % Radix)
      BY <1>3 DEF DigitsFrom
  <2>2. E = [g \in Nat |-> IF g = 0 THEN << >>
                           ELSE Append(E[g \div Radix], g % Radix)]
      BY <1>3, <2>1
  <2> QED BY <2>2
<1>5. Digits = [g \in Nat |-> IF g = 0 THEN << >>
                              ELSE Append(Digits[g \div Radix], g % Radix)]
    BY <1>4 DEF Digits
<1>6. \A g \in Nat : Digits[g] = DigitsFrom(Digits, g)
    BY <1>5 DEF DigitsFrom
<1> DEFINE S == {g \in Nat : Digits[g] \in Seq(Nat)}
<1>7. ASSUME NEW g \in Nat, \A j \in Nat : j < g => j \in S PROVE g \in S
  <2>1. Digits[g] = DigitsFrom(Digits, g)
      BY <1>6
  <2>2. CASE g = 0
    <3>1. Digits[g] = << >> /\ << >> \in Seq(Nat)
        BY <2>1, <2>2 DEF DigitsFrom
    <3> QED BY <3>1
  <2>3. CASE g # 0
    <3>1. g \div Radix \in S /\ g % Radix \in Nat
        BY <1>7, <2>3, DivFacts
    <3>2. Digits[g \div Radix] \in Seq(Nat)
        BY <3>1
    <3>3. Append(Digits[g \div Radix], g % Radix) \in Seq(Nat)
        BY <3>1, <3>2, AppendProperties
    <3>4. Digits[g] \in Seq(Nat)
        BY <2>1, <2>3, <3>3 DEF DigitsFrom
    <3> QED BY <3>4
  <2> QED BY <2>2, <2>3
<1> HIDE DEF S
<1>8. \A g \in Nat : g \in S
    BY <1>7, InductionOnNat
<1>9. \A g \in Nat : Digits[g] \in Seq(Nat)
    BY <1>8 DEF S
<1> QED BY <1>5, <1>6, <1>9

LEMMA AppendAlike ==
    ASSUME NEW s \in Seq(Nat), NEW t \in Seq(Nat), NEW x \in Nat, NEW y \in Nat,
           Append(s, x) = Append(t, y)
    PROVE  s = t /\ x = y
    BY AppendInjective

\* No two numbers are written alike.
LEMMA DigitsInjective ==
    ASSUME NEW g \in Nat, NEW h \in Nat, Digits[g] = Digits[h]
    PROVE  g = h
<1> DEFINE S == {i \in Nat : \A j \in Nat : Digits[i] = Digits[j] => i = j}
<1>1. ASSUME NEW i \in Nat, \A l \in Nat : l < i => l \in S PROVE i \in S
  <2>1. SUFFICES ASSUME NEW j \in Nat, Digits[i] = Digits[j] PROVE i = j
      OBVIOUS
  <2>2. /\ Digits[i] = DigitsFrom(Digits, i) /\ Digits[j] = DigitsFrom(Digits, j)
        /\ Digits \in [Nat -> Seq(Nat)]
      BY DigitsFacts
  <2>3. ASSUME NEW k \in Nat, k # 0
        PROVE  /\ k \div Radix \in Nat /\ k % Radix \in Nat
               /\ Digits[k \div Radix] \in Seq(Nat)
               /\ Append(Digits[k \div Radix], k % Radix) # << >>
    <3>1. k \div Radix \in Nat /\ k % Radix \in Nat
        BY <2>3, DivFacts
    <3>2. Digits[k \div Radix] \in Seq(Nat)
        BY <2>2, <3>1
    <3> QED BY <3>1, <3>2, AppendProperties
  <2>4. CASE i = 0 \/ j = 0
      BY <2>1, <2>2, <2>3, <2>4 DEF DigitsFrom
  <2>5. CASE i # 0 /\ j # 0
    <3>1. Append(Digits[i \div Radix], i % Radix)
              = Append(Digits[j \div Radix], j % Radix)
        BY <2>1, <2>2, <2>5 DEF DigitsFrom
    <3>2. Digits[i \div Radix] = Digits[j \div Radix] /\ i % Radix = j % Radix
      <4>1. /\ Digits[i \div Radix] \in Seq(Nat) /\ i % Radix \in Nat
            /\ Digits[j \div Radix] \in Seq(Nat) /\ j % Radix \in Nat
          BY <2>3, <2>5
      <4> QED BY <3>1, <4>1, AppendAlike
    <3>3. i \div Radix \in S
        BY <1>1, <2>5, DivFacts
    <3>4. i \div Radix = j \div Radix
        BY <2>3, <2>5, <3>2, <3>3
    <3>5. /\ i = Radix * (i \div Radix) + (i % Radix)
          /\ j = Radix * (j \div Radix) + (j % Radix)
        BY <2>5, DivFacts
    <3> QED BY <3>2, <3>4, <3>5
  <2> QED BY <2>4, <2>5
<1> HIDE DEF S
<1>2. g \in S
    BY <1>1, InductionOnNat
<1> QED BY <1>2 DEF S

LEMMA DigitsBeforeTransitive ==
    ASSUME NEW s \in Seq(Nat), NEW t \in Seq(Nat), NEW u \in Seq(Nat),
           DigitsBefore(s, t), DigitsBefore(t, u)
    PROVE  DigitsBefore(s, u)
<1>1. PICK i \in DOMAIN t : /\ \A l \in 1..(i - 1) : l \in DOMAIN s /\ s[l] = t[l]
                            /\ i \in DOMAIN s => s[i] < t[i]
    BY DEF DigitsBefore
<1>2. PICK j \in DOMAIN u : /\ \A l \in 1..(j - 1) : l \in DOMAIN t /\ t[l] = u[l]
                            /\ j \in DOMAIN t => t[j] < u[j]
    BY DEF DigitsBefore
<1>3. i \in 1..Len(t) /\ j \in 1..Len(u) /\ DOMAIN t = 1..Len(t)
      /\ DOMAIN u = 1..Len(u) /\ DOMAIN s = 1..Len(s)
      /\ Len(s) \in Nat /\ Len(t) \in Nat /\ Len(u) \in Nat
    OBVIOUS
<1>4. /\ \A l \in DOMAIN s : s[l] \in Nat
      /\ \A l \in DOMAIN t : t[l] \in Nat
      /\ \A l \in DOMAIN u : u[l] \in Nat
    BY ElementOfSeq
<1>5. CASE i <= j
  <2>1. i \in DOMAIN u
      BY <1>3, <1>5
  <2>2. \A l \in 1..(i - 1) : l \in DOMAIN s /\ s[l] = u[l]
      BY <1>1, <1>2, <1>3, <1>5
  <2>3. i \in DOMAIN s => s[i] < u[i]
    <3>1. CASE i = j
        BY <1>1, <1>2, <1>4, <2>1, <3>1
    <3>2. CASE i # j
      <4>1. i \in 1..(j - 1)
          BY <1>3, <1>5, <3>2
      <4>2. t[i] = u[i]
          BY <1>2, <4>1
      <4> QED BY <1>1, <4>2
    <3> QED BY <3>1, <3>2
  <2> QED BY <2>1, <2>2, <2>3 DEF DigitsBefore
<1>6. CASE j < i
  <2>1. j \in DOMAIN s /\ s[j] = t[j] /\ j \in DOMAIN t
    <3>1. j \in 1..(i - 1) /\ j \in DOMAIN t
        BY <1>3, <1>6
    <3> QED BY <1>1, <3>1
  <2>2. \A l \in 1..(j - 1) : l \in DOMAIN s /\ s[l] = u[l]
      BY <1>1, <1>2, <1>3, <1>6
  <2>3. s[j] < u[j]
      BY <1>2, <2>1
  <2> QED BY <2>2, <2>3 DEF DigitsBefore
<1> QED BY <1>3, <1>5, <1>6

LEMMA DigitsBeforeTotal ==
    ASSUME NEW s \in Seq(Nat), NEW t \in Seq(Nat), s # t
    PROVE  DigitsBefore(s, t) \/ DigitsBefore(t, s)
<1>1. /\ DOMAIN s = 1..Len(s) /\ DOMAIN t = 1..Len(t)
      /\ Len(s) \in Nat /\ Len(t) \in Nat
    OBVIOUS
<1>2. /\ \A l \in DOMAIN s : s[l] \in Nat
      /\ \A l \in DOMAIN t : t[l] \in Nat
    BY ElementOfSeq
<1> DEFINE Same(i) == i \in DOMAIN s /\ i \in DOMAIN t /\ s[i] = t[i]
           D == {i \in Nat : i \in DOMAIN s \cup DOMAIN t /\ ~Same(i)}
<1>3. D # {}
  <2>1. SUFFICES ASSUME D = {} PROVE FALSE
      OBVIOUS
  <2>2. \A i \in DOMAIN s \cup DOMAIN t : Same(i)
      BY <1>1, <2>1
  <2>3. Len(s) = Len(t)
    <3>1. Len(s) <= Len(t)
      <4>1. CASE Len(s) # 0
        <5>1. Len(s) \in DOMAIN s
            BY <1>1, <4>1
        <5>2. Len(s) \in DOMAIN t
            BY <2>2, <5>1
        <5> QED BY <1>1, <5>2
      <4>2. CASE Len(s) = 0
          BY <1>1, <4>2
      <4> QED BY <4>1, <4>2
    <3>2. Len(t) <= Len(s)
      <4>1. CASE Len(t) # 0
        <5>1. Len(t) \in DOMAIN t
            BY <1>1, <4>1
        <5>2. Len(t) \in DOMAIN s
            BY <2>2, <5>1
        <5> QED BY <1>1, <5>2
      <4>2. CASE Len(t) = 0
          BY <1>1, <4>2
      <4> QED BY <4>1, <4>2
    <3>3. Len(s) \in Nat /\ Len(t) \in Nat
        BY <1>1
    <3> HIDE DEF D, Same
    <3> QED BY <3>1, <3>2, <3>3
  <2>4. \A i \in 1..Len(s) : s[i] = t[i]
      BY <1>1, <2>2
  <2> QED BY <2>3, <2>4, SeqEqual
<1>4. PICK i \in D : \A k \in D : i <= k
    BY <1>3, LeastNumber
<1>5. \A l \in 1..(i - 1) : Same(l)
  <2>1. SUFFICES ASSUME NEW l \in 1..(i - 1), ~Same(l) PROVE FALSE
      OBVIOUS
  <2>2. l \in DOMAIN s \cup DOMAIN t
      BY <1>1, <1>4
  <2>3. l \in D
      BY <2>1, <2>2
  <2> QED BY <1>4, <2>3
<1>6. CASE i \notin DOMAIN s
    BY <1>4, <1>5, <1>6 DEF DigitsBefore
<1>7. CASE i \notin DOMAIN t
    BY <1>4, <1>5, <1>7 DEF DigitsBefore
<1>8. CASE i \in DOMAIN s /\ i \in DOMAIN t
  <2>1. s[i] < t[i] \/ t[i] < s[i]
      BY <1>2, <1>4, <1>8
  <2> QED BY <1>5, <1>8, <2>1 DEF DigitsBefore
<1> QED BY <1>6, <1>7, <1>8

\* Glob's order is a strict total order on the names.
LEMMA BeforeFacts ==
    /\ \A n \in Name : ~Before(n, n)
    /\ \A l, m, n \in Name : Before(l, m) /\ Before(m, n) => Before(l, n)
    /\ \A m, n \in Name : m # n => Before(m, n) \/ Before(n, m)
<1>1. ASSUME NEW n \in Name
      PROVE  /\ n[1] \in Nat /\ n[2] \in Nat /\ n = <<n[1], n[2]>>
             /\ Digits[n[2]] \in Seq(Nat)
  <2>1. n[1] \in Nat /\ n[2] \in Nat /\ n = <<n[1], n[2]>>
      BY DEF Name
  <2> QED BY <2>1, DigitsFacts
<1>2. ASSUME NEW n \in Name PROVE ~Before(n, n)
  <2>1. \A i \in DOMAIN Digits[n[2]] : Digits[n[2]][i] \in Nat
      BY <1>1, ElementOfSeq
  <2> QED BY <1>1, <2>1 DEF Before, DigitsBefore
<1>3. ASSUME NEW l \in Name, NEW m \in Name, NEW n \in Name,
             Before(l, m), Before(m, n)
      PROVE  Before(l, n)
  <2>1. /\ l[1] < m[1] \/ (l[1] = m[1] /\ DigitsBefore(Digits[l[2]], Digits[m[2]]))
        /\ m[1] < n[1] \/ (m[1] = n[1] /\ DigitsBefore(Digits[m[2]], Digits[n[2]]))
      BY <1>3 DEF Before
  <2>2. l[1] \in Nat /\ m[1] \in Nat /\ n[1] \in Nat
      BY <1>1
  <2>3. l[1] < n[1] \/ (l[1] = n[1] /\ l[1] = m[1] /\ m[1] = n[1])
      BY <2>1, <2>2
  <2>4. CASE l[1] = m[1] /\ m[1] = n[1]
    <3>1. DigitsBefore(Digits[l[2]], Digits[m[2]])
          /\ DigitsBefore(Digits[m[2]], Digits[n[2]])
        BY <2>1, <2>2, <2>4
    <3>2. DigitsBefore(Digits[l[2]], Digits[n[2]])
        BY <1>1, <3>1, DigitsBeforeTransitive
    <3> QED BY <2>4, <3>2 DEF Before
  <2> QED BY <2>3, <2>4 DEF Before
<1>4. ASSUME NEW m \in Name, NEW n \in Name, m # n
      PROVE  Before(m, n) \/ Before(n, m)
  <2>1. CASE m[1] # n[1]
      BY <1>1, <2>1 DEF Before
  <2>2. CASE m[1] = n[1]
    <3>1. m[2] # n[2]
        BY <1>1, <1>4, <2>2
    <3>2. Digits[m[2]] # Digits[n[2]]
        BY <1>1, <3>1, DigitsInjective
    <3>3. \/ DigitsBefore(Digits[m[2]], Digits[n[2]])
          \/ DigitsBefore(Digits[n[2]], Digits[m[2]])
        BY <1>1, <3>2, DigitsBeforeTotal
    <3> QED BY <2>2, <3>3 DEF Before
  <2> QED BY <2>1, <2>2
<1> QED BY <1>2, <1>3, <1>4

-----------------------------------------------------------------------------
(* The files that are kept.                                                *)

Kept(n, F) == Cardinality(After(n, F)) >= RotationCount

LEMMA KeptGrows ==
    ASSUME NEW n, NEW F, NEW G, F \subseteq G, IsFiniteSet(G), Kept(n, F)
    PROVE  Kept(n, G)
<1>1. After(n, F) \subseteq After(n, G) /\ After(n, G) \subseteq G
    BY DEF After
<1>2. IsFiniteSet(After(n, G))
    BY <1>1, FS_Subset
<1>3. Cardinality(After(n, F)) <= Cardinality(After(n, G))
    BY <1>1, <1>2, FS_Subset
<1>4. Cardinality(After(n, F)) \in Nat /\ Cardinality(After(n, G)) \in Nat
    BY <1>1, <1>2, FS_Subset, FS_CardinalityType
<1> QED BY <1>3, <1>4, RotationAssumption DEF Kept

\* A file with enough files behind it has them still when another such file
\* is unlinked.
LEMMA KeptUnlinked ==
    ASSUME NEW F \in SUBSET Name, IsFiniteSet(F), NEW n \in Name, NEW m \in Name,
           Kept(n, F), Kept(m, F)
    PROVE  Kept(n, F \ {m})
<1>1. IsFiniteSet(F \ {m})
    BY FS_RemoveElement
<1>2. CASE Before(n, m)
  <2>1. After(m, F) \subseteq After(n, F \ {m})
      BY <1>2, BeforeFacts DEF After
  <2>2. After(n, F \ {m}) \subseteq F \ {m}
      BY DEF After
  <2>3. IsFiniteSet(After(n, F \ {m}))
      BY <1>1, <2>2, FS_Subset
  <2>4. Cardinality(After(m, F)) <= Cardinality(After(n, F \ {m}))
      BY <2>1, <2>3, FS_Subset
  <2>5. /\ Cardinality(After(m, F)) \in Nat
        /\ Cardinality(After(n, F \ {m})) \in Nat
      BY <2>1, <2>3, FS_Subset, FS_CardinalityType
  <2> QED BY <2>4, <2>5, RotationAssumption DEF Kept
<1>3. CASE ~Before(n, m)
  <2>1. After(n, F \ {m}) = After(n, F)
      BY <1>3 DEF After
  <2> QED BY <2>1 DEF Kept
<1> QED BY <1>2, <1>3

KeptInv ==
    /\ \A p \in purgers : \A n \in p : Kept(n, files)
    /\ rl.outFh = "gone" => Kept(curFn, files)
    /\ w.fh = "gone" => Kept(filename, files)

LEMMA KeptInvStep == ASSUME LogTypes, KeptInv, [Next]_vars PROVE KeptInv'
<1> USE DEF disk, At
<1>1. CASE UNCHANGED vars
    BY <1>1 DEF KeptInv, Kept, After, vars, curFn, filename
<1>2. CASE NextDay \/ Start \/ WritePlain
    BY <1>2 DEF NextDay, Start, WritePlain, KeptInv, Kept, After, curFn, filename
<1>3. CASE CloseLog
  <2>1. rl'.outFh = "none"
      BY <1>3 DEF CloseLog, LogTypes, LogTypeOK
  <2> QED BY <1>3, <2>1 DEF CloseLog, KeptInv, Kept, After, filename
<1>4. CASE Exit
    BY <1>4 DEF Exit, NewRL, Idle, KeptInv
<1>5. CASE BeginRotation \/ NextName \/ OpenFails
  <2>1. w'.fh = "none"
      BY <1>5 DEF BeginRotation, NextName, OpenFails, Idle, Go, LogTypes, LogTypeOK
  <2>2. UNCHANGED <<purgers, files, rl>>
      BY <1>5 DEF BeginRotation, NextName, OpenFails
  <2> QED BY <2>1, <2>2 DEF KeptInv, Kept, After, curFn
<1>6. CASE Open
  <2>1. w'.fh = "file" /\ UNCHANGED <<purgers, rl>>
      BY <1>6 DEF Open, LogTypes, LogTypeOK
  <2>2. files \subseteq files' /\ IsFiniteSet(files')
      BY <1>6, FS_AddElement DEF Open, LogTypes
  <2>3. \A n : Kept(n, files) => Kept(n, files')
      BY <2>2, KeptGrows
  <2> QED BY <2>1, <2>3 DEF KeptInv, curFn
<1>7. CASE RotateStep
  <2>1. UNCHANGED <<files, rl, curFn, filename>> /\ w'.fh = w.fh
      BY <1>7, RotateMoves
  <2>2. \/ purgers' = purgers
        \/ purgers' \subseteq purgers \cup {ToUnlink(files)}
      BY <1>7 DEF RotateStep, Lock, LockThere, Symlink, SymlinkFails, Rename,
                  RenameFails, Purge, Unlock
  <2>3. \A n \in ToUnlink(files) : Kept(n, files)
      BY DEF ToUnlink, Kept
  <2>4. \A p \in purgers' : \A n \in p : Kept(n, files)
      BY <2>2, <2>3 DEF KeptInv
  <2> QED BY <2>1, <2>4 DEF KeptInv
<1>8. CASE Switch
  <2>1. /\ rl'.outFh = w.fh /\ curFn' = filename /\ w'.fh = "none"
        /\ UNCHANGED <<files, purgers>>
      BY <1>8 DEF Switch, Idle, curFn, filename
  <2> QED BY <2>1 DEF KeptInv
<1>9. CASE Unlink
  <2>1. PICK p \in purgers : \E n \in p : Takes(p, n)
      BY <1>9, UnlinkTakes
  <2>2. PICK n \in p : Takes(p, n)
      BY <2>1
  <2>3. /\ rl'.outFh = Unlinked(n, curFn, rl.outFh) /\ curFn' = curFn
        /\ w'.fh = Unlinked(n, filename, w.fh) /\ filename' = filename
        /\ files' = files \ {n} /\ \A q \in purgers' : q \subseteq UNION purgers
      BY <2>2 DEF Takes, LogTypes, LogTypeOK, curFn, filename
  <2>4. /\ files \in SUBSET Name /\ IsFiniteSet(files)
        /\ \A q \in purgers : \A m \in q : m \in Name /\ Kept(m, files)
        /\ n \in Name /\ Kept(n, files)
      BY DEF LogTypes, LogTypeOK, KeptInv
  <2>5. \A m \in Name : Kept(m, files) => Kept(m, files')
      BY <2>3, <2>4, KeptUnlinked
  <2>6. \A q \in purgers' : \A m \in q : Kept(m, files')
      BY <2>3, <2>4, <2>5
  <2>7. rl'.outFh = "gone" => Kept(curFn, files')
    <3>1. CASE rl.outFh = "gone"
        BY <2>4, <2>5, <3>1 DEF LogTypes, KeptInv
    <3>2. CASE rl.outFh # "gone" /\ rl'.outFh = "gone"
        BY <2>3, <2>4, <2>5, <3>2 DEF Unlinked
    <3> QED BY <3>1, <3>2
  <2>8. w'.fh = "gone" => Kept(filename, files')
    <3>1. CASE w.fh = "gone"
        BY <2>4, <2>5, <3>1 DEF LogTypes, KeptInv
    <3>2. CASE w.fh # "gone" /\ w'.fh = "gone"
        BY <2>3, <2>4, <2>5, <3>2 DEF Unlinked
    <3> QED BY <3>1, <3>2
  <2> QED BY <2>3, <2>6, <2>7, <2>8 DEF KeptInv
<1> QED BY <1>1, <1>2, <1>3, <1>4, <1>5, <1>6, <1>7, <1>8, <1>9
        DEF Next, RotateStep

\* The log goes to a deleted file only when RotationCount files have names
\* behind it, whichever goroutines of whichever rotations are on
\* (rotatelogs.go 341-388).
THEOREM CurrentAlwaysKept == Spec => []CurrentKept
<1>1. Init => KeptInv
    BY DEF Init, KeptInv, NewRL, Idle
<1>2. KeptInv => CurrentKept
    BY DEF KeptInv, Kept, CurrentKept
<1> QED BY <1>1, <1>2, LogTypesHold, KeptInvStep, PTL DEF Spec

-----------------------------------------------------------------------------
(* The files that are taken away.                                          *)

\* What Purge leaves are at most RotationCount files: each has fewer behind
\* it, and no two have the same number behind them.
LEMMA PurgeLeavesFew ==
    ASSUME NEW F \in SUBSET Name, IsFiniteSet(F)
    PROVE  /\ IsFiniteSet(F \ ToUnlink(F))
           /\ Cardinality(F \ ToUnlink(F)) <= RotationCount
<1> DEFINE K == F \ ToUnlink(F)
           behind == [n \in K |-> Cardinality(After(n, F))]
<1>1. ASSUME NEW n \in F
      PROVE  /\ IsFiniteSet(After(n, F)) /\ Cardinality(After(n, F)) \in Nat
             /\ After(n, F) \subseteq F
  <2>1. After(n, F) \subseteq F
      BY DEF After
  <2> QED BY <2>1, FS_Subset, FS_CardinalityType
<1>2. behind \in [K -> 0..(RotationCount - 1)]
  <2>1. ASSUME NEW n \in K PROVE Cardinality(After(n, F)) \in 0..(RotationCount - 1)
      BY <1>1, RotationAssumption DEF ToUnlink
  <2> QED BY <2>1
<1>3. ASSUME NEW m \in F, NEW n \in F, Before(m, n)
      PROVE  Cardinality(After(n, F)) # Cardinality(After(m, F))
  <2>1. After(n, F) \subseteq After(m, F) /\ n \in After(m, F)
        /\ n \notin After(n, F)
      BY <1>3, BeforeFacts DEF After
  <2> QED BY <1>1, <2>1, FS_Subset
<1>4. ASSUME NEW m \in K, NEW n \in K, behind[m] = behind[n] PROVE m = n
    BY <1>3, <1>4, BeforeFacts
<1>5. behind \in Injection(K, 0..(RotationCount - 1))
    BY <1>2, <1>4 DEF Injection, IsInjective
<1>6. /\ IsFiniteSet(0..(RotationCount - 1))
      /\ Cardinality(0..(RotationCount - 1)) = RotationCount
  <2>1. 0 \in Int /\ RotationCount - 1 \in Int /\ 0 <= RotationCount - 1
      BY RotationAssumption
  <2>2. Cardinality(0..(RotationCount - 1)) = (RotationCount - 1) - 0 + 1
      BY <2>1, FS_Interval
  <2>3. IsFiniteSet(0..(RotationCount - 1))
      BY <2>1, FS_Interval
  <2> QED BY <2>1, <2>2, <2>3, RotationAssumption
<1> HIDE DEF K, behind
<1>7. IsFiniteSet(K) /\ Cardinality(K) <= RotationCount
    BY <1>5, <1>6, FS_Injection
<1> QED BY <1>7 DEF K

\* Few files are left once the goroutines are done.
FewLeft == Cardinality(files \ UNION purgers) <= RotationCount

PurgeInv ==
    /\ /\ w.pc \in {"idle", "naming", "opening"}
       /\ rl.outFh # "none" /\ ~complained
       => FewLeft
    /\ w.pc \in {"unlocking", "switching"} /\ ~complained => FewLeft

LEMMA PurgeInvStep == ASSUME LogTypes, PurgeInv, [Next]_vars PROVE PurgeInv'
<1> USE DEF disk, At, PurgeInv
<1>1. CASE UNCHANGED vars
    BY <1>1 DEF vars, FewLeft
<1>2. CASE NextDay \/ Start \/ WritePlain
    BY <1>2 DEF NextDay, Start, WritePlain, FewLeft
<1>3. CASE CloseLog
  <2>1. rl'.outFh = "none"
      BY <1>3 DEF CloseLog, LogTypes, LogTypeOK
  <2> QED BY <1>3, <2>1 DEF CloseLog, FewLeft
<1>4. CASE Exit
    BY <1>4 DEF Exit, NewRL, Idle
<1>5. CASE BeginRotation \/ NextName \/ OpenFails
  <2>1. w'.pc \in {"idle", "naming", "opening"}
        /\ w.pc \in {"idle", "naming", "opening"}
      BY <1>5 DEF BeginRotation, NextName, OpenFails, Idle, Go, LogTypes, LogTypeOK
  <2>2. UNCHANGED <<purgers, files, rl, complained>>
      BY <1>5 DEF BeginRotation, NextName, OpenFails
  <2> QED BY <2>1, <2>2 DEF FewLeft
<1>6. CASE Open
  <2>1. w'.pc = "locking"
      BY <1>6 DEF Open, LogTypes, LogTypeOK
  <2> QED BY <2>1
<1>7. CASE Purge
  <2>1. w'.pc = "unlocking" /\ files' = files
        /\ purgers' = purgers \union ({ToUnlink(files)} \ {{}})
      BY <1>7 DEF Purge, Go, LogTypes, LogTypeOK
  <2>2. /\ IsFiniteSet(files \ ToUnlink(files))
        /\ Cardinality(files \ ToUnlink(files)) <= RotationCount
      BY PurgeLeavesFew DEF LogTypes, LogTypeOK
  <2>3. files' \ UNION purgers' \subseteq files \ ToUnlink(files)
      BY <2>1
  <2>4. /\ Cardinality(files' \ UNION purgers')
              <= Cardinality(files \ ToUnlink(files))
        /\ Cardinality(files' \ UNION purgers') \in Nat
        /\ Cardinality(files \ ToUnlink(files)) \in Nat
      BY <2>2, <2>3, FS_Subset, FS_CardinalityType
  <2>5. FewLeft'
      BY <2>2, <2>4, RotationAssumption DEF FewLeft
  <2> QED BY <2>1, <2>5
<1>8. CASE RotateStep /\ ~Purge
  <2>1. UNCHANGED <<purgers, files, rl>>
      BY <1>8, RotateMoves DEF RotateStep, Lock, LockThere, Symlink, SymlinkFails,
                Rename, RenameFails, Unlock
  <2>2. \/ complained'
        \/ w'.pc \in {"linking", "renaming", "purging"}
        \/ w.pc = "unlocking" /\ complained' = complained
      BY <1>8 DEF RotateStep, Lock, LockThere, Symlink, SymlinkFails, Rename,
                  RenameFails, Unlock, Go, LogTypes, LogTypeOK
  <2>3. w'.pc \notin {"idle", "naming", "opening"}
      BY <1>8, RotateMoves
  <2> QED BY <2>1, <2>2, <2>3 DEF FewLeft
<1>9. CASE Switch
    BY <1>9 DEF Switch, Idle, FewLeft
<1>10. CASE Unlink
  <2>1. PICK p \in purgers : \E n \in p : Takes(p, n)
      BY <1>10, UnlinkTakes
  <2>2. PICK n \in p : Takes(p, n)
      BY <2>1
  <2>3. /\ rl'.outFh = Unlinked(n, curFn, rl.outFh)
        /\ w'.pc = w.pc /\ complained' = complained
        /\ files' = files \ {n}
        /\ purgers' = (purgers \ {p}) \union ({p \ {n}} \ {{}})
      BY <2>2 DEF Takes, LogTypes, LogTypeOK
  <2>4. files' \ UNION purgers' \subseteq files \ UNION purgers
    <3>1. ASSUME NEW m \in files', m \in UNION purgers PROVE m \in UNION purgers'
      <4>1. PICK q \in purgers : m \in q
          BY <3>1
      <4>2. CASE q = p
        <5>1. m \in p \ {n}
            BY <2>3, <3>1, <4>1, <4>2
        <5> QED BY <2>3, <5>1
      <4>3. CASE q # p
          BY <2>3, <4>1, <4>3
      <4> QED BY <4>2, <4>3
    <3> QED BY <2>3, <3>1
  <2>5. IsFiniteSet(files \ UNION purgers)
      BY FS_Subset DEF LogTypes
  <2>6. FewLeft => FewLeft'
    <3>1. /\ Cardinality(files' \ UNION purgers') <= Cardinality(files \ UNION purgers)
          /\ Cardinality(files' \ UNION purgers') \in Nat
          /\ Cardinality(files \ UNION purgers) \in Nat
        BY <2>4, <2>5, FS_Subset, FS_CardinalityType
    <3> QED BY <3>1, RotationAssumption DEF FewLeft
  <2>7. rl'.outFh # "none" => rl.outFh # "none"
      BY <2>3 DEF Unlinked
  <2> QED BY <2>3, <2>6, <2>7
<1> QED BY <1>1, <1>2, <1>3, <1>4, <1>5, <1>6, <1>7, <1>8, <1>9, <1>10
        DEF Next, RotateStep

\* When the goroutines are done there are no more files than asked for,
\* unless the rotation printed an error before it came to that
\* (rotatelogs.go 341-388).
THEOREM PurgeAlwaysBounded == Spec => []PurgeBounded
<1>1. Init => PurgeInv
    BY DEF Init, PurgeInv, NewRL, Idle
<1>2. LogTypes /\ PurgeInv => PurgeBounded
  <2>1. purgers = {} => files \ UNION purgers = files
      OBVIOUS
  <2> QED BY <2>1 DEF PurgeInv, FewLeft, PurgeBounded
<1> QED BY <1>1, <1>2, LogTypesHold, PurgeInvStep, PTL DEF Spec

=============================================================================
