----------------------------- MODULE LogRotation -----------------------------
(***************************************************************************)
(* The log file of an agent or a server, as logger.Init opens it           *)
(* (src/logger/logger.go 61-73): a file per day, a further one whenever    *)
(* the current one is full, a symbolic link to the current one, and the    *)
(* last RotationCount of them kept (src/logger/file-rotatelogs).           *)
(*                                                                         *)
(* Write holds rl.mutex through a rotation, so the model has one writer,   *)
(* whose steps are the system calls of getWriter_nolock and rotate_nolock. *)
(* They interleave with the goroutines that delete old files, with the     *)
(* clock, and with the end of the process; files, locks and links stay     *)
(* over a restart.                                                         *)
(***************************************************************************)
EXTENDS Naturals, Sequences, FiniteSets

CONSTANTS
    Days,            \* bound: the days the clock goes through
    MaxGen,          \* bound, for each day: the largest number behind a name
    Radix,           \* the base the number is written in (10 in the code)
    RotationCount,   \* the files to keep
    MaxFaults        \* bound: failing calls, and kills within a rotation

ASSUME RotationAssumption ==
    /\ Days \in Nat \ {0} /\ MaxFaults \in Nat
    /\ MaxGen \in [1..Days -> Nat]
    /\ Radix \in Nat \ {0, 1}
    /\ RotationCount \in Nat \ {0}

VARIABLES
    day,         \* the clock
    files,       \* the log files there are
    full,        \* those of at least rotationSize bytes
    locks,       \* the names with a file `_lock`
    temps,       \* the names with a link `_symlink`
    link,        \* what the link at FilePath points to
    running,     \* the process is there
    rl,          \* the fields of RotateLogs
    w,           \* the local variables of the rotation that is on
    purgers,     \* the goroutines that unlink, each with what it has left
    complained,  \* the last rotation printed an error
    faults       \* counts towards MaxFaults

disk == <<files, full, locks, temps, link>>
vars == <<day, disk, running, rl, w, purgers, complained, faults>>

-----------------------------------------------------------------------------
(* Names. <<d, 0>> is FilePath.%Y%m%d of day d, <<d, g>> the same with .g  *)
(* behind it. Day 0 is the empty name of a new RotateLogs.                 *)

Name == {n \in (1..Days) \X Nat : n[2] <= MaxGen[n[1]]}

\* The digits of a generation, as %d prints it; none for the base name.
Digits[g \in Nat] ==
    IF g = 0 THEN << >> ELSE Append(Digits[g \div Radix], g % Radix)

\* The order of strings on the digits.
DigitsBefore(s, t) ==
    \E i \in DOMAIN t :
        /\ \A j \in 1..(i - 1) : j \in DOMAIN s /\ s[j] = t[j]
        /\ i \in DOMAIN s => s[i] < t[i]

\* The order in which Glob returns the names.
Before(m, n) ==
    \/ m[1] < n[1]
    \/ m[1] = n[1] /\ DigitsBefore(Digits[m[2]], Digits[n[2]])

After(n, S) == {m \in S : Before(n, m)}

\* Mutation: one file less is kept.
ToUnlinkOne(S) == {n \in S : Cardinality(After(n, S)) >= RotationCount - 1}
\* All of S but the last RotationCount, in the order of Glob.
ToUnlink(S) == {n \in S : Cardinality(After(n, S)) >= RotationCount}
-----------------------------------------------------------------------------
(* The process. A file handle is "none", open on a "file", or open on one  *)
(* that is "gone".                                                         *)

NewRL == [curBaseFn |-> 0, generation |-> 0, outFh |-> "none"]
Idle  == [pc |-> "idle", baseFn |-> 0, generation |-> 0, fh |-> "none"]

Init ==
    /\ day = 1 /\ files = {} /\ full = {} /\ locks = {} /\ temps = {}
    /\ link = <<0, 0>>
    /\ running = FALSE /\ rl = NewRL /\ w = Idle /\ purgers = {}
    /\ complained = FALSE /\ faults = 0

curFn    == <<rl.curBaseFn, rl.generation>>
filename == <<w.baseFn, w.generation>>

At(pc) == running /\ w.pc = pc
Go(pc) == w' = [w EXCEPT !.pc = pc]

Fault == faults < MaxFaults /\ faults' = faults + 1

\* Only the day's own name is opened again once it is left: whether any
\* other file is full makes no difference then.
OpenedAgain(S) == {n \in S : n[2] = 0}

NextDay ==
    /\ day < Days /\ day' = day + 1
    /\ UNCHANGED <<disk, running, rl, w, purgers, complained, faults>>

\* New. It touches no file.
Start ==
    /\ ~running /\ running' = TRUE
    /\ UNCHANGED <<day, disk, rl, w, purgers, complained, faults>>

\* The process ends, wherever it is: what is in memory is lost, its
\* goroutines with it, and what is on the disk stays.
Exit ==
    /\ running /\ running' = FALSE
    /\ IF w.pc \in {"linking", "renaming", "purging", "unlocking"}
       THEN Fault ELSE UNCHANGED faults
    /\ rl' = NewRL /\ w' = Idle /\ purgers' = {} /\ complained' = FALSE
    /\ full' = OpenedAgain(full)
    /\ UNCHANGED <<day, files, locks, temps, link>>

\* Close: later writes fail, unless they begin a rotation.
CloseLog ==
    /\ At("idle") /\ rl.outFh # "none"
    /\ rl' = [rl EXCEPT !.outFh = "none"]
    /\ UNCHANGED <<day, disk, running, w, purgers, complained, faults>>

-----------------------------------------------------------------------------
(* Write.                                                                  *)

\* out.Write: a file that is still there may be full now.
AppendTo(fn, fh, F) ==
    \/ fh = "file" /\ full' = F \union {fn}
    \/ full' = F

\* Stat(curFn) finds a file that has reached rotationSize.
sizeRotation == curFn \in full

WritePlain ==
    /\ At("idle") /\ rl.curBaseFn = day /\ ~sizeRotation
    /\ AppendTo(curFn, rl.outFh, full)
    /\ UNCHANGED <<day, files, locks, temps, link, running, rl, w, purgers,
                   complained, faults>>

\* A name is free within the bound.
InBound(g) == \E h \in g..MaxGen[day] : <<day, h>> \notin files

\* A new day, or a full file. A full file makes the search for a free name
\* start, at the day's own name if the day is new.
BeginRotation ==
    /\ At("idle") /\ (rl.curBaseFn # day \/ sizeRotation)
    /\ LET g == IF rl.curBaseFn # day THEN 0 ELSE rl.generation + 1 IN
       /\ sizeRotation => InBound(g)
       /\ w' = [pc |-> IF sizeRotation THEN "naming" ELSE "opening",
                baseFn |-> day, generation |-> g, fh |-> "none"]
    /\ UNCHANGED <<day, disk, running, rl, purgers, complained, faults>>

\* One round of the loop that looks for a name no file has.
NextName ==
    /\ At("naming")
    /\ IF filename \in files
       THEN w' = [w EXCEPT !.generation = @ + 1]
       ELSE Go("opening")
    /\ UNCHANGED <<day, disk, running, rl, purgers, complained, faults>>

\* O_CREATE|O_APPEND: a file of that name is written on.
Open ==
    /\ At("opening")
    /\ files' = files \union {filename}
    /\ w' = [w EXCEPT !.fh = "file", !.pc = "locking"]
    /\ complained' = FALSE
    /\ UNCHANGED <<day, full, locks, temps, link, running, rl, purgers, faults>>

\* The write fails, and no field has changed.
OpenFails ==
    /\ At("opening") /\ Fault
    /\ w' = Idle
    /\ UNCHANGED <<day, disk, running, rl, purgers, complained>>

\* rotate_nolock: O_CREATE|O_EXCL.
Lock ==
    /\ At("locking") /\ filename \notin locks
    /\ locks' = locks \union {filename} /\ Go("linking")
    /\ UNCHANGED <<day, files, full, temps, link, running, rl, purgers,
                   complained, faults>>

\* An error of rotate_nolock is printed and the file used all the same.
LockThere ==
    /\ At("locking") /\ filename \in locks
    /\ complained' = TRUE /\ Go("switching")
    /\ UNCHANGED <<day, disk, running, rl, purgers, faults>>

Symlink ==
    /\ At("linking") /\ filename \notin temps
    /\ temps' = temps \union {filename} /\ Go("renaming")
    /\ UNCHANGED <<day, files, full, locks, link, running, rl, purgers,
                   complained, faults>>

SymlinkFails ==
    /\ At("linking")
    /\ IF filename \in temps THEN UNCHANGED faults ELSE Fault
    /\ complained' = TRUE /\ Go("unlocking")
    /\ UNCHANGED <<day, disk, running, rl, purgers>>

\* Mutation: the link is put in place only when there is none.
RenameOnce ==
    /\ At("renaming")
    /\ temps' = temps \ {filename} /\ Go("purging")
    /\ link' = IF link \in files THEN link ELSE filename
    /\ UNCHANGED <<day, files, full, locks, running, rl, purgers,
                   complained, faults>>

Rename ==
    /\ At("renaming")
    /\ temps' = temps \ {filename} /\ link' = filename /\ Go("purging")
    /\ UNCHANGED <<day, files, full, locks, running, rl, purgers,
                   complained, faults>>

RenameFails ==
    /\ At("renaming") /\ Fault
    /\ complained' = TRUE /\ Go("unlocking")
    /\ UNCHANGED <<day, disk, running, rl, purgers>>

\* Mutation: one file is unlinked, however many there are too many.
PurgeOne ==
    /\ At("purging")
    /\ purgers' = purgers \union {{n} : n \in
                     {m \in ToUnlink(files) : After(m, files) = files \ {m}}}
    /\ Go("unlocking")
    /\ UNCHANGED <<day, disk, running, rl, complained, faults>>

\* Glob, and a goroutine for what is too much. The names are read one after
\* the other; a file that another goroutine unlinks meanwhile comes before
\* the kept ones, in the list or not.
Purge ==
    /\ At("purging")
    /\ purgers' = purgers \union ({ToUnlink(files)} \ {{}})
    /\ Go("unlocking")
    /\ UNCHANGED <<day, disk, running, rl, complained, faults>>

\* The deferred guard.Run of rotate_nolock.
Unlock ==
    /\ At("unlocking")
    /\ locks' = locks \ {filename} /\ Go("switching")
    /\ UNCHANGED <<day, files, full, temps, link, running, rl, purgers,
                   complained, faults>>

\* Mutation: a rotation that failed leaves the generation as it was.
SwitchOld ==
    /\ At("switching")
    /\ rl' = [curBaseFn |-> w.baseFn, outFh |-> w.fh, generation |->
              IF complained THEN rl.generation ELSE w.generation]
    /\ AppendTo(filename, w.fh, OpenedAgain(full))
    /\ w' = Idle
    /\ UNCHANGED <<day, files, locks, temps, link, running, purgers,
                   complained, faults>>

\* The fields are set and the write goes to the new file.
Switch ==
    /\ At("switching")
    /\ rl' = [curBaseFn |-> w.baseFn, generation |-> w.generation,
              outFh |-> w.fh]
    /\ AppendTo(filename, w.fh, OpenedAgain(full))
    /\ w' = Idle
    /\ UNCHANGED <<day, files, locks, temps, link, running, purgers,
                   complained, faults>>

\* A goroutine of rotate_nolock unlinks the next of its files. Whoever has
\* it open goes on writing to it.
Unlinked(n, fn, fh) == IF fh = "file" /\ fn = n THEN "gone" ELSE fh

Unlink ==
    \E p \in purgers : \E n \in p :
        /\ \A m \in p : ~Before(m, n)
        /\ files' = files \ {n} /\ full' = full \ {n}
        /\ purgers' = (purgers \ {p}) \union ({p \ {n}} \ {{}})
        /\ rl' = [rl EXCEPT !.outFh = Unlinked(n, curFn, @)]
        /\ w' = [w EXCEPT !.fh = Unlinked(n, filename, @)]
        /\ UNCHANGED <<day, locks, temps, link, running, complained, faults>>

Next ==
    \/ NextDay \/ Start \/ Exit \/ CloseLog
    \/ WritePlain \/ BeginRotation \/ NextName \/ Open \/ OpenFails
    \/ Lock \/ LockThere \/ Symlink \/ SymlinkFails \/ Rename \/ RenameFails
    \/ Purge \/ Unlock \/ Switch \/ Unlink

Spec == Init /\ [][Next]_vars
-----------------------------------------------------------------------------
(* Properties.                                                             *)

Handle == {"none", "file", "gone"}
Steps  == {"idle", "naming", "opening", "locking", "linking", "renaming",
           "purging", "unlocking", "switching"}

\* The types, and what the handles say of the directory: a handle on a file
\* is on the file of its name (getWriter_nolock sets fh, curBaseFn and
\* generation together, rotatelogs.go 221-225).
LogTypeOK ==
    /\ day \in 1..Days /\ faults \in 0..MaxFaults
    /\ running \in BOOLEAN /\ complained \in BOOLEAN
    /\ files \subseteq Name /\ full \subseteq files
    /\ locks \subseteq Name /\ temps \subseteq Name
    /\ link \in Name \union {<<0, 0>>}
    /\ rl \in [curBaseFn : 0..Days, generation : Nat, outFh : Handle]
    /\ w \in [pc : Steps, baseFn : 0..Days, generation : Nat,
              fh : Handle]
    /\ purgers \subseteq (SUBSET Name)
    /\ rl.outFh = "file" => curFn \in files
    /\ w.fh = "file" => filename \in files

\* The log goes to a deleted file only when RotationCount files have names
\* behind it (rotatelogs.go 369-376): neither a goroutine that is late nor
\* one of an earlier rotation takes the file away for any other reason.
CurrentKept ==
    rl.outFh = "gone" => Cardinality(After(curFn, files)) >= RotationCount

\* Between two writes the link names the file that is written to, unless
\* the rotation printed an error (rotatelogs.go 203-219, 315-329).
LinkFollows ==
    w.pc = "idle" /\ rl.outFh # "none" => link = curFn \/ complained

\* When the goroutines are done there are no more files than asked for,
\* unless the rotation printed an error before it came to that: nothing that
\* a process which ended left behind is forgotten (rotatelogs.go 341-388).
PurgeBounded ==
    /\ w.pc = "idle" /\ rl.outFh # "none" /\ purgers = {} /\ ~complained
    => Cardinality(files) <= RotationCount
=============================================================================
