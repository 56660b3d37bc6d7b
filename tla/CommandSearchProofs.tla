------------------------- MODULE CommandSearchProofs -------------------------
(***************************************************************************)
(* Proofs about CommandSearch: what the two searches of PATH answer is     *)
(* true of the time they took, for any directories, any PATH and any       *)
(* changes.                                                                *)
(***************************************************************************)
EXTENDS CommandSearch, FiniteSetTheorems, TLAPS

(***************************************************************************)
(* The inductive invariant.  Witness: what the history variables say of    *)
(* the directories as they are now.                                        *)
(***************************************************************************)
Witness ==
  pc # "idle" =>
    /\ \A d \in Dir : files[d][cmd] # "none" => d \in ever
    /\ \A d \in held : files[d][cmd] # "none"
    /\ \A d \in runs : files[d][cmd] = "exec"

InPath(d) == \E n \in 1..Len(path) : path[n] = d
Listed == \E n \in 1..Len(list) : list[n] = cmd

\* What is in the list, or may be read into it, has been in its directory.
OnlySeen ==
  /\ pc \in {"count", "fill"} /\ cmd \in cand => path[i] \in ever
  /\ Listed => \E d \in ever : InPath(d)

\* What has been in a directory all the time is read there.
AllSeen ==
  /\ pc \in {"count", "fill"} /\ path[i] \in held => cmd \in stay
  /\ pc = "fill" /\ cmd \in seen => Listed
  /\ pc \in {"fill_open", "fill"} /\ ~failed =>
       \A n \in 1..(i - 1) : path[n] \in held => Listed

\* The shell's own directory has been asked first.
NotHere ==
  pc \in {"count_open", "count", "fill_open", "fill"} => Cwd \notin runs

\* The directories to the left have been asked before.
NotLeft ==
  /\ pc \in {"find", "find_stat", "execve"} =>
       \A n \in 1..(i - 1) : path[n] \notin runs
  /\ pc = "notfound" /\ ~failed => \A n \in 1..Len(path) : path[n] \notin runs

Inv == TypeOK /\ Witness /\ OnlySeen /\ AllSeen /\ NotHere /\ NotLeft /\ Answer

-----------------------------------------------------------------------------
LEMMA PathOK == TypeOK => path \in Seq(Dir) /\ Len(path) \in Nat
BY PathsAssumption DEF TypeOK

LEMMA InitInv == Init => Inv
<1> SUFFICES ASSUME Init PROVE Inv
  OBVIOUS
<1>1. path \in Seq(Dir) /\ Len(path) \in Nat
  BY PathsAssumption DEF Init
<1>2. TypeOK
  <2>1. files \in Files /\ path \in Paths /\ changes \in 0..MaxChanges
    BY StartsAssumption, ChangesAssumption DEF Init
  <2>2. i \in 1..(Len(path) + 1) /\ count \in Nat /\ room \in 0..(count + 1)
    BY <1>1 DEF Init
  <2>3. list \in Seq(Name)
    BY DEF Init
  <2>4. QED
    BY <2>1, <2>2, <2>3 DEF Init, TypeOK
<1>3. QED
  BY <1>1, <1>2 DEF Init, Inv, Witness, OnlySeen, AllSeen, NotHere, NotLeft, Answer, Listed

-----------------------------------------------------------------------------
(***************************************************************************)
(* Other programs.                                                         *)
(***************************************************************************)
LEMMA ChangeInv == Inv /\ Change => Inv'
<1> SUFFICES ASSUME Inv, Change PROVE Inv'
  OBVIOUS
<1> USE DEF Inv
<1>1. PICK d \in Dir, n \in Name, k \in Kind :
        /\ files[d][n] # k
        /\ files' = [files EXCEPT ![d][n] = k]
        /\ grew' = (grew \/ files[d][n] = "none")
        /\ cand' = IF IsOpen(d) /\ k # "none" THEN cand \cup {n} ELSE cand
        /\ stay' = IF IsOpen(d) /\ k = "none" THEN stay \ {n} ELSE stay
        /\ ever' = IF n = cmd /\ k # "none" THEN ever \cup {d} ELSE ever
        /\ held' = IF n = cmd /\ k = "none" THEN held \ {d} ELSE held
        /\ runs' = IF n = cmd /\ k # "exec" THEN runs \ {d} ELSE runs
  BY DEF Change
<1>2. /\ UNCHANGED <<path, pc, cmd, i, seen, count, room, list, answer, failed>>
      /\ changes < MaxChanges /\ changes' = changes + 1
  BY DEF Change
<1>3. path \in Seq(Dir) /\ Len(path) \in Nat
  BY PathOK
<1>4. \A e \in Dir, m \in Name :
        files'[e][m] = IF e = d /\ m = n THEN k ELSE files[e][m]
  BY <1>1 DEF TypeOK, Files
<1>5. files' \in Files
  BY <1>1 DEF TypeOK, Files
<1>6. /\ held' \subseteq held /\ runs' \subseteq runs /\ ever \subseteq ever'
      /\ runs' \subseteq held' /\ held' \subseteq ever' /\ ever' \subseteq Dir
  <2>1. runs' \subseteq held'
    BY <1>1 DEF TypeOK, Kind
  <2>2. QED
    BY <1>1, <2>1 DEF TypeOK
<1>7. TypeOK'
  <2>1. changes' \in 0..MaxChanges
    BY <1>2, ChangesAssumption DEF TypeOK
  <2>2. seen' \subseteq cand' /\ stay' \subseteq cand' /\ cand' \subseteq Name
    BY <1>1, <1>2 DEF TypeOK
  <2>3. grew' \in BOOLEAN
    BY <1>1 DEF TypeOK
  <2>4. QED
    BY <1>2, <1>5, <1>6, <2>1, <2>2, <2>3 DEF TypeOK
<1>8. Witness'
  BY <1>1, <1>2, <1>4, <1>6 DEF Witness, TypeOK
<1>9. (OnlySeen /\ AllSeen)'
  <2>1. Listed' = Listed
    BY <1>2 DEF Listed
  <2>2. \A e : InPath(e)' = InPath(e)
    BY <1>2 DEF InPath
  <2>3. pc \in {"count", "fill"} => path[i] \in Dir
    BY <1>3 DEF TypeOK
  <2>4. ASSUME pc \in {"count", "fill"}, cmd \in cand' PROVE path[i] \in ever'
    <3>1. CASE cmd \in cand
      BY <1>6, <2>4, <3>1 DEF OnlySeen
    <3>2. CASE cmd \notin cand
      <4>1. cmd = n /\ k # "none" /\ path[i] = d
        BY <1>1, <2>4, <3>2 DEF IsOpen
      <4>2. QED
        BY <1>1, <4>1
    <3>3. QED
      BY <3>1, <3>2
  <2>5. ASSUME pc \in {"count", "fill"}, path[i] \in held' PROVE cmd \in stay'
    <3>1. cmd \in stay
      BY <1>6, <2>5 DEF AllSeen
    <3>2. cmd = n /\ k = "none" => path[i] # d
      BY <1>1, <2>5
    <3>3. QED
      BY <1>1, <3>1, <3>2 DEF IsOpen
  <2>6. OnlySeen'
    BY <1>2, <1>6, <2>1, <2>2, <2>4 DEF OnlySeen
  <2>7. AllSeen'
    BY <1>2, <1>6, <2>1, <2>5 DEF AllSeen
  <2>8. QED
    BY <2>6, <2>7
<1>10. (NotHere /\ NotLeft /\ Answer)'
  BY <1>2, <1>6 DEF NotHere, NotLeft, Answer
<1>11. QED
  BY <1>7, <1>8, <1>9, <1>10

-----------------------------------------------------------------------------
(***************************************************************************)
(* The beginning of a search.                                              *)
(***************************************************************************)
LEMMA BeginInv ==
  ASSUME Inv, NEW n \in Name, Begin(n),
         pc' \in {"stat", "find"}, answer' \in BOOLEAN
  PROVE  Inv'
<1> USE DEF Inv
<1>1. path \in Seq(Dir) /\ Len(path) \in Nat /\ path' = path /\ files' = files
  BY PathOK DEF Begin, world
<1>2. TypeOK'
  <2>1. (i \in 1..(Len(path) + 1) /\ count \in Nat /\ room \in 0..(count + 1))'
    BY <1>1 DEF Begin
  <2>2. (list \in Seq(Name))'
    BY DEF Begin
  <2>3. (ever \subseteq Dir /\ held \subseteq ever /\ runs \subseteq held)'
    BY DEF Begin
  <2>4. (files \in Files /\ path \in Paths /\ changes \in 0..MaxChanges)'
    BY DEF Begin, world, TypeOK
  <2>5. QED
    BY <2>1, <2>2, <2>3, <2>4 DEF Begin, TypeOK
<1>3. Witness'
  BY <1>1 DEF Begin, Witness
<1>4. QED
  BY <1>1, <1>2, <1>3
  DEF Begin, OnlySeen, AllSeen, NotHere, NotLeft, Answer, Listed

(***************************************************************************)
(* A step of a search that leaves directories and history alone.           *)
(***************************************************************************)
LEMMA GoFacts ==
  ASSUME Inv, NEW l, Go(l)
  PROVE  /\ pc' = l
         /\ UNCHANGED <<files, path, changes, cmd>>
         /\ path \in Seq(Dir) /\ Len(path) \in Nat
BY PathOK DEF Go, world, Inv

LEMMA HereInv == Inv /\ (IsRegularFile \/ IsExecutable) => Inv'
<1> SUFFICES ASSUME Inv, IsRegularFile \/ IsExecutable PROVE Inv'
  OBVIOUS
<1> USE DEF Inv
<1>1. /\ UNCHANGED <<files, path, changes, cmd, Lists, hist>>
      /\ path \in Seq(Dir) /\ Len(path) \in Nat
  BY PathOK DEF IsRegularFile, IsExecutable, Go, world
<1>2. pc' \in {"access", "count_open", "answered"} /\ pc \in {"stat", "access"}
  BY DEF IsRegularFile, IsExecutable, Go
<1>3. TypeOK'
  BY <1>1, <1>2 DEF TypeOK, Lists, dirvars, hist, IsRegularFile, IsExecutable
<1>4. Witness'
  BY <1>1, <1>2 DEF Witness, hist
<1>5. NotHere'
  <2>1. pc' = "count_open" => files[Cwd][cmd] # "exec"
    BY DEF IsRegularFile, IsExecutable, Go
  <2>2. QED
    BY <1>1, <1>2, <2>1 DEF NotHere, Witness, hist
<1>6. Answer'
  <2>1. pc' = "answered" => answer' /\ files[Cwd][cmd] # "none"
    BY DEF IsRegularFile, IsExecutable, Go
  <2>2. QED
    BY <1>1, <1>2, <2>1, DirAssumption DEF Answer, Witness, hist
<1>7. (OnlySeen /\ AllSeen /\ NotLeft)'
  BY <1>1, <1>2
  DEF OnlySeen, AllSeen, NotLeft, Listed, InPath, Lists, dirvars, hist
<1>8. QED
  BY <1>3, <1>4, <1>5, <1>6, <1>7

-----------------------------------------------------------------------------
(***************************************************************************)
(* The pass that counts.  Nothing is in the list yet, and nothing is said  *)
(* of what has been counted.                                               *)
(***************************************************************************)
Counting == NoPathList \/ OpenCount \/ CountEntry \/ CountEnd \/ CommandListMalloc

LEMMA CountingFacts ==
  ASSUME Inv, Counting
  PROVE  /\ UNCHANGED <<files, path, changes, cmd, list, ever, held, runs>>
         /\ path \in Seq(Dir) /\ Len(path) \in Nat
         /\ pc \in {"count_open", "count"}
         /\ pc' \in {"count_open", "count", "fill_open", "answered"}
         /\ pc' = "fill_open" => i' = 1
         /\ pc' = "answered" => answer' = FALSE /\ failed'
<1> USE DEF Inv
<1>1. path \in Seq(Dir) /\ Len(path) \in Nat
  BY PathOK
<1>2. CASE NoPathList
  BY <1>1, <1>2 DEF NoPathList, Fail, Go, Lists, dirvars, world
<1>3. CASE OpenCount
  BY <1>1, <1>3 DEF OpenCount, Go, world
<1>4. CASE CountEntry
  BY <1>1, <1>4 DEF CountEntry, Go, world, hist
<1>5. CASE CountEnd
  BY <1>1, <1>5 DEF CountEnd, Go, world, hist
<1>6. CASE CommandListMalloc
  BY <1>1, <1>6 DEF CommandListMalloc, Fail, Go, world, hist
<1>7. QED
  BY <1>2, <1>3, <1>4, <1>5, <1>6 DEF Counting

LEMMA OpenedFacts ==
  ASSUME TypeOK, Opened, Witness, pc # "idle"
  PROVE  /\ i' = i /\ i \in 1..Len(path) /\ path[i] \in Dir
         /\ seen' = {} /\ stay' = cand' /\ cand' = Entries(path[i])
         /\ cand' \subseteq Name
         /\ cmd \in cand' => path[i] \in ever
         /\ path[i] \in held => cmd \in stay'
<1>1. path \in Seq(Dir) /\ Len(path) \in Nat
  BY PathOK
<1>2. i \in 1..Len(path) /\ path[i] \in Dir
  BY <1>1 DEF Opened, TypeOK
<1>3. seen' = {} /\ stay' = cand' /\ cand' = Entries(path[i]) /\ i' = i
  BY DEF Opened
<1>4. cmd \in Entries(path[i]) <=> files[path[i]][cmd] # "none"
  BY DEF Entries, TypeOK
<1>5. QED
  BY <1>2, <1>3, <1>4 DEF Witness, Entries

LEMMA NextDirFacts ==
  ASSUME TypeOK, NextDir, i <= Len(path)
  PROVE  /\ i' = i + 1 /\ i' \in 1..(Len(path) + 1)
         /\ seen' = {} /\ cand' = {} /\ stay' = {}
BY PathOK DEF NextDir, TypeOK

LEMMA CountingType == Inv /\ Counting => TypeOK'
<1> SUFFICES ASSUME Inv, Counting PROVE TypeOK'
  OBVIOUS
<1> USE DEF Inv
<1>1. /\ UNCHANGED <<files, path, changes, cmd, list, ever, held, runs>>
      /\ path \in Seq(Dir) /\ Len(path) \in Nat
      /\ pc' \in {"count_open", "count", "fill_open", "answered"}
  BY CountingFacts
<1>2. CASE NoPathList
  BY <1>1, <1>2 DEF NoPathList, Fail, Go, Lists, dirvars, TypeOK
<1>3. CASE OpenCount
  <2>0. UNCHANGED <<count, room, list, answer, failed>> /\ grew' \in BOOLEAN
    BY <1>3 DEF OpenCount, TypeOK
  <2>1. CASE Opened /\ Go("count")
    BY <1>1, <2>0, <2>1, <1>3, OpenedFacts DEF OpenCount, Go, TypeOK
  <2>2. CASE i <= Len(path) /\ NextDir /\ Go(pc)
    BY <1>1, <2>0, <2>2, <1>3, NextDirFacts DEF OpenCount, Go, TypeOK
  <2>3. QED
    BY <1>3, <2>1, <2>2 DEF OpenCount
<1>4. CASE CountEntry
  BY <1>1, <1>4 DEF CountEntry, Unread, Go, hist, TypeOK
<1>5. CASE CountEnd
  BY <1>1, <1>5, NextDirFacts DEF CountEnd, Go, hist, TypeOK
<1>6. CASE CommandListMalloc
  <2>1. /\ i' = 1 /\ UNCHANGED <<seen, cand, stay, count>>
        /\ pc' \in {"fill_open", "answered"}
        /\ room' \in {room, count + 1}
        /\ answer' \in BOOLEAN /\ failed' \in BOOLEAN /\ grew' = grew
    BY <1>6 DEF CommandListMalloc, Fail, Go, hist, TypeOK
  <2>2. i' \in 1..(Len(path) + 1) /\ room' \in 0..(count + 1)
    BY <1>1, <2>1 DEF TypeOK
  <2>3. QED
    BY <1>1, <2>1, <2>2 DEF TypeOK
<1>7. QED
  BY <1>2, <1>3, <1>4, <1>5, <1>6 DEF Counting

LEMMA CountingInv == Inv /\ Counting => Inv'
<1> SUFFICES ASSUME Inv, Counting PROVE Inv'
  OBVIOUS
<1> USE DEF Inv
<1>1. /\ UNCHANGED <<files, path, changes, cmd, list, ever, held, runs>>
      /\ path \in Seq(Dir) /\ Len(path) \in Nat
      /\ pc \in {"count_open", "count"}
      /\ pc' \in {"count_open", "count", "fill_open", "answered"}
      /\ pc' = "fill_open" => i' = 1
      /\ pc' = "answered" => answer' = FALSE /\ failed'
  BY CountingFacts
<1>2. TypeOK'
  BY CountingType
<1>3. (Witness /\ NotHere /\ NotLeft /\ Answer)'
  BY <1>1 DEF Witness, NotHere, NotLeft, Answer
<1>4. pc' = "count" =>
        /\ cmd \in cand' => path[i'] \in ever
        /\ path[i'] \in held => cmd \in stay'
  <2>1. CASE OpenCount
    <3>1. pc' = "count" => Opened
      BY <2>1 DEF OpenCount, Go
    <3>2. QED
      BY <1>1, <3>1, OpenedFacts
  <2>2. CASE CountEntry
    BY <2>2 DEF CountEntry, OnlySeen, AllSeen
  <2>3. CASE NoPathList \/ CountEnd \/ CommandListMalloc
    BY <2>3 DEF NoPathList, CountEnd, CommandListMalloc, Fail, Go
  <2>4. QED
    BY <2>1, <2>2, <2>3 DEF Counting
<1>5. (OnlySeen /\ AllSeen)'
  BY <1>1, <1>4 DEF OnlySeen, AllSeen, Listed, InPath
<1>6. QED
  BY <1>2, <1>3, <1>5

-----------------------------------------------------------------------------
(***************************************************************************)
(* The pass that fills the list, and the comparison.                       *)
(***************************************************************************)
LEMMA FillEntryInv == Inv /\ FillEntry => Inv'
<1> SUFFICES ASSUME Inv, FillEntry PROVE Inv'
  OBVIOUS
<1> USE DEF Inv
<1>1. /\ UNCHANGED <<files, path, changes, cmd, i, cand, stay, count, room, answer>>
      /\ UNCHANGED <<ever, held, runs, grew, failed>>
      /\ path \in Seq(Dir) /\ Len(path) \in Nat
      /\ pc = "fill" /\ pc' \in {"fill", "undefined"}
  BY PathOK DEF FillEntry, Go, world, hist
<1>2. PICK n \in cand : seen' = seen \cup {n} /\ list' = Append(list, n)
  BY DEF FillEntry, Unread
<1>3. n \in Name /\ list \in Seq(Name)
  BY DEF TypeOK
<1>4. TypeOK'
  BY <1>1, <1>2, <1>3 DEF TypeOK
<1>5. Listed' <=> Listed \/ n = cmd
  <2>1. Len(list') = Len(list) + 1 /\ Len(list) \in Nat
    BY <1>2, <1>3
  <2>2. \A m \in 1..Len(list) : list'[m] = list[m]
    BY <1>2, <1>3
  <2>3. list'[Len(list) + 1] = n
    BY <1>2, <1>3
  <2>4. QED
    BY <1>1, <2>1, <2>2, <2>3 DEF Listed
<1>6. path[i] \in Dir /\ InPath(path[i]) /\ (\A e : InPath(e)' = InPath(e))
  BY <1>1 DEF InPath, TypeOK
<1>7. OnlySeen'
  BY <1>1, <1>2, <1>5, <1>6 DEF OnlySeen
<1>8. AllSeen'
  BY <1>1, <1>2, <1>5 DEF AllSeen
<1>9. (Witness /\ NotHere /\ NotLeft /\ Answer)'
  BY <1>1 DEF Witness, NotHere, NotLeft, Answer
<1>10. QED
  BY <1>4, <1>7, <1>8, <1>9

LEMMA OpenFillInv == Inv /\ (OpenFill \/ FillEnd) => Inv'
<1> SUFFICES ASSUME Inv, OpenFill \/ FillEnd PROVE Inv'
  OBVIOUS
<1> USE DEF Inv
<1>1. /\ UNCHANGED <<files, path, changes, cmd, list, count, room, answer>>
      /\ UNCHANGED <<ever, held, runs, grew>>
      /\ path \in Seq(Dir) /\ Len(path) \in Nat
      /\ pc \in {"fill_open", "fill"} /\ pc' \in {"fill_open", "fill"}
  BY PathOK DEF OpenFill, FillEnd, Fail, Go, world, hist
<1>2. (Witness /\ NotHere /\ NotLeft /\ Answer)'
  BY <1>1 DEF Witness, NotHere, NotLeft, Answer
<1>3. Listed' = Listed /\ (\A e : InPath(e)' = InPath(e))
  BY <1>1 DEF Listed, InPath
<1>4. CASE OpenFill /\ Opened
  <2>1. pc = "fill_open" /\ pc' = "fill" /\ failed' = failed
    <3>1. i' = i /\ i \in Nat
      BY <1>4, <1>1 DEF Opened, TypeOK
    <3>2. QED
      BY <1>4, <3>1 DEF OpenFill, NextDir, Go, hist
  <2>2. QED
    BY <1>1, <1>2, <1>3, <1>4, <2>1, OpenedFacts DEF OnlySeen, AllSeen, TypeOK
<1>5. CASE OpenFill /\ NextDir /\ ~Opened
  <2>1. i <= Len(path) /\ pc' = "fill_open" /\ failed' = TRUE
    BY <1>5 DEF OpenFill, Fail, Go
  <2>2. QED
    BY <1>1, <1>2, <1>3, <1>5, <2>1, NextDirFacts DEF OnlySeen, AllSeen, TypeOK
<1>6. CASE FillEnd
  <2>1. /\ pc = "fill" /\ pc' = "fill_open" /\ failed' = failed
        /\ NextDir /\ stay \subseteq seen /\ i <= Len(path)
    BY <1>6 DEF FillEnd, AllRead, Go, hist, TypeOK
  <2>2. TypeOK'
    BY <1>1, <2>1, NextDirFacts DEF TypeOK
  <2>3. OnlySeen'
    BY <1>1, <1>3, <2>1 DEF OnlySeen
  <2>4. ~failed => \A n \in 1..i : path[n] \in held => Listed
    <3>1. path[i] \in held => Listed
      BY <2>1 DEF AllSeen
    <3>2. QED
      BY <2>1, <3>1 DEF AllSeen, TypeOK
  <2>5. i' - 1 = i
    BY <2>1, NextDirFacts DEF TypeOK
  <2>6. AllSeen'
    BY <1>1, <1>3, <2>1, <2>4, <2>5 DEF AllSeen
  <2>7. QED
    BY <1>2, <2>2, <2>3, <2>6
<1>7. QED
  BY <1>4, <1>5, <1>6 DEF OpenFill

LEMMA EndInv == Inv /\ (NoSecondPathList \/ FillFails \/ Compare) => Inv'
<1> SUFFICES ASSUME Inv, NoSecondPathList \/ FillFails \/ Compare PROVE Inv'
  OBVIOUS
<1> USE DEF Inv
<1>1. /\ UNCHANGED <<files, path, changes, cmd, i, seen, cand, stay, count, room, list>>
      /\ UNCHANGED <<ever, held, runs, grew>>
      /\ path \in Seq(Dir) /\ Len(path) \in Nat
      /\ pc \in {"fill_open", "fill"} /\ pc' \in {"answered", "undefined"}
  BY PathOK DEF NoSecondPathList, FillFails, Compare, Fail, Go, world, hist, Lists, dirvars
<1>2. answer' \in BOOLEAN /\ failed' \in BOOLEAN
  BY DEF NoSecondPathList, FillFails, Compare, Fail, hist, TypeOK
<1>3. TypeOK'
  BY <1>1, <1>2 DEF TypeOK
<1>4. (Witness /\ NotHere /\ NotLeft /\ OnlySeen /\ AllSeen)'
  BY <1>1 DEF Witness, NotHere, NotLeft, OnlySeen, AllSeen, Listed, InPath
<1>5. Answer'
  <2>1. CASE NoSecondPathList \/ FillFails
    <3>1. pc' = "answered" => answer' = FALSE /\ failed'
      BY <2>1 DEF NoSecondPathList, FillFails, Fail, Go
    <3>2. QED
      BY <3>1 DEF Answer
  <2>2. CASE Compare
    <3>1. pc' = "answered" =>
            i > Len(path) /\ pc = "fill_open" /\ failed' = failed /\ (answer' <=> Listed)
      BY <2>2 DEF Compare, Go, hist, Listed
    <3>2. ASSUME pc' = "answered", answer'
          PROVE  \E d \in ever : d = Cwd \/ InPath(d)
      BY <3>1, <3>2 DEF OnlySeen
    <3>3. ASSUME pc' = "answered", ~answer', ~failed
          PROVE  Cwd \notin runs /\ \A n \in 1..Len(path) : path[n] \notin held
      <4>1. Len(path) = i - 1
        BY <1>1, <3>1, <3>3 DEF TypeOK
      <4>2. QED
        BY <3>1, <3>3, <4>1 DEF AllSeen, NotHere
    <3>4. QED
      BY <1>1, <3>1, <3>2, <3>3 DEF Answer, InPath
  <2>3. QED
    BY <2>1, <2>2
<1>6. QED
  BY <1>3, <1>4, <1>5

-----------------------------------------------------------------------------
(***************************************************************************)
(* find_command_path.                                                      *)
(***************************************************************************)
Finding == FindFails \/ CheckAccess \/ CheckStat \/ NotFound \/ Exit

LEMMA FindingInv == Inv /\ Finding => Inv'
<1> SUFFICES ASSUME Inv, Finding PROVE Inv'
  OBVIOUS
<1> USE DEF Inv
<1>1. /\ UNCHANGED <<files, path, changes, cmd, seen, cand, stay, count, room, list, answer>>
      /\ UNCHANGED <<ever, held, runs, grew>>
      /\ path \in Seq(Dir) /\ Len(path) \in Nat
      /\ pc \in {"find", "find_stat", "execve", "notfound"}
      /\ pc' \in {"find", "find_stat", "execve", "notfound", "idle"}
  BY PathOK
  DEF Finding, FindFails, CheckAccess, CheckStat, NotFound, Exit, Fail, Go, world, hist, Path
<1>2. \/ i' = i /\ (pc' \in {"find_stat", "execve"} => i <= Len(path))
      \/ i' = i + 1 /\ i <= Len(path) /\ pc' = "find"
  BY DEF Finding, FindFails, CheckAccess, CheckStat, NotFound, Exit, Fail, Go, TypeOK
<1>3. failed' \in BOOLEAN
  BY DEF Finding, FindFails, CheckAccess, CheckStat, NotFound, Exit, Fail, hist, TypeOK
<1>4. TypeOK'
  BY <1>1, <1>2, <1>3 DEF TypeOK
<1>5. (Witness /\ NotHere /\ Answer /\ OnlySeen /\ AllSeen)'
  BY <1>1 DEF Witness, NotHere, Answer, OnlySeen, AllSeen, Listed, InPath
<1>6. i' = i + 1 => path[i] \notin runs
  <2>1. CASE CheckAccess
    BY <2>1, <1>1 DEF CheckAccess, Go, Witness, TypeOK
  <2>2. CASE CheckStat
    BY <2>2, <1>1 DEF CheckStat, Go, Witness, TypeOK
  <2>3. CASE FindFails \/ NotFound \/ Exit
    BY <2>3 DEF FindFails, NotFound, Exit, TypeOK
  <2>4. QED
    BY <2>1, <2>2, <2>3 DEF Finding
<1>7. pc' \in {"find", "find_stat", "execve"} => \A n \in 1..(i' - 1) : path[n] \notin runs
  <2>1. pc' \in {"find", "find_stat", "execve"} => pc \in {"find", "find_stat", "execve"}
    BY DEF Finding, FindFails, CheckAccess, CheckStat, NotFound, Exit, Fail, Go
  <2>2. QED
    BY <1>2, <1>6, <2>1 DEF NotLeft, TypeOK
<1>8. pc' = "notfound" /\ ~failed' => \A n \in 1..Len(path) : path[n] \notin runs
  <2>1. pc' = "notfound" /\ ~failed' => NotFound
    BY DEF Finding, FindFails, CheckAccess, CheckStat, Exit, Fail, Go
  <2>2. NotFound => Len(path) = i - 1 /\ pc = "find"
    BY <1>1 DEF NotFound, TypeOK
  <2>3. QED
    BY <2>1, <2>2 DEF NotLeft
<1>9. NotLeft'
  BY <1>1, <1>7, <1>8 DEF NotLeft
<1>10. QED
  BY <1>4, <1>5, <1>9

-----------------------------------------------------------------------------
LEMMA AnsweredInv == Inv /\ Answered => Inv'
<1> SUFFICES ASSUME Inv, Answered PROVE Inv'
  OBVIOUS
<1>1. cmd \in Name /\ answer' \in BOOLEAN
  BY DEF Inv, TypeOK, Answered
<1>2. CASE Begin(cmd) /\ pc' = "find"
  BY <1>1, <1>2, BeginInv
<1>3. CASE /\ pc' = "idle"
           /\ UNCHANGED <<world, cmd, Lists, hist>>
  BY <1>3
  DEF Answered, Inv, TypeOK, Witness, OnlySeen, AllSeen, NotHere, NotLeft, Answer, Listed,
      InPath, world, Lists, dirvars, hist
<1>4. QED
  BY <1>2, <1>3 DEF Answered

LEMMA SearchListInv == Inv /\ SearchList => Inv'
<1> SUFFICES ASSUME Inv, SearchList PROVE Inv'
  OBVIOUS
<1>1. PICK n \in Name : Begin(n)
  BY DEF SearchList
<1>2. pc' = "stat" /\ answer' \in BOOLEAN
  BY DEF SearchList, Inv, TypeOK
<1>3. QED
  BY <1>1, <1>2, BeginInv

LEMMA StutterInv == Inv /\ UNCHANGED vars => Inv'
BY DEF Inv, TypeOK, Witness, OnlySeen, AllSeen, NotHere, NotLeft, Answer, Listed,
       InPath, vars, world, dirvars, hist

(***************************************************************************)
(* The invariant stands.                                                   *)
(***************************************************************************)
THEOREM Inductive == Spec => []Inv
<1>1. Inv /\ [Next]_vars => Inv'
  BY ChangeInv, SearchListInv, HereInv, CountingInv, FillEntryInv, OpenFillInv,
     EndInv, FindingInv, AnsweredInv, StutterInv
  DEF Next, Search, Failures, Counting, Finding
<1>2. QED
  BY InitInv, <1>1, PTL DEF Spec

(***************************************************************************)
(* The variables of the searches have their types, and each directory that *)
(* is read or chosen is one of PATH.                                       *)
(***************************************************************************)
THEOREM TypeCorrect == Spec => []TypeOK
<1>1. Inv => TypeOK
  BY DEF Inv
<1>2. QED
  BY Inductive, <1>1, PTL

(***************************************************************************)
(* What search_list answers is true of the time it took.                   *)
(***************************************************************************)
THEOREM AnswersTrue == Spec => []Answer
<1>1. Inv => Answer
  BY DEF Inv
<1>2. QED
  BY Inductive, <1>1, PTL

(***************************************************************************)
(* find_command_path passes over no directory that has had an executable   *)
(* file of the name all the time.                                          *)
(***************************************************************************)
THEOREM FirstChosen == Spec => []Leftmost
<1>1. Inv => Leftmost
  BY DEF Inv, NotLeft, Leftmost
<1>2. QED
  BY Inductive, <1>1, PTL

-----------------------------------------------------------------------------
(***************************************************************************)
(* Room in the list.  The places counted for the directories of PATH are   *)
(* s[1] - s[0], s[2] - s[1], ...: what has been counted for a directory is *)
(* at least what is in it now, as long as none has gained an entry.        *)
(***************************************************************************)
Prefix(s) == /\ s \in [0..Len(path) -> Nat] /\ s[0] = 0
             /\ \A j, k \in 0..Len(path) : j <= k => s[j] <= s[k]

Counted(s, j) == /\ IsFiniteSet(Entries(path[j]))
                 /\ Cardinality(Entries(path[j])) <= s[j] - s[j - 1]

\* The counting pass: the directories up to the i-th have been counted.
CountFits(s) ==
  pc \in {"count_open", "count"} =>
    /\ list = <<>> /\ \A j \in 1..(i - 1) : Counted(s, j)
    /\ \A j \in i..Len(path) : s[j] = s[i - 1]
    /\ pc = "count_open" => count = s[i - 1]
    /\ pc = "count" => /\ IsFiniteSet(seen) /\ count = s[i - 1] + Cardinality(seen)
                       /\ Entries(path[i]) \subseteq stay

\* The filling pass: those from the i-th on have still room.
FillFits(s) ==
  pc \in {"fill_open", "fill"} =>
    /\ room = s[Len(path)] + 1 /\ \A j \in i..Len(path) : Counted(s, j)
    /\ pc = "fill_open" => Len(list) <= s[i - 1]
    /\ pc = "fill" => /\ IsFiniteSet(cand) /\ Cardinality(cand) <= s[i] - s[i - 1]
                      /\ Entries(path[i]) \subseteq cand
                      /\ Len(list) <= s[i - 1] + Cardinality(seen)

Passes == {"count_open", "count", "fill_open", "fill"}

Fits ==
  /\ pc \in {"stat", "access"} => i = 1 /\ count = 0 /\ list = <<>>
  /\ ~grew /\ ~failed =>
       /\ pc # "undefined"
       /\ pc \in Passes => \E s : Prefix(s) /\ CountFits(s) /\ FillFits(s)

\* A search that has not begun, or has ended well, has nothing to fit.
LEMMA Outside ==
  ASSUME pc' \notin Passes \cup {"stat", "access"},
         ~grew' /\ ~failed' => pc' # "undefined"
  PROVE  Fits'
BY DEF Fits

\* A directory that has lost entries has still been counted.
LEMMA CountedLess ==
  ASSUME TypeOK, NEW s, Prefix(s), NEW j \in 1..Len(path), Counted(s, j),
         path' = path, Entries(path[j])' \subseteq Entries(path[j])
  PROVE  Counted(s, j)'
<1>1. /\ IsFiniteSet(Entries(path[j])') /\ IsFiniteSet(Entries(path[j]))
      /\ Cardinality(Entries(path[j])') <= Cardinality(Entries(path[j]))
  BY FS_Subset DEF Counted
<1>2. /\ Cardinality(Entries(path[j])') \in Nat /\ Cardinality(Entries(path[j])) \in Nat
      /\ s[j] \in Nat /\ s[j - 1] \in Nat
  <2>1. j \in 0..Len(path) /\ j - 1 \in 0..Len(path)
    BY PathOK
  <2>2. QED
    BY <1>1, <2>1, FS_CardinalityType DEF Prefix
<1>3. QED
  BY <1>1, <1>2 DEF Counted

LEMMA ChangeFits == Inv /\ Fits /\ Change => Fits'
<1> SUFFICES ASSUME Inv, Fits, Change PROVE Fits'
  OBVIOUS
<1>1. PICK d \in Dir, n \in Name, k \in Kind :
        /\ files' = [files EXCEPT ![d][n] = k]
        /\ grew' = (grew \/ files[d][n] = "none")
        /\ cand' = IF IsOpen(d) /\ k # "none" THEN cand \cup {n} ELSE cand
        /\ stay' = IF IsOpen(d) /\ k = "none" THEN stay \ {n} ELSE stay
  BY DEF Change
<1>2. UNCHANGED <<path, pc, cmd, i, seen, count, room, list, answer, failed>>
  BY DEF Change
<1>3. TypeOK /\ path \in Seq(Dir) /\ Len(path) \in Nat
  BY PathOK DEF Inv
<1>4. \A e \in Dir, m \in Name :
        files'[e][m] = IF e = d /\ m = n THEN k ELSE files[e][m]
  BY <1>1, <1>3 DEF TypeOK, Files
<1> SUFFICES ASSUME ~grew', ~failed', pc' \in Passes
             PROVE  \E s : (Prefix(s) /\ CountFits(s) /\ FillFits(s))'
  BY <1>1, <1>2 DEF Fits
<1>5. PICK s : Prefix(s) /\ CountFits(s) /\ FillFits(s)
  BY <1>1, <1>2 DEF Fits
<1>6. n \in Entries(d)
  BY <1>1 DEF Entries
<1>7. \A j \in 1..Len(path) : /\ path[j] \in Dir
                              /\ Entries(path[j])' \subseteq Entries(path[j])
  BY <1>1, <1>2, <1>3, <1>4, <1>6 DEF Entries
<1>8. Prefix(s)'
  BY <1>2, <1>5 DEF Prefix
<1>9. \A j \in 1..Len(path) : Counted(s, j) => Counted(s, j)'
  BY <1>2, <1>3, <1>5, <1>7, CountedLess
<1>10. pc \in {"count", "fill"} => i \in 1..Len(path)
  BY <1>3 DEF TypeOK
<1>11. i \in 1..(Len(path) + 1)
  BY <1>3 DEF TypeOK
<1>12. CountFits(s)'
  <2>1. pc = "count" => Entries(path[i])' \subseteq stay'
    <3> SUFFICES ASSUME pc = "count", NEW m \in Entries(path[i])' PROVE m \in stay'
      BY <1>2
    <3>1. path[i] \in Dir /\ m \in stay /\ i \in 1..Len(path)
      BY <1>2, <1>5, <1>7, <1>10 DEF CountFits
    <3>2. m \in Name /\ files'[path[i]][m] # "none"
      BY <1>2 DEF Entries
    <3>3. path[i] = d /\ k = "none" => m # n
      BY <1>4, <3>1, <3>2
    <3>4. QED
      BY <1>1, <3>1, <3>3 DEF IsOpen
  <2>2. \A j \in 1..(i - 1) : j \in 1..Len(path)
    BY <1>3, <1>11
  <2>3. QED
    BY <1>2, <1>5, <1>9, <2>1, <2>2 DEF CountFits
<1>13. FillFits(s)'
  <2>1. pc = "fill" => cand' = cand /\ Entries(path[i])' \subseteq cand'
    <3> SUFFICES ASSUME pc = "fill" PROVE cand' = cand /\ Entries(path[i])' \subseteq cand'
      OBVIOUS
    <3>1. Entries(path[i]) \subseteq cand
      BY <1>5 DEF FillFits
    <3>2. IsOpen(d) => n \in cand
      BY <1>6, <3>1 DEF IsOpen
    <3>3. cand' = cand
      BY <1>1, <3>2
    <3>4. QED
      BY <1>2, <1>7, <1>10, <3>1, <3>3
  <2>2. \A j \in i..Len(path) : j \in 1..Len(path)
    BY <1>3, <1>11
  <2>3. QED
    BY <1>2, <1>5, <1>9, <2>1, <2>2 DEF FillFits
<1>14. QED
  BY <1>8, <1>12, <1>13

-----------------------------------------------------------------------------
(***************************************************************************)
(* The counting pass.                                                      *)
(***************************************************************************)
LEMMA HereFits == Inv /\ Fits /\ (IsRegularFile \/ IsExecutable) => Fits'
<1> SUFFICES ASSUME Inv, Fits, IsRegularFile \/ IsExecutable PROVE Fits'
  OBVIOUS
<1>1. /\ UNCHANGED <<files, path, Lists, hist>>
      /\ path \in Seq(Dir) /\ Len(path) \in Nat
      /\ pc' \in {"access", "count_open", "answered"}
      /\ i = 1 /\ count = 0 /\ list = <<>>
  BY PathOK DEF IsRegularFile, IsExecutable, Go, world, Inv, Fits
<1>2. UNCHANGED <<i, count, list>>
  BY <1>1 DEF Lists, dirvars
<1>3. pc' = "count_open" => \E s : (Prefix(s) /\ CountFits(s) /\ FillFits(s))'
  <2> DEFINE s == [j \in 0..Len(path) |-> 0]
  <2>1. /\ Prefix(s)
        /\ 0 \in 0..Len(path) /\ \A j \in 1..Len(path) : j \in 0..Len(path)
    BY <1>1 DEF Prefix
  <2>2. s[0] = 0 /\ \A j \in 1..Len(path) : s[j] = 0
    BY <2>1
  <2> PICK z : z = s
    OBVIOUS
  <2>3. Prefix(z)'
    BY <1>1, <2>1 DEF Prefix
  <2>4. pc' = "count_open" => CountFits(z)' /\ FillFits(z)'
    <3> HIDE DEF s
    <3> QED
      BY <1>1, <1>2, <2>2 DEF CountFits, FillFits
  <2>5. QED
    BY <2>3, <2>4
<1>4. QED
  BY <1>1, <1>2, <1>3 DEF Fits, Passes

\* The next directory is opened, or passed over.
LEMMA OpenCountFits == Inv /\ Fits /\ OpenCount => Fits'
<1> SUFFICES ASSUME Inv, Fits, OpenCount, ~grew', ~failed'
             PROVE  /\ pc' = "count"
                    /\ \E s : (Prefix(s) /\ CountFits(s) /\ FillFits(s))'
  BY DEF Fits, OpenCount, Go, Passes, Inv, TypeOK
<1>1. /\ UNCHANGED <<files, path, count, list>> /\ pc = "count_open" /\ pc' = "count"
      /\ Opened /\ ~grew /\ ~failed
  BY DEF OpenCount, Go, world
<1>2. PICK s : Prefix(s) /\ CountFits(s) /\ FillFits(s)
  BY <1>1 DEF Fits, Passes
<1>3. /\ i' = i /\ seen' = {} /\ stay' = Entries(path[i])
  BY <1>1 DEF Opened
<1>4. /\ list = <<>> /\ count = s[i - 1] /\ \A j \in i..Len(path) : s[j] = s[i - 1]
      /\ \A j \in 1..(i - 1) : Counted(s, j)
  BY <1>1, <1>2 DEF CountFits
<1>5. /\ \A j : Counted(s, j)' = Counted(s, j)
      /\ Entries(path[i])' = Entries(path[i])
  BY <1>1, <1>3 DEF Counted, Entries
<1>6. count = s[i - 1] + Cardinality({}) /\ IsFiniteSet({})
  <2>1. i - 1 \in 0..Len(path)
    BY PathOK DEF Inv, TypeOK
  <2>2. s[i - 1] \in Nat
    BY <1>2, <2>1 DEF Prefix
  <2>3. QED
    BY <1>4, <2>2, FS_EmptySet
<1>7. Prefix(s)'
  BY <1>1, <1>2 DEF Prefix
<1>8. CountFits(s)' /\ FillFits(s)'
  BY <1>1, <1>3, <1>4, <1>5, <1>6 DEF CountFits, FillFits
<1>9. QED
  BY <1>1, <1>7, <1>8

\* An entry is counted.
LEMMA CountEntryFits == Inv /\ Fits /\ CountEntry => Fits'
<1> SUFFICES ASSUME Inv, Fits, CountEntry, ~grew, ~failed
             PROVE  \E s : (Prefix(s) /\ CountFits(s) /\ FillFits(s))'
  BY DEF Fits, CountEntry, Go, Passes, hist
<1>1. /\ UNCHANGED <<files, path, i, stay, list>> /\ pc = "count" /\ pc' = "count"
      /\ count' = count + 1
  BY DEF CountEntry, Go, world
<1>2. PICK n : n \notin seen /\ seen' = seen \cup {n}
  BY DEF CountEntry, Unread
<1>3. PICK s : Prefix(s) /\ CountFits(s) /\ FillFits(s)
  BY <1>1 DEF Fits, Passes
<1>4. /\ IsFiniteSet(seen) /\ count = s[i - 1] + Cardinality(seen)
  BY <1>1, <1>3 DEF CountFits
<1>5. IsFiniteSet(seen') /\ count' = s[i - 1] + Cardinality(seen')
  <2>1. i - 1 \in 0..Len(path)
    BY PathOK DEF Inv, TypeOK
  <2>2. s[i - 1] \in Nat
    BY <1>3, <2>1 DEF Prefix
  <2>3. /\ IsFiniteSet(seen') /\ Cardinality(seen') = Cardinality(seen) + 1
        /\ Cardinality(seen) \in Nat
    BY <1>2, <1>4, FS_AddElement, FS_CardinalityType
  <2>4. QED
    BY <1>1, <1>4, <2>2, <2>3
<1>6. /\ \A j : Counted(s, j)' = Counted(s, j)
      /\ Entries(path[i])' = Entries(path[i])
  BY <1>1 DEF Counted, Entries
<1>7. Prefix(s)'
  BY <1>1, <1>3 DEF Prefix
<1>8. CountFits(s)' /\ FillFits(s)'
  BY <1>1, <1>3, <1>5, <1>6 DEF CountFits, FillFits
<1>9. QED
  BY <1>7, <1>8

\* A directory has been counted: there are places for what is in it now.
LEMMA CountEndFits == Inv /\ Fits /\ CountEnd => Fits'
<1> SUFFICES ASSUME Inv, Fits, CountEnd, ~grew, ~failed
             PROVE  \E s : (Prefix(s) /\ CountFits(s) /\ FillFits(s))'
  BY DEF Fits, CountEnd, Go, Passes, hist
<1>1. /\ UNCHANGED <<files, path, count, list>> /\ pc = "count" /\ pc' = "count_open"
      /\ i' = i + 1 /\ stay \subseteq seen
  BY DEF CountEnd, AllRead, NextDir, Go, world
<1>2. PICK s : Prefix(s) /\ CountFits(s) /\ FillFits(s)
  BY <1>1 DEF Fits, Passes
<1>3. /\ IsFiniteSet(seen) /\ count = s[i - 1] + Cardinality(seen) /\ list = <<>>
      /\ Entries(path[i]) \subseteq stay /\ \A j \in 1..(i - 1) : Counted(s, j)
  BY <1>1, <1>2 DEF CountFits
<1>4. /\ Len(path) \in Nat /\ i \in 1..Len(path) /\ i - 1 \in 0..Len(path)
  BY <1>1, PathOK DEF Inv, TypeOK
<1>5. /\ \A j \in 0..Len(path) : s[j] \in Nat
      /\ \A j, k \in 0..Len(path) : j <= k => s[j] <= s[k]
  BY <1>2 DEF Prefix
<1>6. /\ IsFiniteSet(Entries(path[i]))
      /\ Cardinality(Entries(path[i])) <= Cardinality(seen)
      /\ Cardinality(seen) \in Nat /\ Cardinality(Entries(path[i])) \in Nat
  BY <1>1, <1>3, FS_Subset, FS_CardinalityType
<1>7. count \in Nat /\ s[i - 1] <= count
      /\ Cardinality(Entries(path[i])) <= count - s[i - 1]
  <2> DEFINE a == s[i - 1]
             b == Cardinality(seen)
             e == Cardinality(Entries(path[i]))
  <2>1. a \in Nat /\ b \in Nat /\ e \in Nat /\ count = a + b /\ e <= b
    BY <1>3, <1>4, <1>5, <1>6
  <2> HIDE DEF a, b, e
  <2>2. count \in Nat /\ a <= count /\ e <= count - a
    BY ONLY <2>1
  <2>3. QED
    BY <2>2 DEF a, e
<1>8. PICK z : z = [j \in 0..Len(path) |-> IF j < i THEN s[j] ELSE count]
  OBVIOUS
<1>9. \A j \in 0..Len(path) : /\ j < i => z[j] = s[j] /\ s[j] <= count
                              /\ j >= i => z[j] = count
  BY <1>4, <1>5, <1>7, <1>8
<1>10. Prefix(z)'
  <2>1. z \in [0..Len(path) -> Nat] /\ z[0] = 0
    BY <1>2, <1>4, <1>5, <1>7, <1>8 DEF Prefix
  <2>2. ASSUME NEW j \in 0..Len(path), NEW k \in 0..Len(path), j <= k
        PROVE  z[j] <= z[k]
    BY <1>4, <1>5, <1>7, <1>9, <2>2
  <2>3. QED
    BY <1>1, <2>1, <2>2 DEF Prefix
<1>11. \A j \in 1..i : Counted(z, j)
  <2> SUFFICES ASSUME NEW j \in 1..i PROVE Counted(z, j)
    OBVIOUS
  <2>1. CASE j = i
    <3>1. z[i] = count /\ z[i - 1] = s[i - 1]
      BY <1>4, <1>9
    <3>2. QED
      BY <1>6, <1>7, <2>1, <3>1 DEF Counted
  <2>2. CASE j # i
    <3>1. j \in 1..(i - 1) /\ z[j] = s[j] /\ z[j - 1] = s[j - 1]
      BY <1>4, <1>9, <2>2
    <3>2. QED
      BY <1>3, <3>1 DEF Counted
  <2>3. QED
    BY <2>1, <2>2
<1>12. \A j : Counted(z, j)' = Counted(z, j)
  BY <1>1 DEF Counted, Entries
<1>13. i' - 1 = i /\ z[i] = count /\ \A j \in i'..Len(path) : z[j] = count
  BY <1>1, <1>4, <1>9
<1>14. CountFits(z)' /\ FillFits(z)'
  BY <1>1, <1>3, <1>11, <1>12, <1>13 DEF CountFits, FillFits
<1>15. QED
  BY <1>10, <1>14

\* The list gets the places that have been counted, and one more.
LEMMA MallocFits == Inv /\ Fits /\ CommandListMalloc => Fits'
<1>1. SUFFICES ASSUME Inv, Fits, CommandListMalloc, ~failed', ~grew'
               PROVE  \E s : (Prefix(s) /\ CountFits(s) /\ FillFits(s))'
  BY Outside DEF Fits, CommandListMalloc, Fail, Go, Passes
<1>2. /\ UNCHANGED <<files, path, list>> /\ pc = "count_open" /\ pc' = "fill_open"
      /\ i > Len(path) /\ i' = 1 /\ room' = count + 1 /\ ~failed /\ ~grew
  BY <1>1 DEF CommandListMalloc, Fail, Go, world, hist
<1>3. PICK s : Prefix(s) /\ CountFits(s) /\ FillFits(s)
  BY <1>1, <1>2 DEF Fits, Passes
<1>4. i = Len(path) + 1 /\ Len(path) \in Nat
  BY <1>1, <1>2, PathOK DEF Inv, TypeOK
<1>5. /\ list = <<>> /\ \A j \in 1..Len(path) : Counted(s, j)
      /\ count = s[Len(path)] /\ s[0] = 0
  BY <1>2, <1>3, <1>4 DEF CountFits, Prefix
<1>6. /\ Prefix(s)' /\ \A j : Counted(s, j)' = Counted(s, j)
  BY <1>2, <1>3 DEF Prefix, Counted, Entries
<1>7. CountFits(s)' /\ FillFits(s)'
  BY <1>2, <1>5, <1>6 DEF CountFits, FillFits
<1>8. QED
  BY <1>6, <1>7

-----------------------------------------------------------------------------
(***************************************************************************)
(* The filling pass.                                                       *)
(***************************************************************************)
\* What FillFits says of a state of the pass, unpacked.
LEMMA FillFacts ==
  ASSUME Inv, Fits, pc \in {"fill_open", "fill"}, ~grew, ~failed
  PROVE  \E s : /\ Prefix(s) /\ FillFits(s)
                /\ Len(path) \in Nat /\ i \in 1..(Len(path) + 1)
                /\ \A j \in 0..Len(path) : s[j] \in Nat /\ s[j] < room
                /\ i - 1 \in 0..Len(path) /\ Len(list) \in Nat
<1>1. PICK s : Prefix(s) /\ FillFits(s)
  BY DEF Fits, Passes
<1>2. Len(path) \in Nat /\ i \in 1..(Len(path) + 1) /\ Len(list) \in Nat
  BY PathOK DEF Inv, TypeOK
<1>3. room = s[Len(path)] + 1
  BY <1>1 DEF FillFits
<1>4. \A j \in 0..Len(path) : s[j] \in Nat /\ s[j] < room
  BY <1>1, <1>2, <1>3 DEF Prefix
<1>5. QED
  BY <1>1, <1>2, <1>4

LEMMA OpenFillFits == Inv /\ Fits /\ OpenFill => Fits'
<1> SUFFICES ASSUME Inv, Fits, OpenFill, ~grew', ~failed'
             PROVE  /\ pc' = "fill"
                    /\ \E s : (Prefix(s) /\ CountFits(s) /\ FillFits(s))'
  BY DEF Fits, OpenFill, Go, Fail, Passes
<1>1. /\ UNCHANGED <<files, path, list, room>> /\ pc = "fill_open" /\ pc' = "fill"
      /\ Opened /\ ~grew /\ ~failed
  BY DEF OpenFill, Go, Fail, world, hist
<1>2. PICK s : /\ Prefix(s) /\ FillFits(s)
               /\ Len(path) \in Nat /\ i \in 1..(Len(path) + 1)
               /\ \A j \in 0..Len(path) : s[j] \in Nat
               /\ i - 1 \in 0..Len(path) /\ Len(list) \in Nat
  BY <1>1, FillFacts
<1>3. i' = i /\ seen' = {} /\ cand' = Entries(path[i]) /\ i \in i..Len(path)
  BY <1>1, <1>2 DEF Opened
<1>4. /\ \A j : Counted(s, j)' = Counted(s, j)
      /\ Entries(path[i])' = Entries(path[i]) /\ Prefix(s)'
  BY <1>1, <1>2, <1>3 DEF Counted, Entries, Prefix
<1>5. /\ room = s[Len(path)] + 1 /\ \A j \in i..Len(path) : Counted(s, j)
      /\ Len(list) <= s[i - 1]
  BY <1>1, <1>2 DEF FillFits
<1>6. /\ IsFiniteSet(Entries(path[i]))
      /\ Cardinality(Entries(path[i])) <= s[i] - s[i - 1]
  BY <1>3, <1>5 DEF Counted
<1>7. Len(list) <= s[i - 1] + Cardinality({})
  BY <1>2, <1>5, FS_EmptySet
<1>8. CountFits(s)' /\ FillFits(s)'
  BY <1>1, <1>3, <1>4, <1>5, <1>6, <1>7 DEF CountFits, FillFits
<1>9. QED
  BY <1>1, <1>4, <1>8

\* There is a place for the entry that is read.
LEMMA FillEntryFits == Inv /\ Fits /\ FillEntry => Fits'
<1> SUFFICES ASSUME Inv, Fits, FillEntry, ~grew, ~failed
             PROVE  /\ pc' = "fill"
                    /\ \E s : (Prefix(s) /\ CountFits(s) /\ FillFits(s))'
  BY DEF Fits, FillEntry, Go, Passes, hist
<1>1. /\ UNCHANGED <<files, path, i, cand, room>> /\ pc = "fill"
      /\ pc' = IF Len(list) < room THEN "fill" ELSE "undefined"
  BY DEF FillEntry, Go, world
<1>2. PICK n \in cand : /\ n \notin seen /\ seen' = seen \cup {n}
                        /\ list' = Append(list, n)
  BY DEF FillEntry, Unread
<1>3. PICK s : /\ Prefix(s) /\ FillFits(s)
               /\ Len(path) \in Nat /\ i \in 1..(Len(path) + 1)
               /\ \A j \in 0..Len(path) : s[j] \in Nat /\ s[j] < room
               /\ i - 1 \in 0..Len(path) /\ Len(list) \in Nat
  BY <1>1, FillFacts
<1>4. /\ IsFiniteSet(cand) /\ Cardinality(cand) <= s[i] - s[i - 1]
      /\ Entries(path[i]) \subseteq cand
      /\ Len(list) <= s[i - 1] + Cardinality(seen)
      /\ room = s[Len(path)] + 1 /\ \A j \in i..Len(path) : Counted(s, j)
  BY <1>1, <1>3 DEF FillFits
<1>5. /\ seen \subseteq cand /\ n \in Name /\ list \in Seq(Name) /\ room \in Nat
      /\ i \in 1..Len(path)
  BY <1>1, <1>2, <1>3 DEF Inv, TypeOK
<1>6. /\ IsFiniteSet(seen) /\ Cardinality(seen) \in Nat
      /\ Cardinality(seen') = Cardinality(seen) + 1
      /\ Cardinality(seen') <= Cardinality(cand) /\ Cardinality(cand) \in Nat
  <2>1. IsFiniteSet(seen)
    BY <1>4, <1>5, FS_Subset
  <2>2. Cardinality(seen') <= Cardinality(cand)
    <3>1. seen' \in SUBSET cand
      BY <1>2, <1>5
    <3>2. QED
      BY <1>4, <3>1, FS_Subset
  <2>3. QED
    BY <1>2, <1>4, <2>1, <2>2, FS_AddElement, FS_CardinalityType
<1>7. s[i] \in Nat /\ s[i] < room /\ s[i - 1] \in Nat
  BY <1>3, <1>5
<1>8. Len(list) < room
  BY <1>3, <1>4, <1>5, <1>6, <1>7
<1>9. Len(list') <= s[i - 1] + Cardinality(seen')
  <2>1. Len(list') = Len(list) + 1
    BY <1>2, <1>5
  <2>2. QED
    BY <1>3, <1>4, <1>6, <1>7, <2>1
<1>10. /\ \A j : Counted(s, j)' = Counted(s, j)
       /\ Entries(path[i])' = Entries(path[i]) /\ Prefix(s)'
  BY <1>1, <1>3 DEF Counted, Entries, Prefix
<1>11. CountFits(s)' /\ FillFits(s)'
  BY <1>1, <1>4, <1>8, <1>9, <1>10 DEF CountFits, FillFits
<1>12. QED
  BY <1>1, <1>8, <1>10, <1>11

LEMMA FillEndFits == Inv /\ Fits /\ FillEnd => Fits'
<1> SUFFICES ASSUME Inv, Fits, FillEnd, ~grew, ~failed
             PROVE  \E s : (Prefix(s) /\ CountFits(s) /\ FillFits(s))'
  BY DEF Fits, FillEnd, Go, Passes, hist
<1>1. /\ UNCHANGED <<files, path, list, room>> /\ pc = "fill" /\ pc' = "fill_open"
      /\ i' = i + 1
  BY DEF FillEnd, NextDir, Go, world
<1>2. PICK s : /\ Prefix(s) /\ FillFits(s)
               /\ Len(path) \in Nat /\ i \in 1..(Len(path) + 1)
               /\ \A j \in 0..Len(path) : s[j] \in Nat
               /\ i - 1 \in 0..Len(path) /\ Len(list) \in Nat
  BY <1>1, FillFacts
<1>3. /\ IsFiniteSet(cand) /\ Cardinality(cand) <= s[i] - s[i - 1]
      /\ Len(list) <= s[i - 1] + Cardinality(seen)
      /\ room = s[Len(path)] + 1 /\ \A j \in i..Len(path) : Counted(s, j)
  BY <1>1, <1>2 DEF FillFits
<1>4. seen \subseteq cand /\ i \in 1..Len(path) /\ i - 1 \in 0..Len(path)
  BY <1>1, <1>2 DEF Inv, TypeOK
<1>5. /\ Cardinality(seen) <= Cardinality(cand)
      /\ Cardinality(seen) \in Nat /\ Cardinality(cand) \in Nat
  BY <1>3, <1>4, FS_Subset, FS_CardinalityType
<1>6. s[i] \in Nat /\ s[i - 1] \in Nat
  BY <1>2, <1>4
<1>7. Len(list) <= s[i]
  BY <1>2, <1>3, <1>5, <1>6
<1>8. i' - 1 = i /\ \A j \in i'..Len(path) : j \in i..Len(path)
  BY <1>1, <1>2, <1>4
<1>9. (\A j : Counted(s, j)' = Counted(s, j)) /\ Prefix(s)'
  BY <1>1, <1>2 DEF Counted, Entries, Prefix
<1>10. CountFits(s)' /\ FillFits(s)'
  BY <1>1, <1>3, <1>7, <1>8, <1>9 DEF CountFits, FillFits
<1>11. QED
  BY <1>9, <1>10

\* The null pointer has its place, too.
LEMMA CompareFits == Inv /\ Fits /\ Compare => Fits'
<1> SUFFICES ASSUME Inv, Fits, Compare PROVE Fits'
  OBVIOUS
<1> SUFFICES ASSUME ~grew, ~failed PROVE pc' = "answered"
  <2>1. pc' \notin Passes \cup {"stat", "access"} /\ grew' = grew /\ failed' = failed
    BY DEF Compare, Go, hist, Passes
  <2>2. QED
    BY <2>1, Outside
<1>1. Inv /\ Fits /\ Compare /\ ~grew /\ ~failed
  OBVIOUS
<1>2. pc = "fill_open" /\ i > Len(path)
  BY <1>1 DEF Compare
<1>3. PICK s : /\ Prefix(s) /\ FillFits(s)
               /\ Len(path) \in Nat /\ i \in 1..(Len(path) + 1)
               /\ \A j \in 0..Len(path) : s[j] \in Nat /\ s[j] < room
               /\ i - 1 \in 0..Len(path) /\ Len(list) \in Nat
  BY <1>1, <1>2, FillFacts
<1>4. Len(list) <= s[i - 1]
  BY <1>2, <1>3 DEF FillFits
<1>5. room \in Nat
  BY <1>1, PathOK DEF Inv, TypeOK
<1>6. Len(list) < room
  BY <1>3, <1>4, <1>5
<1>7. QED
  BY <1>1, <1>6 DEF Compare, Go

(***************************************************************************)
(* The places are enough, whatever goes from the directories meanwhile.    *)
(***************************************************************************)
LEMMA StepFits == Inv /\ Fits /\ [Next]_vars => Fits'
<1> SUFFICES ASSUME Inv, Fits, [Next]_vars PROVE Fits'
  OBVIOUS
<1>1. CASE SearchList
  BY <1>1 DEF SearchList, Begin, Fits, Passes
<1>2. CASE NoPathList \/ NoSecondPathList \/ FillFails
  BY <1>2, Outside DEF NoPathList, NoSecondPathList, FillFails, Fail, Go, Passes
<1>3. CASE Answered
  BY <1>3, Outside DEF Answered, Passes
<1>4. CASE CheckAccess \/ CheckStat \/ NotFound \/ FindFails \/ Exit
  BY <1>4, Outside DEF CheckAccess, CheckStat, NotFound, FindFails, Exit, Fail, Go, Passes
<1>5. CASE UNCHANGED vars
  BY <1>5
  DEF vars, world, dirvars, hist, Fits, Prefix, CountFits, FillFits, Counted, Entries
<1>6. QED
  BY <1>1, <1>2, <1>3, <1>4, <1>5, ChangeFits, HereFits, OpenCountFits, CountEntryFits,
     CountEndFits, MallocFits, OpenFillFits, FillEntryFits, FillEndFits, CompareFits
  DEF Next, Search, Failures

(***************************************************************************)
(* What the first pass has counted is enough for what the second reads, in *)
(* a PATH of any length and for directories of any size: nothing is ever   *)
(* written behind the list, unless a directory has gained an entry         *)
(* meanwhile or a call has failed.                                         *)
(***************************************************************************)
THEOREM ListFits == Spec => []RoomForAll
<1>1. Init => Fits
  BY DEF Init, Fits, Passes
<1>2. Fits => RoomForAll
  BY DEF Fits, RoomForAll
<1>3. QED
  BY <1>1, <1>2, StepFits, Inductive, PTL DEF Spec

=============================================================================
