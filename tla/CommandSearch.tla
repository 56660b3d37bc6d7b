---------------------------- MODULE CommandSearch ----------------------------
(***************************************************************************)
(* Whether a word is a command, and which file it names: search_list, with *)
(* which the parser asks twice (token_lst_helpers.c, tokenlst.c), and      *)
(* find_command_path, with which the child that is to run it asks again    *)
(* (executor_utils_path.c).  The first reads the directories of PATH twice *)
(* over, to count their entries and then to copy them into a list of that  *)
(* size; the other looks for one file in each of them.  Other programs     *)
(* change the directories meanwhile.                                       *)
(***************************************************************************)
EXTENDS Integers, Sequences, FiniteSets

CONSTANTS
  Dir, Cwd,    \* directories, and the shell's own
  Name,
  Starts,      \* what the directories may hold at first
  Paths,       \* values of PATH: sequences of directories
  MaxChanges   \* changes made by other programs (bound)

\* What a directory has under a name; one may search a directory, so that
\* access(X_OK) allows "exec" and "dir".
Kind == {"none", "exec", "plain", "dir"}
Files == [Dir -> [Name -> Kind]]

ASSUME DirAssumption == Cwd \in Dir
ASSUME StartsAssumption == Starts \subseteq Files
ASSUME PathsAssumption == Paths \subseteq Seq(Dir)
ASSUME ChangesAssumption == MaxChanges \in Nat

VARIABLES
  files,     \* directory -> name -> kind
  path,      \* PATH; the empty one stands for an unset one
  pc,        \* where the search is
  cmd,       \* the word
  i,         \* the directory of PATH that is looked at
  seen,      \* entries readdir has returned from it
  count,     \* count_commands_in_path
  room,      \* places in the list
  list,      \* the names in it
  answer,    \* what search_list has returned
  changes,   \* changes of the directories, in all
  cand,      \* entries the open directory has had since it was opened, ...
  stay,      \* ... and those it has had all the time
  ever,      \* directories that have had cmd since the search began, ...
  held,      \* ... that have had it all the time, ...
  runs,      \* ... and have had an executable file of that name all the time
  grew,      \* since then a directory has gained an entry, or the counting
             \* pass could not read one
  failed     \* since then something else has failed

world == <<files, path, changes>>
dirvars == <<i, seen, cand, stay>>
hist == <<ever, held, runs, grew, failed>>
vars == <<world, pc, cmd, dirvars, count, room, list, answer, hist>>

Entries(d) == {n \in Name : files[d][n] # "none"}

Init ==
  /\ files \in Starts /\ path \in Paths /\ changes = 0
  /\ pc = "idle" /\ cmd \in Name /\ answer = FALSE
  /\ i = 1 /\ seen = {} /\ cand = {} /\ stay = {}
  /\ count = 0 /\ room = 0 /\ list = <<>>
  /\ ever = {} /\ held = {} /\ runs = {} /\ grew = FALSE /\ failed = FALSE

-----------------------------------------------------------------------------
(***************************************************************************)
(* Other programs.                                                         *)
(***************************************************************************)
IsOpen(d) == pc \in {"count", "fill"} /\ path[i] = d

Change ==
  /\ changes < MaxChanges
  /\ changes' = changes + 1
  /\ \E d \in Dir, n \in Name, k \in Kind :
       /\ files[d][n] # k
       /\ files' = [files EXCEPT ![d][n] = k]
       /\ grew' = (grew \/ files[d][n] = "none")
       /\ cand' = IF IsOpen(d) /\ k # "none" THEN cand \cup {n} ELSE cand
       /\ stay' = IF IsOpen(d) /\ k = "none" THEN stay \ {n} ELSE stay
       /\ ever' = IF n = cmd /\ k # "none" THEN ever \cup {d} ELSE ever
       /\ held' = IF n = cmd /\ k = "none" THEN held \ {d} ELSE held
       /\ runs' = IF n = cmd /\ k # "exec" THEN runs \ {d} ELSE runs
  /\ UNCHANGED <<path, pc, cmd, i, seen, count, room, list, answer, failed>>

\* A search begins: nothing has happened since.
Begin(n) ==
  /\ cmd' = n
  /\ ever' = {d \in Dir : files[d][n] # "none"}
  /\ held' = ever'
  /\ runs' = {d \in Dir : files[d][n] = "exec"}
  /\ grew' = FALSE /\ failed' = FALSE
  /\ i' = 1 /\ seen' = {} /\ cand' = {} /\ stay' = {}
  /\ count' = 0 /\ room' = 0 /\ list' = <<>>
  /\ UNCHANGED world

Go(l) == pc' = l /\ UNCHANGED <<world, cmd>>

\* Something fails.
Fail(l) == Go(l) /\ failed' = TRUE /\ UNCHANGED <<ever, held, runs, grew>>

-----------------------------------------------------------------------------
(***************************************************************************)
(* search_list.                                                            *)
(***************************************************************************)
\* is_builtin has been asked before or will be asked after; any word comes.
SearchList ==
  /\ pc = "idle"
  /\ \E n \in Name : Begin(n)
  /\ pc' = "stat"
  /\ UNCHANGED answer

Lists == <<dirvars, count, room, list>>

\* is_valid_exc: is_regular_file, then is_executable.
IsRegularFile ==
  /\ pc = "stat"
  /\ Go(IF files[Cwd][cmd] \in {"exec", "plain"} THEN "access" ELSE "count_open")
  /\ UNCHANGED <<Lists, answer, hist>>

IsExecutable ==
  /\ pc = "access"
  /\ IF files[Cwd][cmd] \in {"exec", "dir"}
     THEN Go("answered") /\ answer' = TRUE
     ELSE Go("count_open") /\ UNCHANGED answer
  /\ UNCHANGED <<Lists, hist>>

\* get_path_list fails in the counting pass.
NoPathList ==
  /\ pc = "count_open" /\ i = 1
  /\ Fail("answered") /\ answer' = FALSE
  /\ UNCHANGED Lists

Opened ==
  /\ i <= Len(path)
  /\ seen' = {} /\ cand' = Entries(path[i]) /\ stay' = Entries(path[i])
  /\ UNCHANGED i

NextDir ==
  /\ i' = i + 1
  /\ seen' = {} /\ cand' = {} /\ stay' = {}

\* count_commands_in_path; a directory that cannot be opened is passed over.
OpenCount ==
  /\ pc = "count_open"
  /\ \/ Opened /\ Go("count") /\ UNCHANGED <<ever, held, runs, grew, failed>>
     \/ /\ i <= Len(path) /\ NextDir /\ Go(pc) /\ grew' = TRUE
        /\ UNCHANGED <<ever, held, runs, failed>>
  /\ UNCHANGED <<count, room, list, answer>>

\* Entries that come and go while a directory is read may be returned or not.
Unread == cand \ seen
AllRead == stay \subseteq seen

CountEntry ==
  /\ pc = "count"
  /\ \E n \in Unread : seen' = seen \cup {n}
  /\ count' = count + 1
  /\ Go(pc) /\ UNCHANGED <<i, cand, stay, room, list, answer, hist>>

CountEnd ==
  /\ pc = "count" /\ AllRead
  /\ NextDir
  /\ Go("count_open") /\ UNCHANGED <<count, room, list, answer, hist>>

\* Slip: no place for the null pointer behind the names.
CommandListMallocTight ==
  /\ pc = "count_open" /\ i > Len(path)
  /\ i' = 1 /\ UNCHANGED <<seen, cand, stay, count, list>>
  /\ \/ Go("fill_open") /\ room' = count /\ UNCHANGED <<answer, hist>>
     \/ Fail("answered") /\ answer' = FALSE /\ UNCHANGED room

\* command_list_malloc
CommandListMalloc ==
  /\ pc = "count_open" /\ i > Len(path)
  /\ i' = 1 /\ UNCHANGED <<seen, cand, stay, count, list>>
  /\ \/ Go("fill_open") /\ room' = count + 1 /\ UNCHANGED <<answer, hist>>
     \/ Fail("answered") /\ answer' = FALSE /\ UNCHANGED room

\* get_path_list fails in the second pass: init_command_list frees a list
\* in which nothing has been written.
NoSecondPathList ==
  /\ pc = "fill_open" /\ i = 1
  /\ Fail("undefined")
  /\ UNCHANGED <<Lists, answer>>

\* populate_command_list
OpenFill ==
  /\ pc = "fill_open"
  /\ \/ Opened /\ Go("fill") /\ UNCHANGED hist
     \/ i <= Len(path) /\ NextDir /\ Fail(pc)
  /\ UNCHANGED <<count, room, list, answer>>

\* Beyond the end of the list anything may be overwritten.
FillEntry ==
  /\ pc = "fill"
  /\ \E n \in Unread :
       /\ seen' = seen \cup {n}
       /\ list' = Append(list, n)
  /\ Go(IF Len(list) < room THEN pc ELSE "undefined")
  /\ UNCHANGED <<i, cand, stay, count, room, answer, hist>>

FillFails ==
  /\ pc = "fill" /\ Unread # {}
  /\ IF Len(list) < room THEN Fail("answered") /\ answer' = FALSE
                         ELSE Fail("undefined") /\ UNCHANGED answer
  /\ UNCHANGED Lists

FillEnd ==
  /\ pc = "fill" /\ AllRead
  /\ NextDir
  /\ Go("fill_open") /\ UNCHANGED <<count, room, list, answer, hist>>

\* Slip: only the first name of the list is compared.
CompareFirst ==
  /\ pc = "fill_open" /\ i > Len(path)
  /\ IF Len(list) < room
     THEN Go("answered") /\ answer' = (Len(list) > 0 /\ list[1] = cmd)
     ELSE Go("undefined") /\ UNCHANGED answer
  /\ UNCHANGED <<Lists, hist>>

\* The null pointer is written, and search_list compares.
Compare ==
  /\ pc = "fill_open" /\ i > Len(path)
  /\ IF Len(list) < room
     THEN Go("answered") /\ answer' = (\E n \in 1..Len(list) : list[n] = cmd)
     ELSE Go("undefined") /\ UNCHANGED answer
  /\ UNCHANGED <<Lists, hist>>

\* The word is a command and is run, or it is not, or the other search of
\* the parser comes.
Answered ==
  /\ pc = "answered"
  /\ \/ pc' = "idle" /\ UNCHANGED <<world, cmd, Lists, hist>>
     \/ answer /\ Begin(cmd) /\ pc' = "find"
  /\ UNCHANGED answer

-----------------------------------------------------------------------------
(***************************************************************************)
(* find_command_path, in the process that is to run the command.           *)
(***************************************************************************)
Path == <<seen, cand, stay, count, room, list, answer>>

\* ft_split or ft_path_join fails: the command is not found.
FindFails ==
  /\ pc = "find"
  /\ Fail("notfound")
  /\ UNCHANGED <<i, Path>>

\* Slip: the directories are tried from the right.
CheckAccessRight ==
  /\ pc = "find" /\ i <= Len(path)
  /\ IF files[path[Len(path) + 1 - i]][cmd] \in {"exec", "dir"}
     THEN Go("find_stat") /\ UNCHANGED i
     ELSE Go(pc) /\ i' = i + 1
  /\ UNCHANGED <<Path, hist>>

\* Slip: the next directory is taken before the file of this one is known.
CheckAccessSkips ==
  /\ pc = "find" /\ i <= Len(path)
  /\ Go(IF files[path[i]][cmd] \in {"exec", "dir"} THEN "find_stat" ELSE pc)
  /\ i' = i + 1
  /\ UNCHANGED <<Path, hist>>

\* check_path_access: access, and then stat.
CheckAccess ==
  /\ pc = "find" /\ i <= Len(path)
  /\ IF files[path[i]][cmd] \in {"exec", "dir"}
     THEN Go("find_stat") /\ UNCHANGED i
     ELSE Go(pc) /\ i' = i + 1
  /\ UNCHANGED <<Path, hist>>

\* Slip: a directory of that name is not passed over.
CheckStatStays ==
  /\ pc = "find_stat"
  /\ Go(IF files[path[i]][cmd] \in {"exec", "plain"} THEN "execve" ELSE "find")
  /\ UNCHANGED <<i, Path, hist>>

CheckStat ==
  /\ pc = "find_stat"
  /\ IF files[path[i]][cmd] \in {"exec", "plain"}
     THEN Go("execve") /\ UNCHANGED i
     ELSE Go("find") /\ i' = i + 1
  /\ UNCHANGED <<Path, hist>>

NotFound ==
  /\ pc = "find" /\ i > Len(path)
  /\ Go("notfound")
  /\ UNCHANGED <<i, Path, hist>>

\* The process runs the file, or exits with 126, 1 or 127.
Exit ==
  /\ pc \in {"execve", "notfound"}
  /\ Go("idle")
  /\ UNCHANGED <<i, Path, hist>>

-----------------------------------------------------------------------------
Search ==
  \/ IsRegularFile \/ IsExecutable \/ OpenCount \/ CountEntry \/ CountEnd
  \/ CommandListMalloc \/ OpenFill \/ FillEntry \/ FillEnd \/ Compare
  \/ CheckAccess \/ CheckStat \/ NotFound

Failures == NoPathList \/ NoSecondPathList \/ FillFails \/ FindFails

Next ==
  \/ SearchList \/ Search \/ Failures \/ Answered \/ Exit \/ Change
  \/ pc = "undefined" /\ UNCHANGED vars

Spec == Init /\ [][Next]_vars

\* A search runs on.
FairSpec == Spec /\ WF_vars(Search)

-----------------------------------------------------------------------------
(***************************************************************************)
(* Properties.                                                             *)
(***************************************************************************)
TypeOK ==
  /\ files \in Files /\ path \in Paths /\ changes \in 0..MaxChanges
  /\ pc \in {"idle", "stat", "access", "count_open", "count", "fill_open", "fill",
             "answered", "undefined", "find", "find_stat", "execve", "notfound"}
  /\ cmd \in Name /\ answer \in BOOLEAN
  /\ i \in 1..(Len(path) + 1)
  /\ pc \in {"count", "fill", "find_stat", "execve"} => i <= Len(path)
  /\ seen \subseteq cand /\ stay \subseteq cand /\ cand \subseteq Name
  /\ count \in Nat /\ room \in 0..(count + 1) /\ list \in Seq(Name)
  /\ ever \subseteq Dir /\ held \subseteq ever /\ runs \subseteq held
  /\ grew \in BOOLEAN /\ failed \in BOOLEAN

(***************************************************************************)
(* The second pass finds room for all it reads: as long as no directory    *)
(* has gained an entry since the first began, and the first has read them  *)
(* all, and get_path_list succeeds, nothing is written or freed that the   *)
(* list does not have.  Entries may go at any time.                        *)
(***************************************************************************)
RoomForAll == ~grew /\ ~failed => pc # "undefined"

(***************************************************************************)
(* What search_list says is true of the time it took: a word it finds was  *)
(* in the shell's directory or one of PATH at some moment, and a word it   *)
(* does not find was in none of PATH, and no executable file of the        *)
(* shell's directory, all the time.                                        *)
(***************************************************************************)
Answer ==
  pc = "answered" =>
    /\ answer => \E d \in ever : d = Cwd \/ \E n \in 1..Len(path) : path[n] = d
    /\ ~answer /\ ~failed =>
         Cwd \notin runs /\ \A n \in 1..Len(path) : path[n] \notin held

(***************************************************************************)
(* The directories of PATH are tried from left to right: no directory to   *)
(* the left of the one that is chosen, and none at all when none is, has   *)
(* had an executable file of that name all the time.                       *)
(***************************************************************************)
Leftmost ==
  /\ pc = "execve" => \A n \in 1..(i - 1) : path[n] \notin runs
  /\ pc = "notfound" /\ ~failed => \A n \in 1..Len(path) : path[n] \notin runs

\* Every search ends, whatever the directories do meanwhile.
SearchEnds == pc \notin {"idle", "undefined"} ~> pc \in {"answered", "execve", "notfound", "undefined"}
=============================================================================
