# A verification project for the shell in `src/`

The program is a small shell: it reads a line, cuts it into tokens, arranges
the tokens in a tree of pipes, redirections and commands, and executes the
tree by forking processes and moving descriptors. The modules here model that
path from the characters of a line to the next prompt, with the environment,
the builtins, the signals, the reading of here-documents and the search for
commands. TLC checks them on small instances; TLAPS proves the main results
for instances of every size.

## 1. Inventory

| Component | State it keeps | Operations | Modules |
|---|---|---|---|
| Prompt loop (`main.c`, `readline_loop.c`, `input_handler.c`) | the shell structure: environment, `g_exit_code`, the current list and tree | read a line, reject it, run it, end at the end of input | `Exec`, `Parser`, `Words` |
| Lexer (`tokenlst_split_input.c`, `tokenlst_v2.c`) | position in the line, the tokens so far | skip spaces, cut a quoted text, an operator or a word, set `merge_next` | `Lexer` |
| Quote handling (`quote_handling.c`) | the value of a token and its literal flag | take single quotes off, lose a double-quoted value, reject an unclosed quote | `Words`, `Parser` |
| Expander (`expander*.c`) | a growing buffer, a position in the token, `$?`; the environment, which it assigns to and reads | assign, copy a character, expand `$?` and `$NAME`, grow, give up | `Expand`, `Words` |
| Parser (`init_node*.c`, `who_is_node.c`, `handler_args_file.c`, `merge_to_token_exception.c`, `lkd_lst1.c`, `yggdrasil/`) | a linked list of tokens with ids, then a tree over the same tokens | type tokens, merge, remove, attach files and arguments, search for operands, build | `Parser` |
| Command search (`tokenlst.c`, `token_lst_helpers.c`, `executor_utils_path.c`) | a counted list of the names found in PATH | count, allocate, fill, compare; look for one file in each directory | `CommandSearch` |
| Environment and builtins (`executor_utils_*.c`, `expander_variable_assignment.c`) | `shell->env`, the working directory, a sorted copy | `export`, `unset`, `cd`, assignments, the listing of `export` | `Env` |
| Executor, pipelines (`executor*.c`) | per process: descriptors 0 and 1, saved copies, pipe ends, position in the tree; the kernel's pipes and wait statuses; `g_exit_code` | dispatch, `pipe`, `fork`, `dup2`, `close`, `waitpid`, `exit` | `Exec` |
| Executor, redirections and here-documents (`executor_redir*.c`, `executor_signals.c`) | `redir_nodes[]`, saved stdin and stdout, the here-document's pipe | collect a chain, open and `dup2` its files, take the body, restore | `Exec` |
| `echo`, `exit` and other output | none of their own | write, set the status, end the process | `Exec` |
| Line reader (`get_next_line*.c`, `read_heredoc_lines`) | one static buffer per process | read a chunk, join it, cut a line, keep the rest | `LineReader` |
| Signals (`main.c`, `handler_ctrl_c.c`, `executor_signals.c`, `executor_fd_utils.c`) | dispositions of SIGINT and SIGQUIT in each process | set, inherit, ignore while waiting, reset in programs; the handler | `Signals` |
| `libft` | the list of allocations | strings, lists, printing | not modelled |
| Code never reached | | | not modelled |

How they interact. `input_handler` calls the lexer, the quote handler, then the
parser's passes over one linked list, in between the assignments and the
expander, then `make_yggdrasil`, and gives the tree to `execute_ast`. The
executor is recursive: a pipe node forks one child for each operand and each
child calls `execute_ast` on its subtree, so a process may at once be a reader
of one pipe, the maker of another and a parent. Processes share the pipes, and
descriptors, dispositions and `get_next_line`'s buffer by inheritance; the
shell's own 0 and 1 are replaced for a command and must be put back. The
environment is read by the expander and changed by builtins and assignments.
The parser asks whether a word is a command, and the child that runs it asks
again with other code, while other programs may change the directories. Keys
reach every process of a line, whatever it is doing.

What is hard, and the properties that matter:

* **Concurrency and order (executor).** End of file and SIGPIPE come from the
  *last* holder of a pipe's end, in whatever process; one `close` too few in
  any of three functions hangs a pipeline, one `waitpid` too few makes a reader
  see the end too early. `NoEarlyEof`, `NoEarlyBrokenPipe`, `LineEnds`.
* **Failure of one step of several.** `pipe`, `fork`, `dup`, `dup2`, `open`
  may fail after others have succeeded; `CleanPrompt` says that the prompt
  comes back with no process left over and no end of a pipe held, and to the shell's
  own descriptors but for what a failing `restore_fds` or `save_original_fds` has lost.
  `malloc` fails in the lexer, the expander and the builtins (`Partition`,
  `Buffer`, `Refines`).
* **A status that travels** through `exit`, `waitpid` and `g_exit_code` of
  several processes: `StatusOfLast`, and with signals `KeyStatus`.
* **Keys at any moment**, between a fork and the setting of dispositions, or in
  a process that writes to a pipe: `DispositionsOK`, `IntactUnlessCut`,
  `InterruptEnds`.
* **State kept between calls and copied by fork** (`get_next_line`): `Queue`,
  `WholeLines`, `TerminalClean`, `DocReturns`.
* **A check and its use** with other programs in between (the search of PATH):
  `RoomForAll`, `Answer`, `Leftmost`, `SearchEnds`.
* **A list changed while it is walked**, and searched by an id: `BuiltTree`,
  `TreeIsTheList`, `TreeNeverCrashes`, `OneTokenLives`.
* **Passes in the right order** over one line: `FromLine`.
* **Boundaries** in the sort, the buffer and the lexer: `SortInv`, `Buffer`,
  `Shapes`, `MergeTouches`.

`PROJECT.json` lists every hazard with its line in the source.

## 2. Plan

Order, the most important behaviour first. Items 1 to 9 are done.

1. `SyntaxTree`, `Exec`: the executor with all its processes; `ExecInv` holds
   the inductive invariant; proofs in `ExecProofs`: types and each process by
   itself, the forest of processes, end of file and SIGPIPE in order, the way of a status.
2. `Parser`: what `execute_ast` is given. It shares `SyntaxTree` with `Exec`,
   and `BuiltTree` is the assumption `TreesAssumption` of `Exec`. Proofs in `ParserProofs`.
3. `EnvData`, `EnvMap`, `Env`: the environment, with the abstract specification
   `EnvMap` (a function from names to values) that the array implements;
   proofs, the refinement among them, in `EnvProofs`.
4. `Lexer` and `Expand` over `Chars`.
5. `Words`: the composition of the lexer, the quote handler, the assignments
   and the expander; proofs in `WordsProofs`.
6. `Signals`: over the whole of `Exec`; proofs in `SignalsProofs`.
7. `LineReader`; proofs in `LineReaderProofs`.
8. `CommandSearch`; proofs in `CommandSearchProofs`.
9. `Induction`: the lemmas that stand for induction in the other proof modules.
10. Left: the tokens of `Words` as the lines of `Parser`; an abstract
   specification of the executor (a line is the concurrent run of its commands
   over ideal pipes) that `Exec` implements.

## 3. Modules and the code

### Exec (with SyntaxTree)

A process is `<<"shell", 0>>`, `<<"child", n>>` (forked for the operand `n` of a
pipe) or `<<"ext", n>>` (forked to exec the command of node `n`). Each has a
program counter `pc`, the node `cur` its redirection chain has reached, the
collected nodes `rs` (`redir_nodes[]`), seven descriptor slots `fds` (stdin,
stdout, the two saved copies, the two ends of the pipe being made, and a copy of stdout
that nobody closes any more) and, once dead, a wait status `rc`. `buf[n]` counts the units in the pipe of node `n`;
`gx` is `g_exit_code`. The actions follow the functions: `Dispatch` is
`execute_ast` up to its switch; `MakePipe`, the forks, the children's set-up, the closes
and the two waits are `execute_pipe_command` and its helpers, one action per
system call where another process can see the difference; `Chain` collects and
applies redirections; `Heredoc` takes a body line by line; `Run` is the command
itself, and restores the descriptors where the code does. `Program` is a program
of the outside world, chosen among a few kinds (reads all and copies, writes for
ever, ends by itself, cannot be started); `Typed` is the user at its input.

Two calls that fail leave their mark on the process. `restore_fds` only reports a
`dup2` that fails and then closes the copies, so stdin or stdout stays
redirected (`Restored`, with the losses `lost`); `save_original_fds` closes
nothing when the `dup` of stdin fails and that of stdout does not (the slot `leak`). The
constant `Faults` says which of the two standard descriptors and whether the copy may be lost this
way; `{}` is a system in which these calls succeed, and the
theorems hold for every value. A shell whose stdin is lost takes its next lines
from the file or the here-document it is left with (`AfterLine`), and ends with it. Every
other call may fail at any time, whatever `Faults` is: the `dup`s and `dup2`s that
set descriptors, `pipe`, `fork`, `open`, and in a here-document `pipe`, the `dup`s, the `write` of a
line (`HeredocStore`) and the `dup2` after the body (`HeredocEnd`).

Abstractions: a unit is one `read` or `write`; `echo` stands for all builtins
that write; what `get_next_line` reads ahead is left to `LineReader`. A
redirection's file opens or not, freely.
`Exec` takes any tree that satisfies `TreesAssumption`, which is the interface of
`execute_ast`; the trees of the parser are among them (`TreeForExec`).

### Signals

`Signals` conjoins the actions of `Exec` with the dispositions `disp` of every
process. `Press(s)` is a key: the terminal sends it to all processes that do not
ignore it, since the shell makes no process group. `Take(p)` is its delivery: the
handler, which writes a newline to descriptor 1, or the end of the process.
`SigInterpret` and `SigProgram` set the dispositions where `parent_wait_external` and
`child_exec_external` do, as steps of their own, one for each signal (`Halfway`), so that keys come between. `signal()`
restarts interrupted system calls, so a handled key disturbs no step of `Exec`.
`cut` remembers that an interpreter was killed while it had children.

### Chars, Lexer, Expand, Words

`Words` takes a line through the passes of `input_handler` that work on its text:
`Cut` is a step of `Lexer` (`split_input`, a step per character; `tokens` has the
borders of each token and its `merge_next` flag); `SingleQuotes`, `DoubleQuotes` and `NoQuotes` are the
quote handler for one token, `Checked` is `has_parser_error`, `Assign` is
`apply_variable_assignment`, `ExpandStep` a step of `Expand`
(`expand_token_list_no_assignments`, a step per character, with `res`/`cap` of the
buffer and `i`, `start` of the code). Every `malloc` in them may fail; `failed` remembers
that one did, for the properties only. `Trimmed` is `ft_strtrim` with its two searches
and `ft_substr`: of a text that is only quotes the search from the right passes the front of the text; the
byte it reads there decides nothing about the result, which `ft_substr` makes empty, and is left out. The typing and the merging of tokens run between these passes
and are in `Parser`; they change no value, because equal ids keep any token from
being merged.

### Parser

The list of tokens with `next`, ids and types; one action per function that
`input_handler` calls (`Split`, `Typealize`, `Merge`, `Assign`, `HandleToken`,
`CmdNotFound`, `InitYggdrasil`, `MakeYggdrasil`), with the recursion of
`make_yggdrasil` as a stack `calls`. The loops of the merge and of `cmd_handler_args` are
a step per round (`at`, `cmd` say where they are): each round looks for tokens in the list the
round before has changed. `Reach` is the list from a token on, `Prev` is `get_prev_node`.
A token taken out of the list keeps its next
pointer, as in the code. Of a token's text only its class is kept. The ids come from
the constant `TokenIds`, so that one model answers both for the code as it is
(`SameId`: `get_token_id` resets its counter) and for what lies behind that
(`CountedId`). `find_left_token` and `find_right_token` each read the rank of the token their step
leads to; `DerefNull` and `DerefNullRight` are the cases where there is none, and `Crash` the step they lead to. The
left operand's call ends at the token itself and the right one's where its own does (`Operands`); `AttachArg` may find no memory and attach nothing. `Built` is the tree as the executor gets it: its nodes, which are tokens here, get
the numbers they have in pre-order (`Place`), as `Exec` names its nodes.

### EnvData, EnvMap, Env

`env` is the array in its order, each string a name and a value. A
builtin's loop over its arguments is a step per argument, the sort of `export`
a step per comparison. Names and values are numbers in the order of `ft_strcmp`;
a path names one directory. `unset` without arguments does nothing and is left
out. `EnvMap` knows a function from names to values, and what each builtin
may do to it; `Refines` is its specification under `map <- Map`, where
`Map[n]` is what `get_env_value` answers.

### LineReader

The standard input is a sequence, followed by a text for whatever else is read; a
character is named by its place in both. The place `off` that has been read of the input is
shared by all processes, the static buffer `buf` belongs to each and is copied by `Fork`. `fd0` is what a
process has on descriptor 0: the shell's standard input; a file (`RedirIn`) or the pipe of a
here-document before; or, in the right operand of a pipe, the left operand's pipe, which `right_child` puts there
before the operand is executed. `ReadInput` and `ReadPipe` are one turn of the loop of `ft_take_date` on
the standard input and on the others, with whatever `read` returns (a terminal gives one line at most, a file or pipe any chunk);
`TakeLine` is `ft_take_line`, `ft_rebuffer` and what `read_heredoc_lines` does with the line.
A zero byte ends a chunk as `strlen_gnl` sees it. `ReadLine` and
`ProgramReads` are readline at the prompt and a program, who read past the buffer.
What is in a here-document's pipe (`pipe`) is what a second here-document of the same
command reads, for `handle_heredoc` has put it on descriptor 0. The history variable `mixed` remembers that a
here-document of the process, or of the shell before it forked it, has read something else than the standard input.
`is_heredoc_delim` reads one byte behind a line shorter than the delimiter; its value decides nothing, and it is left out.

### CommandSearch

The directories are a function `files` from directory and name to what is there,
and `Change` is any other program. A search is `search_list` (the shell's own directory, a
pass over PATH that counts entries, the allocation, a pass that copies them, the comparison)
or `find_command_path` (`access`, then `stat`, in each directory). An entry that appears or goes
while its directory is read may be returned or not, as for `readdir`. The history
variables `ever`, `held` and `runs` say in which directories the word was
at some moment, all the time, and as an executable file all the time.

## 4. What the runs check

| Run | Instance | Result |
|---|---|---|
| `exec` | 14 trees of up to 5 nodes: pipelines of three, redirections in a pipe, more of them than the limit, a here-document into a pipe, a builtin into a pipe, each kind of single command; pipes of one unit, files of one, bodies of one line, a limit of two redirections, exit codes 0 and 1; no descriptor is lost | `TypeOK` (no chain runs over `redir_nodes[]`), `NoEarlyEof`, `NoEarlyBrokenPipe`, `CleanPrompt`, `StatusOfLast`, `IInv` (the inductive invariant of the proofs) and, under fairness, `LineEnds` hold |
| `exec_faults` | 8 trees: here-documents, alone and behind a file, nodes without operand or file, a pipe under a redirection, `exit` and `echo`; the shell may lose stdin, stdout and a copy, for the lines that follow too | `CleanPrompt` and `IInv` hold |
| `signals` | `yes \| true`, `cat` and a here-document; one key per line | `DispositionsOK`, `IntactUnlessCut`, `KeyStatus`, and under fairness `LineEnds` and `InterruptEnds` hold |
| `words` | lines of three families, with assignments in front or quoted; a buffer of 2; values longer than it and with `$` in them | `TypeOK`, `Partition`, `Shapes`, `MergeTouches`, `Buffer`, `FromLine`, `Ends` hold |
| `parser` | all lines of up to three tokens, those of four without the rarest texts, glued tokens; ids as the code gives them, and distinct | with the code's ids only a line of at least two tokens crashes (`OneTokenLives`); with distinct ones the tree is one of `Exec`'s (`BuiltTree`), in the order of the list (`TreeIsTheList`), left-leaning (`RightIsLeaf`), and both searches of its construction stay inside the list (`TreeNeverCrashes`) |
| `env` | an empty environment and one of four variables, two directories, up to two arguments | `TypeOK`, `NoDuplicates`, `SortInv`, `Refines` hold |
| `line_reader` | four inputs of four characters, among them ends of input and zero bytes in the middle, with texts of up to three in files and from the left operand; chunks of up to two, two here-documents in a command, two children; terminal or not | `TypeOK`, `Queue`, `WholeLines`, `TerminalClean`, `DocReturns` hold |
| `command_search` | three directories, one of them the shell's own, two names, a PATH that is unset, without or with the shell's directory; two changes | `TypeOK`, `RoomForAll`, `Answer`, `Leftmost`, `SearchEnds` hold |
| `exec_mixed`, `exec_heredoc`, `parser_crash`, `signals_prompt` | one property each | violated: see section 6 |

The bounds. In `exec` a pipe of one unit is full after one write, so that every
writer blocks and every reader waits; five nodes give three commands and two
pipes, so a middle program that reads and writes and a child that forks, or a
pipe with two redirections under it; a chain of three redirections exceeds the limit of two; bodies
of one line are the largest that fit the pipe. The shell goes on with the next
line after the prompt, so a descriptor or process left over by one line meets the
next. In `signals` one key may come between any two steps of any line, and the next
line has its own; the three trees have a writer that never ends by itself, a program that waits for the
user, and a shell that takes a here-document itself. In `words` lines of five characters hold
a quoted text and its neighbours or two operators and a word; a buffer of two bytes
doubles up to twice inside one token and inside one value; the third and
fourth family have up to two assignments in front of `$a`. In
`env` four variables give the sort three passes with early and late
exits, and let `unset` shift the first, a middle and the last place. `parser`
lines of three tokens reach each removal at the
head, in the middle and at the end of the list, those of four two operators
with operands. In `line_reader` four characters and chunks of two are enough for a line that spans chunks and a
chunk that spans lines, and the delimiter may come first, in the middle, behind an end of input or not at all. In `command_search` two
changes take a file away on the left and put one back on the right of the
directory being looked at, or add one between the passes. Every one of these
numbers is a bound of the checking only: the theorems of section 5 have none of them.

Fairness. In `Exec` every process runs as long as it can (weak fairness of each
`Interpret(p)` and `Program(e)`): the kernel's scheduler. Nothing is assumed of
the user: an interpreter that takes a here-document from the terminal is fair only outside of that
read (`Ready`), and `LineEnds` excuses a line in which a program or a
here-document waits for the user (`Asking`). Nor is a read that blocks assumed to fail. `Signals` adds that the kernel delivers a pending signal (weak fairness of `Take(p)`);
nobody need press a key. `Words` and the searches of `CommandSearch` are sequential code that runs on once
it is called; nothing is assumed of when, or whether, they are called, nor
of other programs. In `LineReader` each process's `Reader` steps are weakly fair, a read from standard input among them:
`DocReturns` is about the loop of `get_next_line` and not about a user who goes away.
`Words` ends, so its run does not check deadlock; everywhere else a state
without a step is an error.

## 5. What is proved

All for every value of the constants that satisfies the named assumptions:
`NodeAssumption`, `TreesAssumption` (at least one tree; its nodes are numbered in
pre-order), `BoundsAssumption` (the bounds are numbers, exit codes 0 to
255), `FaultsAssumption` (`Faults` is any part of stdin, stdout and the copy) for `Exec`, and `KeysAssumption` for `Signals`; `NamesAssumption`, `ValuesAssumption`, `ArgsAssumption` and
`InheritedAssumption` (the environment the shell is started with has no
duplicates) for `Env`; `NodeAssumption`, `LinesAssumption` (lines of lexemes, none empty; a token
touches the next one only where that is no operator, as `proximity_exception` says) and `IdAssumption` (ids are
all the same or all different) for `Parser`; `InputsAssumption`, `DelimitersAssumption` (sequences of
characters) and `BufferAssumption` (a chunk has at least one character) for `LineReader`; `CharAssumption`, `LinesAssumption`, `CapAssumption` (the first size is
positive), `StatusAssumption` and `ValuesAssumption` for `Words`;
`DirAssumption`, `StartsAssumption`, `PathsAssumption` and `ChangesAssumption` for `CommandSearch`.

**Executor** (`ExecProofs`). `TypeCorrect`, `PipesSeparated`, `PromptClean`, `EofInOrder`,
`SigpipeInOrder`, `StatusPassed`, `Inductive`. None of the properties is inductive
by itself: that the shell's prompt is clean depends on where its children are, and
that a pipe's writer is held depends on the whole path of processes from the
operand down. The invariant `IInv` has these parts:

* `Local`: for each process what its point in the code relies on (`ShapeOf`: the
  operands and the node it uses exist), the descriptors it has there (`HoldOf`),
  whose pipe they are (`PipeOf`) and `SeparatedAt`. It is inductive with `TypeOK`,
  because a process changes only itself and, at a fork or a reap, one other.
* `Forest`: a process exists only under a living interpreter that is at a point
  where it has forked for that node and not yet waited (`Busy`). This gives `CleanPrompt`:
  at the prompt the shell is busy nowhere. What it holds there is what `HoldOf` says of the
  prompt: its terminal, no end of a pipe and no saved copy, except in the slots that `Faults` lets it lose; with
  `Faults = {}` these are exactly the descriptors it was started with.
* `Ends`: a living child of a pipe has the end it was forked for, in the slot its
  point in the code says; `Chains`: no pipe lies between an interpreter and the command
  of its chain, so a program inherits the end from the right child; `Operands`:
  whatever lives under an operand lives under that operand's living child. From `Operands` and
  `Ends` follow `NoEarlyEof` and `NoEarlyBrokenPipe`.

`StatusPassed` is the action property `StatusOfLast`. It needs `Carried` besides: the processes
whose subtree ends with the line's last node lie on one path, and every one of them that has another
under it waits for it (`Spine`); each of them waits, or the last command has not been started, or
it has ended with that command's status (`Settled`). So the status goes up the path unchanged, through
`exit`, `waitpid` and the decoding, and the left operands' statuses cannot come in between.

**Signals** (`SignalsProofs`). `OnlyProgramsDie`, `KeysHarmless`, `KeyPassed`. The invariant of the executor
is used again, in two halves: a key ends a program only, or the one interpreter whose newline
meets a broken pipe, and the step lemmas for `Local` need no
other process, so that `Local` survives every key. `Forest` and the parts behind it speak of
parents and children; they stand as long as no interpreter has died over its
children, which is what `cut` remembers. `Carried` stands even then: an interpreter that a key kills writes
to a pipe, whose right operand (`Whole`) holds the last node, so it is not on the path of the
status. That gives `KeyStatus` without the exception.

**Parser** (`ParserProofs`). `ParserInductive`, `SecondTokenKills`, `TreeIsSafe`, `TreeKeepsTheList`,
`RightOperandsAreLeaves`, `TreeForExec`, for lines of any length. The parts of its invariant:

* `Ordered`: the pointers of the list rise with the places in the line, and `Removed` keeps that; it makes `Prev`
  the inverse of `next` where ids differ. With one id for all, `Prev` never finds anything,
  nothing is removed, and `Doomed` says that the first call of `make_yggdrasil` is the last.
* `Taking`, `Following`, `Apart`: `handler_args_file` walks on over tokens that it may have removed, so
  that no two operands stay side by side is not plain. `Taking` says that of two neighbours the second one
  still has its turn; `Apart` is what is left when the turns are over.
* `Spine`, `Idle`, `Growing`, `Hanging`: with that, `make_yggdrasil` goes back from operator to
  operator, every token from its `eof` on has a node, and an operand's own call finds nothing. `TreeIsSafe`
  rests on them: every token but the first has one in front of it, and no call has an `eof` that
  is in front of its token, so that the search to the right meets it or the end of the list is `eof`.

From the finished tree (`Finished`) follows what lies under each node, that pre-order (`Before`) puts
the operators from last to first before the other tokens from first to last (`Earlier`), that the
numbers counted from it are the numbers `1` to the size of the tree, each once, and that a
subtree has an interval of them. This is `BuiltTree`: what the parser builds satisfies
`TreesAssumption`, so that the theorems on `Exec` are about the trees of this parser too.

**Environment** (`EnvProofs`). The invariant is `TypeOK /\ NoDuplicates /\ SortInv`. `NoDuplicates`
makes the first place of a name its only one, so that `Updated` and `Removed` act
on the function `Map` as assignment and removal (the lemmas on `Lookup`). `SortInv`
says at each comparison which part of the copy is settled (`Settled`), which is
the greatest of the pass (`Greatest`) and what a pass without a swap has
established (`NoSwap`): with it the early exit leaves a sorted list. `Implements`
is `Spec => Refines`, step by step.

**Words** (`WordsProofs`). The invariant is that of the lexer, that of the expander and `Passes`, which says
what each pass has left to the next. The lexer's is `Partition /\ Shapes /\ MergeTouches` with
`Reading`, what is known of the token being read in each loop (`NothingLost`,
`WellShaped`, `MergesTouch`); the expander's is its types and `Buffer`
(`BufferFits`): the buffer grows before its last place is used, wherever a `malloc` fails.
`Passes` keeps them apart: no pass begins before the one in front of it has ended, and the quote handler
gives the expander no more values than there are tokens. `WordsOfLine` is `FromLine`: the expander's loop has
written what the reference `Expansion` says of the part of the token it has read, so that its buffer at the
end is the expansion of the token in the environment the assignments left. `TrimmedIs` is about the quotes: a
closed single-quoted token has no quote inside, so that the two searches of `ft_strtrim` stop at its first and last character.

**Command search** (`CommandSearchProofs`). `TypeCorrect`, `AnswersTrue`, `FirstChosen`, `ListFits`. `Answer` and `Leftmost` speak of
the end of a search; the invariant says what they rest on at each step. `Witness` ties the
history variables to the directories as they are now; `OnlySeen` and `AllSeen` bound the list from both
sides (what is in it was in a directory, what stayed in a directory that has been read is in it);
`NotHere` and `NotLeft` say that what was passed over could not have been taken. For `RoomForAll` the
sum over the directories of PATH is a sequence of partial sums that is shown to exist
(`Prefix`): a directory that has gained no entry needs no more room than was counted for it (`Counted`), so that
the filling pass stays behind the partial sum at each directory.

**Line reader** (`LineReaderProofs`). `TypeCorrect`, `QueueKept`, `LinesWhole`, `TerminalLeftClean`, `Inductive`. The
invariant speaks of each process by itself: `QueueOf` and `LinesOf` are the parts of `Queue` and `WholeLines`;
`TerminalOf` says that a chunk from a terminal ends with its first newline, so that a line is all of the buffer, and
that a here-document which reads anything else is known to (`mixed`). A forked child has the
shell's buffer and its `mixed`, so the invariant of the one is that of the other.

**Induction.** TLAPS cannot use the library's induction rules here, which take an operator as a parameter. `Induction`
writes the claim as a set of numbers: the least number outside of it gives a contradiction (`LeastNat`, `NatInduct`).
With it follow that a function defined from its greater arguments exists (`BackwardExists`), as the
expansion of a text does, and what `FlattenSeq` returns (`FlattenType`).

Only model-checked is liveness: `LineEnds`, `InterruptEnds`, `Ends`, `DocReturns`, `SearchEnds`. They rest on
fairness, and TLAPS here does not reason about ENABLED. Every invariant and every action property
of the passing runs is a theorem.

## 6. Where the code and its documents part

* `exec_mixed`: pipes and redirections have one rank and `init_yggdrasil` takes the last
  of them for the root, so a redirection typed after a pipe becomes the
  pipe's parent; the chain walk then meets a pipe, reports an internal error and
  the line's status is 3.
* `exec_heredoc`: the body of a here-document is written into a pipe that only
  the shell itself can read; a body larger than the pipe blocks it for ever.
* `parser_crash`: `get_token_id` resets its counter at each call, all tokens have id
  0 and `find_left_token` reads through a null pointer on any line of two tokens.
  The executor is therefore verified at its own interface, and `parser` and the theorems also
  look past this line, with distinct ids.
* `signals_prompt`: `parent_wait_external` sets SIGINT to ignored and nothing
  installs the handler again, so that after the first program ctrl-C at the prompt does nothing.

Behaviour the models show besides, of which no document speaks:

* Executor: a redirection that cannot be opened leaves `$?` at -1, as `TypeOK` has it; after a `dup2` that fails in `restore_fds` the shell goes on with a redirected stdin
  or stdout, and takes its command lines from the file or the here-document; after a failing `dup` in
  `save_original_fds` a copy of its stdout stays open.
* Parser, with distinct ids: tokens behind
  a redirection's file are lost; `A=1 cmd` makes `cmd` an argument of the
  assignment; in `a>b` the operator itself is merged with the word, and in a
  line that begins with an operator nothing is, because `proximity_exception` looks at the
  first character of the line where that of the token seems meant; a double-quoted token always loses its value.
* Words: `A=1 $A` is expanded with the new value; a quoted `'A=1'` in front of the line is an assignment; a
  `malloc` that fails in the middle of an expansion can leave a token with a piece of it
  missing; of a text that is only quotes `ft_strtrim` searches past the front, and only `ft_substr`'s test
  keeps the result empty.
* Signals: the handler's newline goes to descriptor 1 of whoever runs it, also into the pipe of the
  line; when the reader is gone it kills the interpreter over its living children (`cut`).
* Line reader: a here-document behind a `<`, behind another here-document or in the right
  operand of a pipe reads the file, the body of the other or the left operand's output, and what it has
  read ahead stays in the buffer for later here-documents of the process; when the input is a file or pipe, a here-document
  swallows the command lines behind it, and children have copies of what the shell had
  read; a failing `malloc` or `read` looks like the end of the input; a zero byte cuts its chunk.
* Command search: an entry that appears between the two passes is written behind the list, and a
  failing second `get_path_list` frees pointers that were never written (the cases `RoomForAll` excuses).

## 7. Not modelled

`libft`: its functions on strings, memory and lists keep no state of the shell's, and
what the shell uses of them is modelled where it is used (`get_next_line` in `LineReader`,
`ft_strtrim` in `Words`); its list of allocations is never emptied or bounded, and no
state of the shell depends on it. The formats of
messages and listings, history and the prompt's text are left out: no property is about them;
so is what `readline` does with a key at the prompt.
`quote_expansion.c` and the files listed as dead code are never reached.
The file system is a choice of the environment, as far as `CommandSearch` does not model it.
