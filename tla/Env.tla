--------------------------------- MODULE Env ---------------------------------
(***************************************************************************)
(* The environment of the shell (shell->env, a NULL-terminated array of    *)
(* "NAME=value" strings) and the builtins that read and change it: export, *)
(* unset, cd and the assignments at the head of a line.  The loop over the *)
(* arguments of a builtin is one step per argument, and the bubble sort of *)
(* export without arguments one step per comparison.  Any malloc may fail. *)
(***************************************************************************)
EXTENDS EnvData

CONSTANT Inherited   \* the environments the shell may be started with

\* No name occurs twice in the array e.
Distinct(e) == \A k, l \in 1..Len(e) : e[k].name = e[l].name => k = l

ASSUME InheritedAssumption ==
  Inherited \subseteq Seq(Binding) /\ \A e \in Inherited : Distinct(e)

VARIABLES
  env,     \* shell->env
  cwd,     \* the working directory of the process
  call,    \* the builtin that runs
  args,    \* its arguments still to be looked at
  status,  \* its status so far, then what it returned
  list, i, j, swapped,   \* sort_env's copy and bubble_sort_env's variables
  out      \* what the last builtin, export without arguments, has listed

sort == <<list, i, j, swapped>>
vars == <<env, cwd, call, args, status, sort, out>>

Init ==
  /\ env \in Inherited
  /\ cwd \in Dir
  /\ call = "none" /\ args = <<>> /\ status = 0
  /\ list = <<>> /\ i = 0 /\ j = 0 /\ swapped = FALSE
  /\ out = <<>>

-----------------------------------------------------------------------------
(***************************************************************************)
(* The array.                                                              *)
(***************************************************************************)
Places(e, n) == {k \in 1..Len(e) : e[k].name = n}
FirstPlace(e, n) == CHOOSE k \in Places(e, n) : \A l \in Places(e, n) : k <= l

\* get_env_value
Lookup(e, n) == IF Places(e, n) = {} THEN Unset ELSE e[FirstPlace(e, n)].value

Bind(n, v) == [name |-> n, value |-> v]

\* Slip: update_env without update_existing_env.
UpdatedBlind(e, n, v) == Append(e, Bind(n, v))

\* update_env
Updated(e, n, v) == IF Places(e, n) = {} THEN Append(e, Bind(n, v))
                    ELSE [e EXCEPT ![FirstPlace(e, n)] = Bind(n, v)]

\* Slip: the shift starts one place late, and loses the wrong string.
ShiftedLate(e, k) == [m \in 1..(Len(e) - 1) |-> IF m <= k THEN e[m] ELSE e[m + 1]]

\* The strings after place k move down by one.
Shifted(e, k) == [m \in 1..(Len(e) - 1) |-> IF m < k THEN e[m] ELSE e[m + 1]]

\* find_and_remove_var
Removed(e, n) == IF Places(e, n) = {} THEN e ELSE Shifted(e, FirstPlace(e, n))

-----------------------------------------------------------------------------
(***************************************************************************)
(* export, unset and assignments.                                          *)
(***************************************************************************)
Idle == call = "none"

Return(s) == call' = "none" /\ status' = s

Call ==
  /\ Idle
  /\ call' \in {"export", "unset", "assign"}
  /\ args' \in Args \ {<<>>}
  /\ status' = 0
  /\ out' = <<>>
  /\ UNCHANGED <<env, cwd, sort>>

NextArg == args' = Tail(args)

\* handle_single_export_arg
ExportArg ==
  LET a == Head(args) IN
  /\ call = "export" /\ args # <<>>
  /\ NextArg
  /\ \/ a.kind = "set" /\ env' = Updated(env, a.name, a.value) /\ UNCHANGED status
     \/ a.kind = "set" /\ status' = 1 /\ UNCHANGED env       \* malloc fails
     \/ a.kind = "bare" /\ UNCHANGED <<env, status>>
     \/ a.kind = "bad" /\ status' = 1 /\ UNCHANGED env
  /\ UNCHANGED <<cwd, call, sort, out>>

UnsetArg ==
  LET a == Head(args) IN
  /\ call = "unset" /\ args # <<>>
  /\ NextArg
  /\ \/ a.kind = "bare" /\ env' = Removed(env, a.name) /\ UNCHANGED status
     \/ a.kind # "bare" /\ status' = 1 /\ UNCHANGED env
  /\ UNCHANGED <<cwd, call, sort, out>>

\* apply_variable_assignment: up to the first token that is no assignment.
AssignToken ==
  LET a == Head(args) IN
  /\ call = "assign" /\ args # <<>>
  /\ \/ /\ a.kind = "set"
        /\ env' \in {env, Updated(env, a.name, a.value)}
        /\ NextArg
     \/ a.kind # "set" /\ args' = <<>> /\ UNCHANGED env
  /\ UNCHANGED <<cwd, call, status, sort, out>>

ArgsDone ==
  /\ call \in {"export", "unset", "assign"} /\ args = <<>>
  /\ Return(status)
  /\ UNCHANGED <<env, cwd, args, sort, out>>

-----------------------------------------------------------------------------
(***************************************************************************)
(* cd.  A path names a directory or nothing.  Removed directories make     *)
(* getcwd fail, before the move or after it.  The results of update_env    *)
(* are not looked at.                                                      *)
(***************************************************************************)
\* Slip: the result of chdir is not looked at.
CdBlind(v) ==
  /\ Idle
  /\ v # Unset
  /\ cwd' = v
  /\ env' = Updated(Updated(env, OLDPWD, cwd), PWD, v)
  /\ Return(0)
  /\ out' = <<>>
  /\ UNCHANGED <<args, sort>>

\* v is the target, Unset when HOME or OLDPWD has to give it and does not.
Cd(v) ==
  /\ Idle
  /\ \/ /\ Return(1)                     \* getcwd, the target or chdir fails
        /\ UNCHANGED <<env, cwd>>
     \/ /\ v \in Dir
        /\ cwd' = v
        /\ \E e \in {env, Updated(env, OLDPWD, cwd)} :
             \/ env' = e /\ Return(1)    \* getcwd fails
             \/ env' \in {e, Updated(e, PWD, v)} /\ Return(0)
  /\ out' = <<>>
  /\ UNCHANGED <<args, sort>>

CdTarget == Value \cup {Lookup(env, HOME), Lookup(env, OLDPWD)}

-----------------------------------------------------------------------------
(***************************************************************************)
(* export without arguments: sort_env copies the array and sorts the copy. *)
(***************************************************************************)
Count == Len(list)

Export ==
  /\ Idle
  /\ \/ /\ call' = "sort"
        /\ list' = env
        /\ i' = 0 /\ j' = 0 /\ swapped' = FALSE
        /\ UNCHANGED status
     \/ Return(1) /\ UNCHANGED sort      \* malloc fails
  /\ out' = <<>>
  /\ UNCHANGED <<env, cwd, args>>

\* swap_if_needed; arrays start at 0 in the code.
Compare ==
  /\ call = "sort" /\ i < Count - 1 /\ j < Count - i - 1
  /\ IF After(list[j + 1], list[j + 2])
     THEN /\ list' = [list EXCEPT ![j + 1] = list[j + 2], ![j + 2] = list[j + 1]]
          /\ swapped' = TRUE
     ELSE UNCHANGED <<list, swapped>>
  /\ j' = j + 1
  /\ UNCHANGED <<env, cwd, call, args, status, i, out>>

\* Slip: a pass counts for two, and the last one may be left out.
NextPassEarly ==
  /\ call = "sort" /\ i < Count - 1 /\ j = Count - i - 1
  /\ i' = IF j = 1 THEN Count - 1 ELSE i + 2
  /\ j' = 0 /\ swapped' = FALSE
  /\ UNCHANGED <<env, cwd, call, args, status, list, out>>

\* The end of the inner loop: a pass without a swap ends the outer one.
NextPass ==
  /\ call = "sort" /\ i < Count - 1 /\ j = Count - i - 1
  /\ i' = IF swapped THEN i + 1 ELSE Count - 1
  /\ j' = 0 /\ swapped' = FALSE
  /\ UNCHANGED <<env, cwd, call, args, status, list, out>>

PrintSorted ==
  /\ call = "sort" /\ i >= Count - 1
  /\ out' = list
  /\ list' = <<>> /\ i' = 0 /\ j' = 0 /\ swapped' = FALSE
  /\ Return(0)
  /\ UNCHANGED <<env, cwd, args>>

-----------------------------------------------------------------------------
Step == \/ ExportArg \/ UnsetArg \/ AssignToken \/ ArgsDone
        \/ Compare \/ NextPass \/ PrintSorted

Next == Call \/ Export \/ (\E v \in CdTarget : Cd(v)) \/ Step

Spec == Init /\ [][Next]_vars

-----------------------------------------------------------------------------
(***************************************************************************)
(* Properties.                                                             *)
(***************************************************************************)
\* Every variable has its type; the shell is in a directory.
TypeOK ==
  /\ env \in Seq(Binding)
  /\ cwd \in Dir
  /\ call \in {"none", "export", "unset", "assign", "sort"}
  /\ args \in Seq(Arg)
  /\ status \in {0, 1}
  /\ list \in Seq(Binding)
  /\ i \in Nat /\ j \in Nat /\ swapped \in BOOLEAN
  /\ out \in Seq(Binding)

\* However export, unset, cd and assignments follow each other, no name is
\* ever bound twice: get_env_value and unset only look at the first.
NoDuplicates == Distinct(env)

\* Places k and k + 1 of the copy are in order.
InOrder(k) == ~After(list[k], list[k + 1])

(***************************************************************************)
(* The bubble sort at every step: the copy holds each string of the        *)
(* environment once; the last i are the greatest, in order; place j + 1    *)
(* is the greatest so far of this pass, and a pass without a swap so far   *)
(* has found everything in order.                                          *)
(***************************************************************************)
SameStrings ==
  /\ Distinct(list)
  /\ \A b \in Binding :
       (\E k \in 1..Count : list[k] = b) <=> (\E k \in 1..Len(env) : env[k] = b)

Greatest == \A k \in 1..j : ~After(list[k], list[j + 1])

Settled == \A k, l \in 1..Count : (k < l /\ l > Count - i) => ~After(list[k], list[l])

NoSwap == ~swapped => \A k \in 1..j : InOrder(k)

Sorted == \A k \in 1..(Count - 1) : InOrder(k)

SortInv ==
  call = "sort" =>
    /\ SameStrings
    /\ i < Count - 1 => j <= Count - i - 1 /\ Greatest /\ Settled /\ NoSwap
    /\ i >= Count - 1 => Sorted

\* The array behaves as a function from names to values, as module EnvMap
\* says: a builtin changes the name it is given and no other, cd leaves PWD
\* and OLDPWD right or unchanged, and a listing is complete and sorted.
Map == [n \in Name |-> Lookup(env, n)]
M == INSTANCE EnvMap WITH map <- Map
Refines == M!Spec
=============================================================================
