------------------------------- MODULE EnvMap -------------------------------
(***************************************************************************)
(* What the environment of the shell promises: a name has one value or     *)
(* none, export and unset change the name they are given and no other, cd  *)
(* moves the shell and leaves OLDPWD and PWD telling where it was and      *)
(* where it is, and export without arguments lists it in order.  Module    *)
(* Env implements it.  Whatever needs memory may leave things as they are. *)
(***************************************************************************)
EXTENDS EnvData

VARIABLES
  map,    \* name -> value, or Unset
  cwd,    \* the working directory
  call,   \* the builtin that runs
  args,   \* its arguments still to be looked at
  out     \* what it has listed

vars == <<map, cwd, call, args, out>>

Init ==
  /\ map \in [Name -> Value \cup {Unset}]
  /\ cwd \in Dir
  /\ call = "none" /\ args = <<>> /\ out = <<>>

Call ==
  /\ call = "none"
  /\ call' \in {"export", "unset", "assign"}
  /\ args' \in Args
  /\ out' = <<>>
  /\ UNCHANGED <<map, cwd>>

Set ==
  /\ call \in {"export", "assign"} /\ args # <<>> /\ Head(args).kind = "set"
  /\ map' \in {map, [map EXCEPT ![Head(args).name] = Head(args).value]}
  /\ args' = Tail(args)
  /\ UNCHANGED <<cwd, call, out>>

Remove ==
  /\ call = "unset" /\ args # <<>> /\ Head(args).kind = "bare"
  /\ map' = [map EXCEPT ![Head(args).name] = Unset]
  /\ args' = Tail(args)
  /\ UNCHANGED <<cwd, call, out>>

\* An argument the builtin does not take; assignments end at the first one.
Skip ==
  /\ args # <<>>
  /\ call = "export" => Head(args).kind # "set"
  /\ call = "unset" => Head(args).kind # "bare"
  /\ IF call = "assign" THEN Head(args).kind # "set" /\ args' = <<>>
     ELSE args' = Tail(args)
  /\ UNCHANGED <<map, cwd, call, out>>

Done ==
  /\ call # "sort" /\ args = <<>>
  /\ call' = "none"
  /\ UNCHANGED <<map, cwd, args, out>>

Cd ==
  /\ call = "none"
  /\ cwd' \in Dir
  /\ \E o \in {map[OLDPWD], cwd}, p \in {map[PWD], cwd'} :
       map' = [map EXCEPT ![OLDPWD] = o, ![PWD] = p]
  /\ out' = <<>>
  /\ UNCHANGED <<call, args>>

\* A builtin that does nothing.
Fail ==
  /\ call = "none"
  /\ out' = <<>>
  /\ UNCHANGED <<map, cwd, call, args>>

Sort ==
  /\ call = "none" /\ call' = "sort"
  /\ out' = <<>>
  /\ UNCHANGED <<map, cwd, args>>

\* s lists the variables of m, each once, in order.
Listing(s, m) ==
  /\ s \in Seq(Binding)
  /\ \A k \in 1..(Len(s) - 1) : ~After(s[k], s[k + 1])
  /\ \A k, l \in 1..Len(s) : s[k].name = s[l].name => k = l
  /\ \A b \in Binding : (\E k \in 1..Len(s) : s[k] = b) <=> m[b.name] = b.value

List ==
  /\ call = "sort" /\ call' = "none"
  /\ Listing(out', map)
  /\ UNCHANGED <<map, cwd, args>>

Next == Call \/ Set \/ Remove \/ Skip \/ Done \/ Cd \/ Fail \/ Sort \/ List

Spec == Init /\ [][Next]_vars
=============================================================================
