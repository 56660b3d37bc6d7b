------------------------------- MODULE EnvData -------------------------------
(***************************************************************************)
(* The data of the environment of the shell: the strings "NAME=value" and  *)
(* the arguments of the builtins that change them.                         *)
(***************************************************************************)
EXTENDS Integers, Sequences

CONSTANTS
  Name, Value,        \* numbered in the order of ft_strcmp
  Dir,                \* the values that are paths of directories
  HOME, PWD, OLDPWD,
  Args                \* the arguments a builtin may be called with

ASSUME NamesAssumption == /\ Name \subseteq Nat /\ {HOME, PWD, OLDPWD} \subseteq Name
                          /\ PWD # OLDPWD
ASSUME ValuesAssumption == Value \subseteq Nat /\ Dir \subseteq Value

Unset == -1
Binding == [name : Name, value : Value]

\* "NAME=value", "NAME", or no identifier before the "=".
Arg == [kind : {"set", "bare", "bad"}, name : Name, value : Value]

ASSUME ArgsAssumption == Args \subseteq Seq(Arg)

\* b comes after c for ft_strcmp, which compares the whole strings.
After(b, c) == \/ b.name > c.name
               \/ b.name = c.name /\ b.value > c.value
=============================================================================
