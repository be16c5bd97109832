---------------------------- MODULE ToolshStore ----------------------------
(***************************************************************************)
(* What toolsh remembers between commands (src/toolsh.c): its variables,   *)
(* which shadow the process environment and are copied to it, its aliases  *)
(* and the working directory.  Variables and aliases are tables of fixed   *)
(* size; a deleted entry is replaced by the last one.                      *)
(***************************************************************************)
EXTENDS Integers, Sequences, FiniteSets

CONSTANTS Names,       \* names of variables, "HOME", "PWD", "OLDPWD" among them
          Dirs,        \* directories
          Values,      \* values of variables, Dirs among them
          Unset,       \* no value
          Inherited,   \* environments toolsh may be started with
          Preset,      \* what main itself puts in the table, after HOME and PWD
          MaxVars,     \* MAX_VARS
          Aliases,     \* names of aliases
          StandsFor,  \* what they stand for
          Defaults,    \* the aliases main sets
          MaxAliases   \* MAX_ALIASES

Entry(name, value) == [name |-> name, value |-> value]

ASSUME StoreAssumption ==
  /\ {"HOME", "PWD", "OLDPWD"} \subseteq Names
  /\ Dirs \subseteq Values /\ Unset \notin Values
  /\ Inherited \subseteq [Names -> Values \cup {Unset}]
  /\ MaxVars \in Nat /\ MaxAliases \in Nat
  /\ Preset \in Seq([name : Names \ {"HOME", "PWD", "OLDPWD"}, value : Values])
  /\ \A i, j \in 1..Len(Preset) : Preset[i].name = Preset[j].name => i = j
  /\ Len(Preset) + 2 <= MaxVars
  /\ Defaults \in Seq([name : Aliases, value : StandsFor]) /\ Len(Defaults) <= MaxAliases
  /\ \A i, j \in 1..Len(Defaults) : Defaults[i].name = Defaults[j].name => i = j

VARIABLES
  variables,  \* variables[0 .. var_count)
  env,        \* the environment, which the commands it runs inherit
  aliases,    \* aliases[0 .. alias_count)
  wd,         \* the working directory
  came,       \* where wd was before the last cd (not in the code; Unset at first)
  named,      \* the variables and aliases the last command was about (not in the code)
  meddled     \* PWD or OLDPWD was assigned or removed by hand (not in the code)

storeVars == <<variables, env, aliases, wd, came, named, meddled>>

-----------------------------------------------------------------------------
(* The tables.  A search finds the first entry of a name. *)

Find(table, n) == {i \in 1..Len(table) : table[i].name = n /\ \A j \in 1..(i - 1) : table[j].name # n}

\* Mutant: the name is not looked for, its value is put behind the others.
AppendOnly(table, n, v, max) ==
  IF Len(table) < max THEN Append(table, Entry(n, v)) ELSE table

\* sh_var_set and alias_set: a new name in a full table is ignored.
Stored(table, n, v, max) ==
  IF Find(table, n) # {}
    THEN [i \in 1..Len(table) |-> IF i \in Find(table, n) THEN Entry(n, v) ELSE table[i]]
    ELSE IF Len(table) < max THEN Append(table, Entry(n, v)) ELSE table

\* sh_var_unset and alias_unset: the last entry takes the place of the removed.
Removed(table, n) ==
  IF Find(table, n) = {} THEN table
  ELSE [i \in 1..(Len(table) - 1) |->
          IF i \in Find(table, n) THEN table[Len(table)] ELSE table[i]]

Value(table, n) ==
  IF Find(table, n) = {} THEN Unset ELSE table[CHOOSE i \in Find(table, n) : TRUE].value

\* sh_var_get: a variable of the shell, or else of the environment.
Get(n) == IF Find(variables, n) # {} THEN Value(variables, n) ELSE env[n]

\* Whether sh_var_set does anything: neither the table nor the environment is
\* touched when the table is full.
RoomFor(table, n) == Find(table, n) # {} \/ Len(table) < MaxVars

\* Mutant: a variable that exists already is not passed on to the environment.
PutNewOnly(e, table, n, v) ==
  IF Find(table, n) = {} /\ Len(table) < MaxVars THEN [e EXCEPT ![n] = v] ELSE e

PutEnv(e, table, n, v) == IF RoomFor(table, n) THEN [e EXCEPT ![n] = v] ELSE e

-----------------------------------------------------------------------------

\* main: HOME if it is inherited, PWD, and what else it sets.
Start(e, d) ==
  (IF e["HOME"] # Unset THEN <<Entry("HOME", e["HOME"])>> ELSE <<>>)
    \o <<Entry("PWD", d)>> \o Preset

StoreInit ==
  /\ wd \in Dirs
  /\ \E e \in Inherited :
       /\ variables = Start(e, wd)
       /\ env = [n \in Names |-> LET v == Value(Start(e, wd), n)
                                 IN IF v = Unset THEN e[n] ELSE v]
  /\ aliases = Defaults
  /\ came = Unset
  /\ named = {}
  /\ meddled = 0

\* A command that names variable n.
About(n) ==
  /\ named' = {n}
  /\ meddled' = IF n \in {"PWD", "OLDPWD"} THEN 1 ELSE meddled

\* set NAME=value, and NAME=value as a command.
Set(n, v) ==
  /\ variables' = Stored(variables, n, v, MaxVars)
  /\ env' = PutEnv(env, variables, n, v)
  /\ About(n)
  /\ UNCHANGED <<aliases, wd, came>>

\* export NAME=value: put into the environment whether the table has room or not.
Export(n, v) ==
  /\ variables' = Stored(variables, n, v, MaxVars)
  /\ env' = [env EXCEPT ![n] = v]
  /\ About(n)
  /\ UNCHANGED <<aliases, wd, came>>

\* export NAME
ExportName(n) ==
  /\ Get(n) # Unset
  /\ env' = [env EXCEPT ![n] = Get(n)]
  /\ About(n)
  /\ UNCHANGED <<variables, aliases, wd, came>>

\* Mutant: the name is read from the slot after the last entry has moved there.
NameInSlot(n) ==
  LET i == CHOOSE i \in Find(variables, n) : TRUE
  IN IF i < Len(variables) THEN variables[Len(variables)].name ELSE n

NameToUnset(n) == n

\* unset NAME: only what is in the table is taken out of the environment.
UnsetVar(n) ==
  /\ variables' = Removed(variables, n)
  /\ env' = IF Find(variables, n) # {} THEN [env EXCEPT ![NameToUnset(n)] = Unset] ELSE env
  /\ About(n)
  /\ UNCHANGED <<aliases, wd, came>>

\* Mutant: the directory it came from is asked for after the change.
OldFromNew(d) == d

OldDir(d) == wd

\* builtin_cd, once chdir has succeeded: OLDPWD first, then PWD.
MovedTo(d) ==
  LET old == OldDir(d)
      first == Stored(variables, "OLDPWD", old, MaxVars)
      env1 == PutEnv(env, variables, "OLDPWD", old)
  IN /\ wd' = d
     /\ variables' = Stored(first, "PWD", d, MaxVars)
     /\ env' = PutEnv(env1, first, "PWD", d)
     /\ came' = wd
     /\ named' = {"PWD", "OLDPWD"}
     /\ UNCHANGED <<aliases, meddled>>

Cd(d) == MovedTo(d)
CdHome == Get("HOME") \in Dirs /\ MovedTo(Get("HOME"))
CdBack == Get("OLDPWD") \in Dirs /\ MovedTo(Get("OLDPWD"))

SetAlias(a, x) ==
  /\ aliases' = Stored(aliases, a, x, MaxAliases)
  /\ named' = {a}
  /\ UNCHANGED <<variables, env, wd, came, meddled>>

Unalias(a) ==
  /\ aliases' = Removed(aliases, a)
  /\ named' = {a}
  /\ UNCHANGED <<variables, env, wd, came, meddled>>

StoreNext ==
  \/ \E n \in Names :
       \/ \E v \in Values : Set(n, v) \/ Export(n, v)
       \/ ExportName(n) \/ UnsetVar(n)
  \/ (\E d \in Dirs : Cd(d)) \/ CdHome \/ CdBack
  \/ \E a \in Aliases : (\E x \in StandsFor : SetAlias(a, x)) \/ Unalias(a)

StoreSpec == StoreInit /\ [][StoreNext]_storeVars

-----------------------------------------------------------------------------
(* Properties *)

StoreTypeOK ==
  /\ variables \in Seq([name : Names, value : Values]) /\ Len(variables) <= MaxVars
  /\ env \in [Names -> Values \cup {Unset}]
  /\ aliases \in Seq([name : Aliases, value : StandsFor]) /\ Len(aliases) <= MaxAliases
  /\ named \subseteq Names \cup Aliases
  /\ wd \in Dirs /\ came \in Dirs \cup {Unset}
  /\ meddled \in {0, 1}

Entries(table) == {table[i] : i \in 1..Len(table)}
Distinct(table) == \A i, j \in 1..Len(table) : table[i].name = table[j].name => i = j

\* A name is in a table once, so that removing it removes it: after any mix of
\* assignments and removals there is no older entry behind it.
OneEntryPerName == Distinct(variables) /\ Distinct(aliases)

\* A command that is run inherits the value that the shell would expand: no
\* variable of the shell differs from the environment or is missing in it.
EnvironmentAgrees == \A e \in Entries(variables) : env[e.name] = e.value

\* Assigning or removing one name leaves every other one alone, in the shell and
\* in the environment, wherever the tables move their entries.
OthersKept ==
  [][/\ \A n \in Names \ named' : Get(n)' = Get(n) /\ env'[n] = env[n]
     /\ \A a \in Aliases \ named' : Value(aliases', a) = Value(aliases, a)]_storeVars

\* PWD is where the shell is, and OLDPWD where it was before the last cd, for
\* as long as the table has room and nobody assigns them.
DirsKnown ==
  /\ meddled = 0 => Get("PWD") = wd
  /\ meddled = 0 /\ came # Unset /\ Find(variables, "OLDPWD") # {} => Get("OLDPWD") = came

\* Why: the entries are what cd has stored, and no step in between drops them.
DirsListed ==
  meddled = 0 =>
    /\ Entry("PWD", wd) \in Entries(variables)
    /\ came # Unset => \A e \in Entries(variables) : e.name = "OLDPWD" => e.value = came

\* The inductive invariant of the store.
StoreInv == StoreTypeOK /\ OneEntryPerName /\ EnvironmentAgrees /\ DirsListed
=============================================================================
