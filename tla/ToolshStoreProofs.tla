------------------------- MODULE ToolshStoreProofs -------------------------
(***************************************************************************)
(* ToolshStore for tables of every size, every set of names and values and *)
(* every environment.  Two lemmas say what a store and a removal do to the *)
(* set of entries of a table; the rest of the argument is about that set   *)
(* only, not about places in the table.                                    *)
(***************************************************************************)
EXTENDS ToolshStore, TLAPS

Rows(S, V) == [name : S, value : V]

\* With one entry per name, a search finds every entry of the name it looks for.
LEMMA FindOfName ==
  ASSUME NEW S, NEW V, NEW table \in Seq(Rows(S, V)), Distinct(table), NEW n
  PROVE  Find(table, n) = {i \in 1..Len(table) : table[i].name = n}
<1> SUFFICES ASSUME NEW i \in 1..Len(table), table[i].name = n
             PROVE  \A j \in 1..(i - 1) : table[j].name # n
  BY DEF Find
<1> SUFFICES ASSUME NEW j \in 1..(i - 1), table[j].name = n PROVE FALSE
  OBVIOUS
<1>1. j \in 1..Len(table) /\ i # j
  OBVIOUS
<1> QED BY <1>1 DEF Distinct

\* What a store leaves in a table: the entries of other names, and the new one
\* if there was an old one or room.
LEMMA StoredEntries ==
  ASSUME NEW S, NEW V, NEW table \in Seq(Rows(S, V)), Distinct(table),
         NEW n \in S, NEW v \in V, NEW max \in Nat, Len(table) <= max
  PROVE  LET new == Stored(table, n, v, max)
         IN /\ new \in Seq(Rows(S, V)) /\ Len(new) <= max /\ Distinct(new)
            /\ \A e \in Entries(new) : e = Entry(n, v) \/ (e \in Entries(table) /\ e.name # n)
            /\ \A e \in Entries(table) : e.name # n => e \in Entries(new)
            /\ Find(table, n) # {} \/ Len(table) < max => Entry(n, v) \in Entries(new)
            /\ Find(table, n) = {} /\ Len(table) = max => new = table
<1> DEFINE new == Stored(table, n, v, max)
<1>0. Entry(n, v) \in Rows(S, V) /\ Entry(n, v).name = n
  BY DEF Entry, Rows
<1>1. Find(table, n) = {i \in 1..Len(table) : table[i].name = n}
  BY FindOfName
<1>2. CASE Find(table, n) # {}
  <2>1. new = [i \in 1..Len(table) |-> IF i \in Find(table, n) THEN Entry(n, v) ELSE table[i]]
    BY <1>2 DEF Stored
  <2>2. Len(new) = Len(table) /\ new \in Seq(Rows(S, V))
    BY <2>1, <1>0
  <2>3. \A i \in 1..Len(table) : new[i].name = table[i].name
    BY <2>1, <1>1, <1>0
  <2>4. Distinct(new)
    BY <2>2, <2>3 DEF Distinct
  <2>5. \A e \in Entries(new) : e = Entry(n, v) \/ (e \in Entries(table) /\ e.name # n)
    BY <2>1, <2>2, <1>1 DEF Entries
  <2>6. \A e \in Entries(table) : e.name # n => e \in Entries(new)
    BY <2>1, <2>2, <1>1 DEF Entries
  <2>7. Entry(n, v) \in Entries(new)
    BY <2>1, <2>2, <1>2, <1>1 DEF Entries
  <2> QED BY <1>2, <2>2, <2>4, <2>5, <2>6, <2>7
<1>3. CASE Find(table, n) = {} /\ Len(table) < max
  <2>1. new = Append(table, Entry(n, v))
    BY <1>3 DEF Stored
  <2>2. /\ new \in Seq(Rows(S, V)) /\ Len(new) = Len(table) + 1
        /\ \A i \in 1..Len(table) : new[i] = table[i]
        /\ new[Len(table) + 1] = Entry(n, v)
    BY <2>1, <1>0
  <2>3. \A i \in 1..Len(table) : table[i].name # n
    BY <1>1, <1>3
  <2>4. Distinct(new)
    <3> SUFFICES ASSUME NEW i \in 1..(Len(table) + 1), NEW j \in 1..(Len(table) + 1),
                        new[i].name = new[j].name
                 PROVE  i = j
      BY <2>2 DEF Distinct
    <3>1. CASE i \in 1..Len(table) /\ j \in 1..Len(table)
      BY <3>1, <2>2 DEF Distinct
    <3>2. CASE i = Len(table) + 1 \/ j = Len(table) + 1
      BY <3>2, <2>2, <2>3, <1>0
    <3> QED BY <3>1, <3>2
  <2>5. Entries(new) = Entries(table) \cup {Entry(n, v)}
    <3>1. \A e \in Entries(new) : e \in Entries(table) \/ e = Entry(n, v)
      BY <2>2 DEF Entries
    <3>2. \A e \in Entries(table) : e \in Entries(new)
      BY <2>2 DEF Entries
    <3>3. Entry(n, v) \in Entries(new)
      BY <2>2 DEF Entries
    <3> QED BY <3>1, <3>2, <3>3
  <2>6. \A e \in Entries(table) : e.name # n
    BY <2>3 DEF Entries
  <2> QED BY <1>3, <2>2, <2>4, <2>5, <2>6
<1>4. CASE Find(table, n) = {} /\ ~(Len(table) < max)
  <2>1. new = table /\ Len(table) = max
    BY <1>4 DEF Stored
  <2>2. \A e \in Entries(table) : e.name # n
    BY <1>1, <1>4 DEF Entries
  <2> QED BY <1>4, <2>1, <2>2
<1> QED BY <1>2, <1>3, <1>4

\* What a removal leaves: exactly the entries of other names.
LEMMA RemovedEntries ==
  ASSUME NEW S, NEW V, NEW table \in Seq(Rows(S, V)), Distinct(table), NEW n
  PROVE  LET new == Removed(table, n)
         IN /\ new \in Seq(Rows(S, V)) /\ Len(new) <= Len(table) /\ Distinct(new)
            /\ Entries(new) = {e \in Entries(table) : e.name # n}
<1> DEFINE new == Removed(table, n)
<1>1. Find(table, n) = {i \in 1..Len(table) : table[i].name = n}
  BY FindOfName
<1>2. CASE Find(table, n) = {}
  <2>1. new = table
    BY <1>2 DEF Removed
  <2>2. \A e \in Entries(table) : e.name # n
    BY <1>1, <1>2 DEF Entries
  <2> QED BY <2>1, <2>2
<1>3. CASE Find(table, n) # {}
  <2>1. PICK k \in 1..Len(table) : table[k].name = n
    BY <1>1, <1>3
  <2>2. Find(table, n) = {k}
    BY <1>1, <2>1 DEF Distinct
  <2>3. new = [i \in 1..(Len(table) - 1) |-> IF i = k THEN table[Len(table)] ELSE table[i]]
    BY <1>3, <2>2 DEF Removed
  <2>4. Len(table) \in Nat \ {0}
    BY <2>1
  <2>5. Len(new) = Len(table) - 1 /\ new \in Seq(Rows(S, V))
    BY <2>3, <2>4
  <2>6. Distinct(new)
    <3> SUFFICES ASSUME NEW i \in 1..(Len(table) - 1), NEW j \in 1..(Len(table) - 1),
                        new[i].name = new[j].name
                 PROVE  i = j
      BY <2>5 DEF Distinct
    <3>1. CASE i # k /\ j # k
      BY <3>1, <2>3 DEF Distinct
    <3>2. CASE i = k /\ j # k
      <4>1. table[Len(table)].name = table[j].name
        BY <3>2, <2>3
      <4>2. Len(table) = j
        BY <4>1, <2>4 DEF Distinct
      <4> QED BY <4>2, <2>4
    <3>3. CASE i # k /\ j = k
      <4>1. table[Len(table)].name = table[i].name
        BY <3>3, <2>3
      <4>2. Len(table) = i
        BY <4>1, <2>4 DEF Distinct
      <4> QED BY <4>2, <2>4
    <3> QED BY <3>1, <3>2, <3>3
  <2>7. ASSUME NEW e \in Entries(new)
        PROVE  e \in Entries(table) /\ e.name # n
    <3>1. PICK i \in 1..(Len(table) - 1) : e = new[i]
      BY <2>5 DEF Entries
    <3>2. CASE i = k
      <4>1. e = table[Len(table)] /\ Len(table) # k /\ Len(table) \in 1..Len(table)
        BY <3>1, <3>2, <2>3, <2>4
      <4>2. e.name # n
        BY <4>1, <2>1 DEF Distinct
      <4> QED BY <4>1, <4>2 DEF Entries
    <3>3. CASE i # k
      <4>1. e = table[i] /\ i \in 1..Len(table)
        BY <3>1, <3>3, <2>3, <2>4
      <4>2. e.name # n
        BY <4>1, <3>3, <2>1 DEF Distinct
      <4> QED BY <4>1, <4>2 DEF Entries
    <3> QED BY <3>2, <3>3
  <2>8. ASSUME NEW e \in Entries(table), e.name # n
        PROVE  e \in Entries(new)
    <3>1. PICK i \in 1..Len(table) : e = table[i]
      BY DEF Entries
    <3>2. i # k
      BY <2>1, <2>8, <3>1
    <3>3. CASE i = Len(table)
      <4>1. k \in 1..(Len(table) - 1) /\ new[k] = e
        BY <3>1, <3>2, <3>3, <2>1, <2>3
      <4> QED BY <4>1, <2>5 DEF Entries
    <3>4. CASE i # Len(table)
      <4>1. i \in 1..(Len(table) - 1) /\ new[i] = e
        BY <3>1, <3>2, <3>4, <2>3
      <4> QED BY <4>1, <2>5 DEF Entries
    <3> QED BY <3>3, <3>4
  <2>9. Entries(new) = {e \in Entries(table) : e.name # n}
    BY <2>7, <2>8
  <2> QED BY <2>5, <2>6, <2>9
<1> QED BY <1>2, <1>3

-----------------------------------------------------------------------------
(* A table of variables and the environment it is copied to *)

Vars == Seq(Rows(Names, Values))
Env == [Names -> Values \cup {Unset}]
Agree(table, e) == \A x \in Entries(table) : e[x.name] = x.value
Sound(table, e) ==
  table \in Vars /\ Len(table) <= MaxVars /\ Distinct(table) /\ e \in Env /\ Agree(table, e)

\* The invariant in these terms.
LEMMA InvIsSound ==
  StoreInv <=> /\ Sound(variables, env)
               /\ aliases \in Seq(Rows(Aliases, StandsFor)) /\ Len(aliases) <= MaxAliases
               /\ Distinct(aliases)
               /\ named \subseteq Names \cup Aliases
               /\ wd \in Dirs /\ came \in Dirs \cup {Unset} /\ meddled \in {0, 1}
               /\ DirsListed
BY DEF StoreInv, StoreTypeOK, OneEntryPerName, EnvironmentAgrees, Sound, Agree, Vars, Env, Rows

\* The entries of a table are of its type.
LEMMA EntryTypes ==
  ASSUME NEW S, NEW V, NEW table \in Seq(Rows(S, V))
  PROVE  \A x \in Entries(table) : x.name \in S /\ x.value \in V
<1>1. \A i \in 1..Len(table) : table[i] \in Rows(S, V)
  OBVIOUS
<1>2. \A r \in Rows(S, V) : r.name \in S /\ r.value \in V
  BY DEF Rows
<1> QED BY <1>1, <1>2 DEF Entries

\* sh_var_set keeps table and environment together, and says what is stored.
LEMMA SetIsSound ==
  ASSUME NEW table, NEW e, Sound(table, e), NEW n \in Names, NEW v \in Values
  PROVE  LET new == Stored(table, n, v, MaxVars)
         IN /\ Sound(new, PutEnv(e, table, n, v))
            /\ \A x \in Entries(new) : x = Entry(n, v) \/ (x \in Entries(table) /\ x.name # n)
            /\ \A x \in Entries(table) : x.name # n => x \in Entries(new)
            /\ Find(table, n) # {} => Entry(n, v) \in Entries(new)
<1> DEFINE new == Stored(table, n, v, MaxVars)
<1>0. table \in Seq(Rows(Names, Values)) /\ Len(table) <= MaxVars /\ Distinct(table)
      /\ e \in Env /\ Agree(table, e) /\ MaxVars \in Nat
  BY StoreAssumption DEF Sound, Vars
<1>1. /\ new \in Seq(Rows(Names, Values)) /\ Len(new) <= MaxVars /\ Distinct(new)
      /\ \A x \in Entries(new) : x = Entry(n, v) \/ (x \in Entries(table) /\ x.name # n)
      /\ \A x \in Entries(table) : x.name # n => x \in Entries(new)
      /\ Find(table, n) # {} \/ Len(table) < MaxVars => Entry(n, v) \in Entries(new)
      /\ Find(table, n) = {} /\ Len(table) = MaxVars => new = table
  BY <1>0, StoredEntries
<1>2. Entry(n, v).name = n /\ Entry(n, v).value = v
  BY DEF Entry
<1>3. \A x \in Entries(table) : x.name \in Names
  BY <1>0, EntryTypes
<1>4. CASE RoomFor(table, n)
  <2>1. PutEnv(e, table, n, v) = [e EXCEPT ![n] = v]
    BY <1>4 DEF PutEnv
  <2>2. PutEnv(e, table, n, v) \in Env
    BY <2>1, <1>0 DEF Env
  <2>3. Agree(new, PutEnv(e, table, n, v))
    <3> SUFFICES ASSUME NEW x \in Entries(new)
                 PROVE  PutEnv(e, table, n, v)[x.name] = x.value
      BY DEF Agree
    <3>1. CASE x = Entry(n, v)
      BY <3>1, <2>1, <1>0, <1>2 DEF Env
    <3>2. CASE x \in Entries(table) /\ x.name # n
      BY <3>2, <2>1, <1>0, <1>3 DEF Env, Agree
    <3> QED BY <3>1, <3>2, <1>1
  <2> QED BY <1>1, <2>2, <2>3 DEF Sound, Vars
<1>5. CASE ~RoomFor(table, n)
  <2>1. PutEnv(e, table, n, v) = e
    BY <1>5 DEF PutEnv
  <2>2. Find(table, n) = {} /\ Len(table) = MaxVars
    BY <1>5, <1>0 DEF RoomFor
  <2>3. new = table
    BY <2>2, <1>1
  <2> QED BY <1>0, <1>1, <2>1, <2>2, <2>3 DEF Sound, Vars
<1> QED BY <1>4, <1>5

\* With one entry per name, sh_var_get returns the value of the entry.
LEMMA GetEntry ==
  ASSUME Sound(variables, env), NEW n \in Names
  PROVE  /\ \A x \in Entries(variables) : x.name = n => Get(n) = x.value
         /\ Get(n) \in Values \cup {Unset}
<1>1. variables \in Seq(Rows(Names, Values)) /\ Distinct(variables) /\ env \in Env
  BY DEF Sound, Vars
<1>2. Find(variables, n) = {i \in 1..Len(variables) : variables[i].name = n}
  BY <1>1, FindOfName
<1>3. ASSUME NEW i \in Find(variables, n)
      PROVE  Get(n) = variables[i].value
  <2>1. Find(variables, n) = {i}
    BY <1>1, <1>2, <1>3 DEF Distinct
  <2> QED BY <2>1 DEF Get, Value
<1>4. \A x \in Entries(variables) : x.name = n => \E i \in Find(variables, n) : variables[i] = x
  BY <1>2 DEF Entries
<1>5. CASE Find(variables, n) = {}
  <2>1. Get(n) = env[n] /\ env[n] \in Values \cup {Unset}
    BY <1>1, <1>5 DEF Get, Env
  <2> QED BY <1>4, <1>5, <2>1
<1>6. CASE Find(variables, n) # {}
  <2>1. PICK i \in Find(variables, n) : TRUE
    BY <1>6
  <2>2. Get(n) = variables[i].value /\ variables[i] \in Entries(variables)
    BY <2>1, <1>2, <1>3 DEF Entries
  <2>3. Get(n) \in Values
    BY <1>1, <2>2, EntryTypes
  <2> QED BY <1>3, <1>4, <2>3
<1> QED BY <1>3, <1>4, <1>5, <1>6

-----------------------------------------------------------------------------
(* The steps *)

\* Which entries are listed for PWD and OLDPWD only depends on their entries.
LEMMA SetKeeps ==
  ASSUME StoreInv, NEW n \in Names, NEW v \in Values, Set(n, v)
  PROVE  StoreInv'
<1> DEFINE new == Stored(variables, n, v, MaxVars)
<1>0. /\ Sound(variables, env) /\ DirsListed
      /\ aliases \in Seq(Rows(Aliases, StandsFor)) /\ Len(aliases) <= MaxAliases
      /\ Distinct(aliases) /\ wd \in Dirs /\ came \in Dirs \cup {Unset} /\ meddled \in {0, 1}
  BY InvIsSound
<1>1. /\ variables' = new /\ env' = PutEnv(env, variables, n, v)
      /\ named' = {n} /\ meddled' = IF n \in {"PWD", "OLDPWD"} THEN 1 ELSE meddled
      /\ UNCHANGED <<aliases, wd, came>>
  BY DEF Set, About
<1>2. /\ Sound(new, PutEnv(env, variables, n, v))
      /\ \A x \in Entries(new) : x = Entry(n, v) \/ (x \in Entries(variables) /\ x.name # n)
      /\ \A x \in Entries(variables) : x.name # n => x \in Entries(new)
  BY <1>0, SetIsSound
<1>3. DirsListed'
  <2> SUFFICES ASSUME meddled = 0, n \notin {"PWD", "OLDPWD"}
               PROVE  /\ Entry("PWD", wd) \in Entries(new)
                      /\ came # Unset => \A x \in Entries(new) : x.name = "OLDPWD" => x.value = came
    BY <1>0, <1>1 DEF DirsListed
  <2>1. Entry("PWD", wd) \in Entries(variables) /\ Entry("PWD", wd).name # n
    BY <1>0 DEF DirsListed, Entry
  <2>2. Entry(n, v).name # "OLDPWD"
    BY DEF Entry
  <2> QED BY <1>0, <1>2, <2>1, <2>2 DEF DirsListed
<1>4. Sound(variables, env)'
  BY <1>1, <1>2 DEF Sound, Vars, Env, Agree, Entries, Distinct
<1> QED BY <1>0, <1>1, <1>3, <1>4, InvIsSound DEF StoreInv, StoreTypeOK, OneEntryPerName, EnvironmentAgrees, Sound, Agree, Vars, Env, Rows, Distinct

\* What the steps that leave the aliases alone have to show.
LEMMA VariableStep ==
  ASSUME StoreInv, NEW table, NEW e, variables' = table, env' = e, aliases' = aliases,
         Sound(table, e), named' \subseteq Names, wd' \in Dirs, came' \in Dirs \cup {Unset},
         meddled' \in {0, 1}, DirsListed'
  PROVE  StoreInv'
<1>1. Sound(variables, env)'
  BY DEF Sound, Vars, Env, Agree, Entries, Distinct
<1>2. /\ aliases' \in Seq(Rows(Aliases, StandsFor)) /\ Len(aliases') <= MaxAliases
      /\ Distinct(aliases)'
  BY InvIsSound DEF Distinct
<1> QED BY <1>1, <1>2 DEF StoreInv, StoreTypeOK, OneEntryPerName, EnvironmentAgrees, Sound, Agree, Vars, Env, Rows, Distinct

\* export NAME=value differs from set NAME=value where the table has no room.
LEMMA ExportKeeps ==
  ASSUME StoreInv, NEW n \in Names, NEW v \in Values, Export(n, v)
  PROVE  StoreInv'
<1>0. /\ Sound(variables, env) /\ variables \in Seq(Rows(Names, Values)) /\ Distinct(variables)
      /\ Len(variables) <= MaxVars /\ MaxVars \in Nat /\ env \in Env /\ Agree(variables, env)
      /\ DirsListed /\ wd \in Dirs /\ came \in Dirs \cup {Unset} /\ meddled \in {0, 1}
  BY InvIsSound, StoreAssumption DEF Sound, Vars
<1>1. CASE RoomFor(variables, n)
  <2>1. Set(n, v)
    BY <1>1 DEF Export, Set, PutEnv
  <2> QED BY <2>1, SetKeeps
<1>2. CASE ~RoomFor(variables, n)
  <2>1. Find(variables, n) = {} /\ Len(variables) = MaxVars
    BY <1>0, <1>2 DEF RoomFor
  <2>2. variables' = variables /\ env' = [env EXCEPT ![n] = v]
    BY <1>0, <2>1, StoredEntries DEF Export
  <2>3. \A x \in Entries(variables) : x.name # n /\ x.name \in Names
    <3>1. Find(variables, n) = {i \in 1..Len(variables) : variables[i].name = n}
      BY <1>0, FindOfName
    <3>2. \A x \in Entries(variables) : x.name \in Names
      BY <1>0, EntryTypes
    <3> QED BY <2>1, <3>1, <3>2 DEF Entries
  <2>4. [env EXCEPT ![n] = v] \in Env /\ Agree(variables, [env EXCEPT ![n] = v])
    BY <1>0, <2>3 DEF Env, Agree
  <2>5. Sound(variables, [env EXCEPT ![n] = v])
    BY <1>0, <2>4 DEF Sound
  <2>6. DirsListed' /\ meddled' \in {0, 1} /\ named' \subseteq Names
    BY <1>0, <2>2 DEF Export, About, DirsListed, Entries
  <2> QED BY <1>0, <2>2, <2>5, <2>6, VariableStep DEF Export
<1> QED BY <1>1, <1>2

\* export NAME puts into the environment what the shell sees already.
LEMMA ExportNameKeeps ==
  ASSUME StoreInv, NEW n \in Names, ExportName(n)
  PROVE  StoreInv'
<1>0. /\ Sound(variables, env) /\ variables \in Seq(Rows(Names, Values))
      /\ env \in Env /\ Agree(variables, env)
      /\ DirsListed /\ wd \in Dirs /\ came \in Dirs \cup {Unset} /\ meddled \in {0, 1}
  BY InvIsSound DEF Sound, Vars
<1>1. Get(n) \in Values \cup {Unset} /\ \A x \in Entries(variables) : x.name = n => Get(n) = x.value
  BY <1>0, GetEntry
<1>2. \A x \in Entries(variables) : x.name \in Names
  BY <1>0, EntryTypes
<1>3. [env EXCEPT ![n] = Get(n)] \in Env /\ Agree(variables, [env EXCEPT ![n] = Get(n)])
  BY <1>0, <1>1, <1>2 DEF Env, Agree
<1>4. Sound(variables, [env EXCEPT ![n] = Get(n)])
  BY <1>0, <1>3 DEF Sound
<1>5. DirsListed' /\ meddled' \in {0, 1} /\ named' \subseteq Names
  BY <1>0 DEF ExportName, About, DirsListed, Entries
<1> QED BY <1>0, <1>4, <1>5, VariableStep DEF ExportName

\* unset takes one entry out of the table and its name out of the environment.
LEMMA UnsetKeeps ==
  ASSUME StoreInv, NEW n \in Names, UnsetVar(n)
  PROVE  StoreInv'
<1> DEFINE new == Removed(variables, n)
           e == IF Find(variables, n) # {} THEN [env EXCEPT ![n] = Unset] ELSE env
<1>0. /\ variables \in Seq(Rows(Names, Values)) /\ Distinct(variables)
      /\ Len(variables) <= MaxVars /\ MaxVars \in Nat /\ env \in Env /\ Agree(variables, env)
      /\ DirsListed /\ wd \in Dirs /\ came \in Dirs \cup {Unset} /\ meddled \in {0, 1}
  BY InvIsSound, StoreAssumption DEF Sound, Vars
<1>1. /\ new \in Seq(Rows(Names, Values)) /\ Len(new) <= Len(variables) /\ Distinct(new)
      /\ Entries(new) = {x \in Entries(variables) : x.name # n}
  BY <1>0, RemovedEntries
<1>2. \A x \in Entries(variables) : x.name \in Names
  BY <1>0, EntryTypes
<1>3. e \in Env /\ Agree(new, e)
  BY <1>0, <1>1, <1>2 DEF Env, Agree
<1>4. Len(new) <= MaxVars
  BY <1>0, <1>1
<1>5. Sound(new, e)
  BY <1>1, <1>3, <1>4 DEF Sound, Vars
<1>6. DirsListed'
  <2> SUFFICES ASSUME meddled = 0, n \notin {"PWD", "OLDPWD"}
               PROVE  /\ Entry("PWD", wd) \in Entries(new)
                      /\ came # Unset => \A x \in Entries(new) : x.name = "OLDPWD" => x.value = came
    BY <1>0 DEF DirsListed, UnsetVar, About
  <2>1. Entry("PWD", wd) \in Entries(variables) /\ Entry("PWD", wd).name # n
    BY <1>0 DEF DirsListed, Entry
  <2> QED BY <1>0, <1>1, <2>1 DEF DirsListed
<1>7. meddled' \in {0, 1} /\ named' \subseteq Names
  BY <1>0 DEF UnsetVar, About
<1>8. variables' = new /\ env' = e /\ UNCHANGED <<aliases, wd, came>>
  BY DEF UnsetVar, NameToUnset
<1> HIDE DEF new, e
<1> QED BY <1>0, <1>5, <1>6, <1>7, <1>8, VariableStep

\* cd stores OLDPWD and then PWD: the second store keeps the first.
LEMMA MovedKeeps ==
  ASSUME StoreInv, NEW d \in Dirs, MovedTo(d)
  PROVE  StoreInv'
<1> DEFINE first == Stored(variables, "OLDPWD", wd, MaxVars)
           env1 == PutEnv(env, variables, "OLDPWD", wd)
           second == Stored(first, "PWD", d, MaxVars)
           env2 == PutEnv(env1, first, "PWD", d)
<1>0. /\ Sound(variables, env) /\ Distinct(variables) /\ variables \in Seq(Rows(Names, Values))
      /\ DirsListed /\ wd \in Dirs /\ wd \in Values /\ d \in Values
      /\ meddled \in {0, 1} /\ "PWD" \in Names /\ "OLDPWD" \in Names
  BY InvIsSound, StoreAssumption DEF Sound, Vars
<1>1. /\ Sound(first, env1)
      /\ \A x \in Entries(first) :
           x = Entry("OLDPWD", wd) \/ (x \in Entries(variables) /\ x.name # "OLDPWD")
      /\ \A x \in Entries(variables) : x.name # "OLDPWD" => x \in Entries(first)
  BY <1>0, SetIsSound
<1> HIDE DEF first, env1
<1>2. /\ Sound(second, env2)
      /\ \A x \in Entries(second) :
           x = Entry("PWD", d) \/ (x \in Entries(first) /\ x.name # "PWD")
      /\ Find(first, "PWD") # {} => Entry("PWD", d) \in Entries(second)
  BY <1>0, <1>1, SetIsSound
<1>3. /\ variables' = second /\ env' = env2 /\ wd' = d /\ came' = wd
      /\ named' = {"PWD", "OLDPWD"} /\ UNCHANGED <<aliases, meddled>>
  BY DEF MovedTo, OldDir, first, env1
<1> HIDE DEF second, env2
<1>4. DirsListed'
  <2> SUFFICES ASSUME meddled = 0
               PROVE  /\ Entry("PWD", d) \in Entries(second)
                      /\ \A x \in Entries(second) : x.name = "OLDPWD" => x.value = wd
    BY <1>3 DEF DirsListed, Entries
  <2>1. Entry("PWD", wd) \in Entries(variables) /\ Entry("PWD", wd).name = "PWD"
    BY <1>0 DEF DirsListed, Entry
  <2>2. Entry("PWD", wd) \in Entries(first)
    BY <2>1, <1>1
  <2>3. Find(first, "PWD") # {}
    <3>1. first \in Seq(Rows(Names, Values)) /\ Distinct(first)
      BY <1>1 DEF Sound, Vars
    <3>2. Find(first, "PWD") = {i \in 1..Len(first) : first[i].name = "PWD"}
      BY <3>1, FindOfName
    <3>3. PICK i \in 1..Len(first) : first[i] = Entry("PWD", wd)
      BY <2>2 DEF Entries
    <3> QED BY <2>1, <3>2, <3>3
  <2>4. Entry("PWD", d).name = "PWD" /\ Entry("OLDPWD", wd).value = wd
    BY DEF Entry
  <2> QED BY <1>1, <1>2, <2>3, <2>4
<1> QED BY <1>0, <1>2, <1>3, <1>4, VariableStep

\* The aliases are a table of the same kind; variables are not touched.
LEMMA AliasKeeps ==
  ASSUME StoreInv, NEW a \in Aliases,
         Unalias(a) \/ \E x \in StandsFor : SetAlias(a, x)
  PROVE  StoreInv'
<1>0. aliases \in Seq(Rows(Aliases, StandsFor)) /\ Len(aliases) <= MaxAliases
      /\ Distinct(aliases) /\ MaxAliases \in Nat
  BY InvIsSound, StoreAssumption
<1>1. /\ aliases' \in Seq(Rows(Aliases, StandsFor)) /\ Len(aliases') <= MaxAliases
      /\ Distinct(aliases')
  <2>1. CASE Unalias(a)
    BY <2>1, <1>0, RemovedEntries DEF Unalias
  <2>2. CASE \E x \in StandsFor : SetAlias(a, x)
    BY <2>2, <1>0, StoredEntries DEF SetAlias
  <2> QED BY <2>1, <2>2
<1>2. named' = {a} /\ UNCHANGED <<variables, env, wd, came, meddled>>
  BY DEF Unalias, SetAlias
<1>3. Distinct(aliases)' /\ Distinct(variables)'
  BY <1>1, <1>2 DEF Distinct, StoreInv, OneEntryPerName
<1>4. DirsListed' /\ EnvironmentAgrees'
  BY <1>2 DEF StoreInv, DirsListed, EnvironmentAgrees, Entries
<1> QED BY <1>1, <1>2, <1>3, <1>4 DEF StoreInv, StoreTypeOK, OneEntryPerName, Rows

-----------------------------------------------------------------------------
(* Other names *)

\* What sh_var_get finds in a table and an environment.
Looked(table, e, n) == IF Find(table, n) # {} THEN Value(table, n) ELSE e[n]

\* Two tables list the same under a name.
SameEntry(old, new, n) == \A x : x.name = n => (x \in Entries(old) <=> x \in Entries(new))

\* A search only depends on what is listed under the name, not on its place.
LEMMA SameValue ==
  ASSUME NEW S, NEW V, NEW old \in Seq(Rows(S, V)), NEW new \in Seq(Rows(S, V)),
         Distinct(old), Distinct(new), NEW n, SameEntry(old, new, n)
  PROVE  /\ Find(new, n) = {} <=> Find(old, n) = {}
         /\ Value(new, n) = Value(old, n)
<1>1. /\ Find(old, n) = {i \in 1..Len(old) : old[i].name = n}
      /\ Find(new, n) = {i \in 1..Len(new) : new[i].name = n}
  BY FindOfName
<1>2. ASSUME NEW i \in Find(old, n)
      PROVE  \E j \in Find(new, n) : new[j] = old[i]
  <2>1. old[i] \in Entries(old) /\ old[i].name = n
    BY <1>1 DEF Entries
  <2>2. PICK j \in 1..Len(new) : new[j] = old[i]
    BY <2>1 DEF SameEntry, Entries
  <2> QED BY <1>1, <2>1, <2>2
<1>3. ASSUME NEW j \in Find(new, n) PROVE Find(old, n) # {}
  <2>1. new[j] \in Entries(new) /\ new[j].name = n
    BY <1>1 DEF Entries
  <2>2. PICK i \in 1..Len(old) : old[i] = new[j]
    BY <2>1 DEF SameEntry, Entries
  <2> QED BY <1>1, <2>1, <2>2
<1>4. CASE Find(old, n) = {}
  BY <1>3, <1>4 DEF Value
<1>5. CASE Find(old, n) # {}
  <2>1. PICK i \in Find(old, n) : TRUE
    BY <1>5
  <2>2. PICK j \in Find(new, n) : new[j] = old[i]
    BY <1>2
  <2>3. Find(old, n) = {i} /\ Find(new, n) = {j}
    BY <1>1 DEF Distinct
  <2> QED BY <2>2, <2>3 DEF Value
<1> QED BY <1>4, <1>5

\* The invariant after a step says of the new table and environment what it
\* says of the old.
LEMMA SoundAfter ==
  ASSUME StoreInv'
  PROVE  /\ Sound(variables', env')
         /\ aliases' \in Seq(Rows(Aliases, StandsFor)) /\ Distinct(aliases')
BY DEF StoreInv, StoreTypeOK, OneEntryPerName, EnvironmentAgrees, Distinct, Entries,
       Sound, Agree, Vars, Env, Rows

\* What a step keeps listed under a name, and in the environment, is what the
\* shell and its commands find there.
LEMMA SameGet ==
  ASSUME StoreInv, StoreInv', NEW m \in Names,
         SameEntry(variables, variables', m), env'[m] = env[m]
  PROVE  Get(m)' = Get(m)
<1>1. Sound(variables, env) /\ Sound(variables', env')
  BY InvIsSound, SoundAfter
<1>2. /\ Find(variables', m) = {} <=> Find(variables, m) = {}
      /\ Value(variables', m) = Value(variables, m)
  BY <1>1, SameValue DEF Sound, Vars
<1>3. Get(m)' = Looked(variables', env', m)
  BY DEF Get, Looked, Value, Find
<1>4. Get(m) = Looked(variables, env, m)
  BY DEF Get, Looked
<1> QED BY <1>2, <1>3, <1>4 DEF Looked

\* A store keeps what is listed under other names.
LEMMA StoredOthers ==
  ASSUME NEW S, NEW V, NEW table \in Seq(Rows(S, V)), Distinct(table),
         NEW n \in S, NEW v \in V, NEW max \in Nat, Len(table) <= max, NEW m, m # n
  PROVE  SameEntry(table, Stored(table, n, v, max), m)
<1>1. /\ \A x \in Entries(Stored(table, n, v, max)) :
           x = Entry(n, v) \/ (x \in Entries(table) /\ x.name # n)
      /\ \A x \in Entries(table) : x.name # n => x \in Entries(Stored(table, n, v, max))
  BY StoredEntries
<1>2. Entry(n, v).name = n
  BY DEF Entry
<1> QED BY <1>1, <1>2 DEF SameEntry

\* A removal keeps what is listed under other names, wherever it moves it.
LEMMA RemovedOthers ==
  ASSUME NEW S, NEW V, NEW table \in Seq(Rows(S, V)), Distinct(table), NEW n, NEW m, m # n
  PROVE  SameEntry(table, Removed(table, n), m)
<1>1. Entries(Removed(table, n)) = {x \in Entries(table) : x.name # n}
  BY RemovedEntries
<1> QED BY <1>1 DEF SameEntry

\* putenv keeps the rest of the environment.
LEMMA PutOthers ==
  ASSUME NEW e \in Env, NEW table, NEW n \in Names, NEW v, NEW m \in Names, m # n
  PROVE  PutEnv(e, table, n, v)[m] = e[m]
BY DEF PutEnv, Env

\* What a step may not do to the variables it is not about.
VariablesKept == \A m \in Names \ named' : Get(m)' = Get(m) /\ env'[m] = env[m]
AliasesKept == \A a \in Aliases \ named' : Value(aliases', a) = Value(aliases, a)

\* set and export change no variable but the one they name.
LEMMA SetOthers ==
  ASSUME StoreInv, NEW n \in Names, NEW v \in Values, Set(n, v) \/ Export(n, v)
  PROVE  VariablesKept
<1> SUFFICES ASSUME NEW m \in Names, m # n PROVE Get(m)' = Get(m) /\ env'[m] = env[m]
  BY DEF VariablesKept, Set, Export, About
<1>1. StoreInv'
  BY SetKeeps, ExportKeeps
<1>2. /\ variables \in Seq(Rows(Names, Values)) /\ Distinct(variables)
      /\ Len(variables) <= MaxVars /\ MaxVars \in Nat /\ env \in Env
  BY InvIsSound, StoreAssumption DEF Sound, Vars
<1>3. SameEntry(variables, variables', m)
  BY <1>2, StoredOthers DEF Set, Export
<1>4. env'[m] = env[m]
  <2>1. CASE Set(n, v)
    BY <2>1, <1>2, PutOthers DEF Set
  <2>2. CASE Export(n, v)
    BY <2>2, <1>2 DEF Export, Env
  <2> QED BY <2>1, <2>2
<1> QED BY <1>1, <1>3, <1>4, SameGet

\* export NAME changes the environment under that name only.
LEMMA ExportNameOthers ==
  ASSUME StoreInv, NEW n \in Names, ExportName(n)
  PROVE  VariablesKept
<1> SUFFICES ASSUME NEW m \in Names, m # n PROVE Get(m)' = Get(m) /\ env'[m] = env[m]
  BY DEF VariablesKept, ExportName, About
<1>1. StoreInv'
  BY ExportNameKeeps
<1>2. env \in Env
  BY InvIsSound DEF Sound
<1>3. SameEntry(variables, variables', m) /\ env'[m] = env[m]
  BY <1>2 DEF ExportName, SameEntry, Env
<1> QED BY <1>1, <1>3, SameGet

\* unset NAME takes out that name only, although the last entry moves.
LEMMA UnsetOthers ==
  ASSUME StoreInv, NEW n \in Names, UnsetVar(n)
  PROVE  VariablesKept
<1> SUFFICES ASSUME NEW m \in Names, m # n PROVE Get(m)' = Get(m) /\ env'[m] = env[m]
  BY DEF VariablesKept, UnsetVar, About
<1>1. StoreInv'
  BY UnsetKeeps
<1>2. variables \in Seq(Rows(Names, Values)) /\ Distinct(variables) /\ env \in Env
  BY InvIsSound DEF Sound, Vars
<1>3. SameEntry(variables, variables', m)
  BY <1>2, RemovedOthers DEF UnsetVar
<1>4. env'[m] = env[m]
  BY <1>2 DEF UnsetVar, NameToUnset, Env
<1> QED BY <1>1, <1>3, <1>4, SameGet

\* cd is two stores: it changes PWD and OLDPWD only.
LEMMA MovedOthers ==
  ASSUME StoreInv, NEW d \in Dirs, MovedTo(d)
  PROVE  VariablesKept
<1> DEFINE first == Stored(variables, "OLDPWD", wd, MaxVars)
           env1 == PutEnv(env, variables, "OLDPWD", wd)
<1> SUFFICES ASSUME NEW m \in Names, m \notin {"PWD", "OLDPWD"}
             PROVE  Get(m)' = Get(m) /\ env'[m] = env[m]
  BY DEF VariablesKept, MovedTo
<1>1. StoreInv'
  BY MovedKeeps
<1>2. /\ Sound(variables, env) /\ wd \in Values /\ d \in Values
      /\ "PWD" \in Names /\ "OLDPWD" \in Names
  BY InvIsSound, StoreAssumption
<1>3. /\ variables \in Seq(Rows(Names, Values)) /\ Distinct(variables)
      /\ Len(variables) <= MaxVars /\ MaxVars \in Nat /\ env \in Env
  BY <1>2, StoreAssumption DEF Sound, Vars
<1>4. Sound(first, env1)
  BY <1>2, SetIsSound
<1>5. /\ first \in Seq(Rows(Names, Values)) /\ Distinct(first)
      /\ Len(first) <= MaxVars /\ env1 \in Env
  BY <1>4 DEF Sound, Vars
<1>6. SameEntry(variables, first, m)
  BY <1>2, <1>3, StoredOthers
<1>7. env1[m] = env[m]
  BY <1>2, <1>3, PutOthers
<1>8. variables' = Stored(first, "PWD", d, MaxVars) /\ env' = PutEnv(env1, first, "PWD", d)
  BY DEF MovedTo, OldDir
<1> HIDE DEF first, env1
<1>9. SameEntry(first, variables', m)
  BY <1>2, <1>3, <1>5, <1>8, StoredOthers
<1>10. env'[m] = env1[m]
  BY <1>2, <1>5, <1>8, PutOthers
<1>11. SameEntry(variables, variables', m) /\ env'[m] = env[m]
  BY <1>6, <1>7, <1>9, <1>10 DEF SameEntry
<1> QED BY <1>1, <1>11, SameGet

\* alias and unalias change no alias but the one they name.
LEMMA AliasOthers ==
  ASSUME StoreInv, NEW a \in Aliases,
         Unalias(a) \/ \E x \in StandsFor : SetAlias(a, x)
  PROVE  AliasesKept
<1> SUFFICES ASSUME NEW b \in Aliases, b # a PROVE Value(aliases', b) = Value(aliases, b)
  BY DEF AliasesKept, Unalias, SetAlias
<1>0. aliases \in Seq(Rows(Aliases, StandsFor)) /\ Len(aliases) <= MaxAliases
      /\ Distinct(aliases) /\ MaxAliases \in Nat
  BY InvIsSound, StoreAssumption
<1>1. aliases' \in Seq(Rows(Aliases, StandsFor)) /\ Distinct(aliases')
  BY AliasKeeps, SoundAfter
<1>2. SameEntry(aliases, aliases', b)
  <2>1. CASE Unalias(a)
    BY <2>1, <1>0, RemovedOthers DEF Unalias
  <2>2. CASE \E x \in StandsFor : SetAlias(a, x)
    BY <2>2, <1>0, StoredOthers DEF SetAlias
  <2> QED BY <2>1, <2>2
<1> QED BY <1>0, <1>1, <1>2, SameValue

\* What a concatenation is made of.
LEMMA ConcatFacts ==
  ASSUME NEW T, NEW a \in Seq(T), NEW b \in Seq(T)
  PROVE  /\ a \o b \in Seq(T) /\ Len(a \o b) = Len(a) + Len(b)
         /\ \A i \in 1..Len(a) : (a \o b)[i] = a[i]
         /\ \A i \in (Len(a) + 1)..(Len(a) + Len(b)) : (a \o b)[i] = b[i - Len(a)]
OBVIOUS

\* What main puts in the table has each name once.
LEMMA StartIsSound ==
  ASSUME NEW e \in Inherited, NEW d \in Dirs
  PROVE  /\ Start(e, d) \in Seq(Rows(Names, Values)) /\ Len(Start(e, d)) <= MaxVars
         /\ Distinct(Start(e, d))
         /\ Entry("PWD", d) \in Entries(Start(e, d))
<1> DEFINE home == IF e["HOME"] # Unset THEN <<Entry("HOME", e["HOME"])>> ELSE <<>>
           front == home \o <<Entry("PWD", d)>>
<1>0. /\ e \in [Names -> Values \cup {Unset}] /\ "HOME" \in Names /\ "PWD" \in Names
      /\ d \in Values /\ MaxVars \in Nat /\ Len(Preset) + 2 <= MaxVars
      /\ Preset \in Seq(Rows(Names \ {"HOME", "PWD", "OLDPWD"}, Values))
      /\ Distinct(Preset)
  BY StoreAssumption DEF Rows, Distinct
<1>1. Preset \in Seq(Rows(Names, Values)) /\ Len(Preset) \in Nat
  <2>1. \A i \in 1..Len(Preset) : Preset[i] \in Rows(Names \ {"HOME", "PWD", "OLDPWD"}, Values)
    BY <1>0
  <2>2. \A r \in Rows(Names \ {"HOME", "PWD", "OLDPWD"}, Values) : r \in Rows(Names, Values)
    BY DEF Rows
  <2>3. Len(Preset) \in Nat /\ Preset = [i \in 1..Len(Preset) |-> Preset[i]]
    BY <1>0
  <2>4. \A i \in 1..Len(Preset) : Preset[i] \in Rows(Names, Values)
    BY <2>1, <2>2
  <2> QED BY <2>3, <2>4
<1>2. \A i \in 1..Len(Preset) : Preset[i].name \notin {"HOME", "PWD"}
  <2>1. \A i \in 1..Len(Preset) : Preset[i] \in Rows(Names \ {"HOME", "PWD", "OLDPWD"}, Values)
    BY <1>0
  <2>2. \A r \in Rows(Names \ {"HOME", "PWD", "OLDPWD"}, Values) : r.name \notin {"HOME", "PWD"}
    BY DEF Rows
  <2> QED BY <2>1, <2>2
<1>3. Entry("PWD", d) \in Rows(Names, Values) /\ Entry("PWD", d).name = "PWD"
  BY <1>0 DEF Entry, Rows
<1>4. /\ front \in Seq(Rows(Names, Values)) /\ Len(front) \in 1..2
      /\ front[Len(front)] = Entry("PWD", d)
      /\ Len(front) = 2 => front[1].name = "HOME"
  <2>1. CASE e["HOME"] # Unset
    <3>1. e["HOME"] \in Values
      BY <1>0, <2>1
    <3>2. Entry("HOME", e["HOME"]) \in Rows(Names, Values) /\ Entry("HOME", e["HOME"]).name = "HOME"
      BY <1>0, <3>1 DEF Entry, Rows
    <3>3. home = <<Entry("HOME", e["HOME"])>>
      BY <2>1
    <3>4. home \in Seq(Rows(Names, Values)) /\ Len(home) = 1 /\ home[1] = Entry("HOME", e["HOME"])
      BY <3>2, <3>3
    <3>5. <<Entry("PWD", d)>> \in Seq(Rows(Names, Values)) /\ Len(<<Entry("PWD", d)>>) = 1
      BY <1>3
    <3> HIDE DEF home
    <3>6. /\ front \in Seq(Rows(Names, Values)) /\ Len(front) = 2
          /\ front[1] = home[1] /\ front[2] = Entry("PWD", d)
      <4> DEFINE pwd == <<Entry("PWD", d)>>
      <4>1. pwd[1] = Entry("PWD", d) /\ Len(pwd) = 1 /\ pwd \in Seq(Rows(Names, Values))
        BY <3>5
      <4>2. front = home \o pwd
        OBVIOUS
      <4> HIDE DEF pwd, front
      <4>3. /\ front \in Seq(Rows(Names, Values)) /\ Len(front) = Len(home) + Len(pwd)
            /\ \A i \in 1..Len(home) : front[i] = home[i]
            /\ \A i \in (Len(home) + 1)..(Len(home) + Len(pwd)) : front[i] = pwd[i - Len(home)]
        BY <3>4, <4>1, <4>2, ConcatFacts
      <4>4. Len(front) = 2 /\ front[1] = home[1]
        BY <3>4, <4>1, <4>3
      <4>5. front[2] = pwd[1]
        <5>1. 2 \in (Len(home) + 1)..(Len(home) + Len(pwd)) /\ 2 - Len(home) = 1
          BY <3>4, <4>1
        <5> QED BY <5>1, <4>3
      <4>6. front[2] = Entry("PWD", d)
        BY <4>5, <4>1, Zenon
      <4> QED BY <4>3, <4>4, <4>6, Zenon
    <3> QED BY <3>2, <3>4, <3>6
  <2>2. CASE e["HOME"] = Unset
    <3>1. home = <<>>
      BY <2>2
    <3>2. <<Entry("PWD", d)>> \in Seq(Rows(Names, Values)) /\ Len(<<Entry("PWD", d)>>) = 1
      BY <1>3
    <3> HIDE DEF home
    <3>3. /\ front \in Seq(Rows(Names, Values)) /\ Len(front) = 1
          /\ front[1] = Entry("PWD", d)
      BY <3>1, <3>2
    <3> QED BY <3>3
  <2> QED BY <2>1, <2>2
<1>5. Start(e, d) = front \o Preset
  BY DEF Start
<1> HIDE DEF front, home
<1>6. /\ Start(e, d) \in Seq(Rows(Names, Values))
      /\ Len(Start(e, d)) = Len(front) + Len(Preset)
      /\ \A i \in 1..Len(front) : Start(e, d)[i] = front[i]
      /\ \A i \in (Len(front) + 1)..(Len(front) + Len(Preset)) :
           /\ Start(e, d)[i] = Preset[i - Len(front)]
           /\ i - Len(front) \in 1..Len(Preset)
  BY <1>1, <1>4, <1>5
<1>7. Len(Start(e, d)) <= MaxVars
  BY <1>0, <1>1, <1>4, <1>6
<1>8. Distinct(Start(e, d))
  <2> SUFFICES ASSUME NEW i \in 1..(Len(front) + Len(Preset)), NEW j \in 1..(Len(front) + Len(Preset)),
                      Start(e, d)[i].name = Start(e, d)[j].name
               PROVE  i = j
    BY <1>6 DEF Distinct
  <2>0. \A m \in 1..Len(front) : front[m].name = (IF m = Len(front) THEN "PWD" ELSE "HOME")
    BY <1>3, <1>4
  <2>1. CASE i <= Len(front) /\ j <= Len(front)
    BY <2>1, <2>0, <1>1, <1>4, <1>6
  <2>2. CASE i > Len(front) /\ j > Len(front)
    <3>1. /\ Len(front) \in Nat /\ Len(Preset) \in Nat
          /\ i \in (Len(front) + 1)..(Len(front) + Len(Preset))
          /\ j \in (Len(front) + 1)..(Len(front) + Len(Preset))
      BY <2>2, <1>1, <1>4
    <3>2. /\ Start(e, d)[i] = Preset[i - Len(front)] /\ i - Len(front) \in 1..Len(Preset)
          /\ Start(e, d)[j] = Preset[j - Len(front)] /\ j - Len(front) \in 1..Len(Preset)
      BY <3>1, <1>6
    <3>3. i - Len(front) = j - Len(front)
      BY <3>2, <1>0 DEF Distinct
    <3> QED BY <3>1, <3>3
  <2>3. ASSUME NEW m \in 1..(Len(front) + Len(Preset)), m > Len(front)
        PROVE  Start(e, d)[m].name \notin {"PWD", "HOME"}
    <3>1. m \in (Len(front) + 1)..(Len(front) + Len(Preset))
      BY <2>3, <1>1, <1>4
    <3>2. Start(e, d)[m] = Preset[m - Len(front)] /\ m - Len(front) \in 1..Len(Preset)
      BY <3>1, <1>6
    <3> QED BY <3>2, <1>2
  <2>4. ASSUME NEW m \in 1..(Len(front) + Len(Preset)), m <= Len(front)
        PROVE  Start(e, d)[m].name \in {"PWD", "HOME"}
    <3>1. m \in 1..Len(front)
      BY <2>4, <1>1, <1>4
    <3> QED BY <3>1, <2>0, <1>6
  <2>5. ~(i <= Len(front) /\ j > Len(front)) /\ ~(i > Len(front) /\ j <= Len(front))
    BY <2>3, <2>4
  <2> QED BY <2>1, <2>2, <2>5, <1>1, <1>4
<1>9. Entry("PWD", d) \in Entries(Start(e, d))
  <2>1. Len(front) \in 1..Len(Start(e, d)) /\ Start(e, d)[Len(front)] = Entry("PWD", d)
    <3>1. Len(front) \in 1..Len(front)
      BY <1>4
    <3>2. Len(front) \in 1..(Len(front) + Len(Preset))
      BY <1>1, <1>4
    <3> QED BY <3>1, <3>2, <1>4, <1>6
  <2> QED BY <2>1 DEF Entries
<1> QED BY <1>6, <1>7, <1>8, <1>9

\* The invariant holds when main begins to read commands.
LEMMA InitInv == StoreInit => StoreInv
<1> SUFFICES ASSUME StoreInit PROVE StoreInv
  OBVIOUS
<1>1. PICK e \in Inherited :
        /\ variables = Start(e, wd)
        /\ env = [n \in Names |-> LET v == Value(Start(e, wd), n)
                                  IN IF v = Unset THEN e[n] ELSE v]
  BY DEF StoreInit
<1>2. /\ wd \in Dirs /\ aliases = Defaults /\ came = Unset /\ named = {} /\ meddled = 0
  BY DEF StoreInit
<1>3. /\ variables \in Seq(Rows(Names, Values)) /\ Len(variables) <= MaxVars
      /\ Distinct(variables) /\ Entry("PWD", wd) \in Entries(variables)
  BY <1>1, <1>2, StartIsSound
<1>4. e \in [Names -> Values \cup {Unset}] /\ Unset \notin Values
  BY StoreAssumption
<1>5. ASSUME NEW x \in Entries(variables)
      PROVE  x.name \in Names /\ x.value \in Values /\ Value(variables, x.name) = x.value
  <2>1. x.name \in Names /\ x.value \in Values
    BY <1>3, EntryTypes
  <2>2. PICK i \in 1..Len(variables) : variables[i] = x
    BY DEF Entries
  <2>3. Find(variables, x.name) = {j \in 1..Len(variables) : variables[j].name = x.name}
    BY <1>3, FindOfName
  <2>4. Find(variables, x.name) = {i}
    BY <1>3, <2>2, <2>3 DEF Distinct
  <2> QED BY <2>1, <2>2, <2>4 DEF Value
<1>6. env \in [Names -> Values \cup {Unset}]
  <2> SUFFICES ASSUME NEW n \in Names PROVE env[n] \in Values \cup {Unset}
    BY <1>1
  <2>1. CASE Find(variables, n) = {}
    <3>1. Value(variables, n) = Unset
      BY <2>1 DEF Value
    <3> QED BY <3>1, <1>1, <1>4
  <2>2. CASE Find(variables, n) # {}
    <3>1. PICK i \in 1..Len(variables) : variables[i].name = n
      BY <2>2 DEF Find
    <3>2. Value(variables, n) \in Values
      BY <3>1, <1>5 DEF Entries
    <3> QED BY <3>2, <1>1, <1>4
  <2> QED BY <2>1, <2>2
<1>7. EnvironmentAgrees
  BY <1>1, <1>4, <1>5 DEF EnvironmentAgrees
<1>8. /\ aliases \in Seq(Rows(Aliases, StandsFor)) /\ Len(aliases) <= MaxAliases
      /\ Distinct(aliases)
  BY <1>2, StoreAssumption DEF Rows, Distinct
<1> QED BY <1>2, <1>3, <1>6, <1>7, <1>8 DEF StoreInv, StoreTypeOK, OneEntryPerName, DirsListed, Rows

-----------------------------------------------------------------------------

\* StoreInv holds in every reachable state.
THEOREM StoreInvariant == StoreSpec => []StoreInv
<1>1. StoreInv /\ [StoreNext]_storeVars => StoreInv'
  <2> SUFFICES ASSUME StoreInv, [StoreNext]_storeVars PROVE StoreInv'
    OBVIOUS
  <2>1. ASSUME NEW n \in Names,
               ExportName(n) \/ UnsetVar(n) \/ \E v \in Values : Set(n, v) \/ Export(n, v)
        PROVE  StoreInv'
    BY <2>1, SetKeeps, ExportKeeps, ExportNameKeeps, UnsetKeeps
  <2>2. CASE (\E d \in Dirs : Cd(d)) \/ CdHome \/ CdBack
    BY <2>2, MovedKeeps DEF Cd, CdHome, CdBack
  <2>3. CASE \E a \in Aliases : (\E x \in StandsFor : SetAlias(a, x)) \/ Unalias(a)
    BY <2>3, AliasKeeps
  <2>4. CASE UNCHANGED storeVars
    <3> USE <2>4 DEF storeVars, StoreInv
    <3>1. StoreTypeOK'
      BY DEF StoreTypeOK
    <3>2. OneEntryPerName' /\ EnvironmentAgrees' /\ DirsListed'
      BY DEF OneEntryPerName, Distinct, EnvironmentAgrees, DirsListed, Entries
    <3> QED BY <3>1, <3>2
  <2> QED BY <2>1, <2>2, <2>3, <2>4 DEF StoreNext
<1> QED BY InitInv, <1>1, PTL DEF StoreSpec

\* The tables keep their types and their sizes.
THEOREM Typing == StoreSpec => []StoreTypeOK
<1>1. StoreInv => StoreTypeOK
  BY DEF StoreInv
<1> QED BY <1>1, StoreInvariant, PTL

\* A variable, or an alias, is never listed twice.
THEOREM OneEntry == StoreSpec => []OneEntryPerName
<1>1. StoreInv => OneEntryPerName
  BY DEF StoreInv
<1> QED BY <1>1, StoreInvariant, PTL

\* The environment of the commands agrees with the variables of the shell.
THEOREM EnvironmentIsKept == StoreSpec => []EnvironmentAgrees
<1>1. StoreInv => EnvironmentAgrees
  BY DEF StoreInv
<1> QED BY <1>1, StoreInvariant, PTL

\* PWD, and OLDPWD while it is listed, say where the shell is and was.
THEOREM DirsAreKnown == StoreSpec => []DirsKnown
<1>1. StoreInv => DirsKnown
  <2> SUFFICES ASSUME StoreInv, meddled = 0
               PROVE  /\ Get("PWD") = wd
                      /\ came # Unset /\ Find(variables, "OLDPWD") # {} => Get("OLDPWD") = came
    BY DEF DirsKnown
  <2>1. Sound(variables, env) /\ "PWD" \in Names /\ "OLDPWD" \in Names
    BY InvIsSound, StoreAssumption
  <2>2. Entry("PWD", wd) \in Entries(variables)
        /\ Entry("PWD", wd).name = "PWD" /\ Entry("PWD", wd).value = wd
    BY DEF StoreInv, DirsListed, Entry
  <2>3. Get("PWD") = wd
    BY <2>1, <2>2, GetEntry
  <2>4. ASSUME came # Unset, Find(variables, "OLDPWD") # {}
        PROVE  Get("OLDPWD") = came
    <3>1. PICK i \in 1..Len(variables) : variables[i].name = "OLDPWD"
      BY <2>4 DEF Find
    <3>2. variables[i] \in Entries(variables)
      BY DEF Entries
    <3>3. variables[i].value = came
      BY <2>4, <3>1, <3>2 DEF StoreInv, DirsListed
    <3> QED BY <2>1, <3>1, <3>2, <3>3, GetEntry
  <2> QED BY <2>3, <2>4
<1> QED BY <1>1, StoreInvariant, PTL
\* Assigning or removing one name leaves every other one alone: in the shell,
\* in the environment and among the aliases.
THEOREM OthersAreKept == StoreSpec => OthersKept
<1>1. StoreInv /\ [StoreNext]_storeVars => [VariablesKept /\ AliasesKept]_storeVars
  <2> SUFFICES ASSUME StoreInv, StoreNext PROVE VariablesKept /\ AliasesKept
    BY DEF storeVars
  <2>1. ASSUME NEW n \in Names,
               ExportName(n) \/ UnsetVar(n) \/ \E v \in Values : Set(n, v) \/ Export(n, v)
        PROVE  VariablesKept /\ AliasesKept
    <3>1. VariablesKept
      BY <2>1, SetOthers, ExportNameOthers, UnsetOthers
    <3>2. aliases' = aliases
      BY <2>1 DEF ExportName, UnsetVar, Set, Export
    <3> QED BY <3>1, <3>2 DEF AliasesKept
  <2>2. CASE (\E d \in Dirs : Cd(d)) \/ CdHome \/ CdBack
    <3>1. PICK d \in Dirs : MovedTo(d)
      BY <2>2 DEF Cd, CdHome, CdBack
    <3>2. VariablesKept /\ aliases' = aliases
      BY <3>1, MovedOthers DEF MovedTo
    <3> QED BY <3>2 DEF AliasesKept
  <2>3. CASE \E a \in Aliases : (\E x \in StandsFor : SetAlias(a, x)) \/ Unalias(a)
    <3>1. AliasesKept /\ variables' = variables /\ env' = env
      BY <2>3, AliasOthers DEF SetAlias, Unalias
    <3>2. VariablesKept
      BY <3>1 DEF VariablesKept, Get, Value, Find
    <3> QED BY <3>1, <3>2
  <2> QED BY <2>1, <2>2, <2>3 DEF StoreNext
<1>2. [VariablesKept /\ AliasesKept]_storeVars
        => [/\ \A n \in Names \ named' : Get(n)' = Get(n) /\ env'[n] = env[n]
            /\ \A a \in Aliases \ named' : Value(aliases', a) = Value(aliases, a)]_storeVars
  BY DEF VariablesKept, AliasesKept
<1> QED BY StoreInvariant, <1>1, <1>2, PTL DEF StoreSpec, OthersKept
=============================================================================
