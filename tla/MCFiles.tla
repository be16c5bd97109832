------------------------------- MODULE MCFiles -------------------------------
(* The tools that work on files others change meanwhile, one at a time: mv or *)
(* tail runs, and the variables of the other stay as they are at its start.   *)
(*                                                                            *)
(* mv: two sources with one last component and a directory, a destination     *)
(* that is missing, a file or a directory, on the same or on another file     *)
(* system.  tail: one file or two, or stdin, rings of one to three lines.     *)
EXTENDS Mv, TailFollow

AllPaths == {"a/x", "b/x", "a/y", "d", "d/x", "d/y", "d/x~", "d/y~", "d~"}
BaseOf == [p \in AllPaths |-> CASE p \in {"a/x", "b/x", "d/x"} -> "x" [] p \in {"a/y", "d/y"} -> "y" [] OTHER -> p]
JoinOf(d, b) == IF b = "x" THEN "d/x" ELSE "d/y"
BackupOf == [p \in AllPaths |-> CASE p = "d/x" -> "d/x~" [] p = "d/y" -> "d/y~" [] OTHER -> "d~"]
OneOrTwo == {[p \in AllPaths |-> 1], [p \in AllPaths |-> IF p \in {"a/x", "b/x", "a/y"} THEN 1 ELSE 2]}

At(kind, p, time) == [kind |-> kind, of |-> p, whole |-> 1, time |-> time]
Tree(dest, x) ==
  [p \in AllPaths |->
     CASE p \in {"a/x", "b/x"} -> At("file", p, 1)
       [] p = "a/y" -> At("full", p, 1)
       [] p = "d" -> IF dest = "none" THEN None ELSE At(dest, p, 1)
       [] p = "d/x" -> IF dest = "full" /\ x # "none" THEN At(x, p, 2) ELSE None
       [] OTHER -> None]
AllTrees == {Tree(dest, x) : dest \in {"none", "file", "full"}, x \in {"none", "file", "dir"}}
AllCalls ==
  {[srcs |-> s, dest |-> "d"] : s \in {<<"a/x">>, <<"a/y">>, <<"a/x", "a/y">>, <<"a/x", "b/x">>, <<"b/x", "a/x">>}}
AllOptions == {{}, {"f"}, {"i"}, {"n"}, {"b"}, {"u"}, {"T"}, {"f", "u"}}

Opt(l, b, m, r, p) == [lines |-> l, bytes |-> b, mode |-> m, retry |-> r, pid |-> p, max |-> 2]
Scenario(a, k, os) == {[args |-> a, input |-> 1, seekable |-> 1, kinds |-> k, opts |-> o] : o \in os}
\* From stdin, a file or a pipe.
Piped(a, os) == {[args |-> a, input |-> 1, seekable |-> c, kinds |-> {"append"}, opts |-> o] : c \in {0, 1}, o \in os}
Idle == [args |-> <<"s">>, input |-> 1, seekable |-> 1, kinds |-> {}, opts |-> Opt(1, 0, 0, 0, 0)]
AllScenarios ==
  Scenario(<<"s">>, {"append"},
           {Opt(l, 0, m, 0, 0) : l \in {0, 1, 2, 3, -2}, m \in {0, 1, 2}} \cup {Opt(0, b, 1, 0, 1) : b \in {2, -2, -4}})
  \cup Scenario(<<"s">>, {"append", "truncate", "remove", "create"},
                {Opt(1, 0, m, r, p) : m \in {1, 2}, r \in {0, 1}, p \in {0, 1}})
  \cup Scenario(<<"s", "t">>, {"append", "remove"}, {Opt(1, 0, m, r, 1) : m \in {0, 1, 2}, r \in {0, 1}})
  \cup Piped(<<"-", "-">>, {Opt(1, 0, m, 0, 0) : m \in {0, 1}} \cup {Opt(-4, 0, 0, 0, 0)} \cup {Opt(0, b, 0, 0, 0) : b \in {2, -1, -2}})
  \cup Piped(<<"s", "-">>, {Opt(2, 0, 1, 0, 1)})
  \cup {Idle}

TwoNames == <<"s", "t">>

VARIABLE tool  \* "mv" or "tail"

ASSUME Assumptions /\ BackupsApart
ASSUME TailAssumptions

filesVars == <<tool, vars, tailVars>>

\* A tool that is not started could be started in some way.
MvIdle == tree = Tree("none", "none") /\ device = [p \in AllPaths |-> 1] /\ call.srcs = <<"a/x">> /\ opts = {}
TailIdle == scenario = Idle

FilesInit ==
  /\ Init /\ TailInit
  /\ \/ tool = "mv" /\ TailIdle
     \/ tool = "tail" /\ MvIdle

MvRuns == tool = "mv" /\ Next /\ UNCHANGED <<tool, tailVars>>
Reading == tool = "tail" /\ Reader /\ UNCHANGED <<tool, vars>>
TailRuns == Reading \/ (tool = "tail" /\ World /\ UNCHANGED <<tool, vars>>)

FilesNext == MvRuns \/ TailRuns

FilesSpec == FilesInit /\ [][FilesNext]_filesVars
\* sleep returns: tail goes on as long as it has not exited.
FilesFairSpec == FilesSpec /\ WF_filesVars(Reading)
=============================================================================
