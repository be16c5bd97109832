--------------------------------- MODULE Rm ---------------------------------
(***************************************************************************)
(* rm (src/rm.c): remove_entry and remove_dir_recursive call each other; a *)
(* frame of the stack is a remove_dir_recursive that reads its directory.  *)
(* Other processes may remove and create names between any two calls.      *)
(***************************************************************************)
EXTENDS FileTree

CONSTANTS Trees, Calls,  \* as for Cp; call.tty: standard input is a terminal
          Depth, Faults, Device(_),
          Meddlings      \* how often others change the tree

\* What is known of the constants: paths are sequences of names.
Assumptions ==
  /\ \A t \in Trees : IsTree(t)
  /\ \A c \in Calls : c.srcs \in Seq(Seq(STRING))

VARIABLES fs, start, call, opts, i, pc,
          cur,     \* path of remove_entry
          stack,   \* locals of the remove_dir_recursives: [path, dir, seen, due, ret]
          status,  \* exit_status
          faults,
          others,  \* changes that others may still make
          hurt     \* what went wrong so far: "fault", "no", "made", "gone", "gonedir" (not in the code)

vars == <<fs, start, call, opts, i, pc, cur, stack, status, faults, others, hurt>>
fixed == <<start, call, opts, others>>

-----------------------------------------------------------------------------
(* main: options.  -f, -i and -I exclude each other, but the long           *)
(* --interactive=always leaves -I as it was.                                *)

SetOption(o, given) ==
  CASE given = "f"                     -> (o \ {"i", "I"}) \cup {"f"}
    [] given = "i"                     -> (o \ {"f", "I"}) \cup {"i"}
    [] given = "I"                     -> (o \ {"f", "i"}) \cup {"I"}
    [] given = "--interactive"         -> (o \ {"f"}) \cup {"i"}
    [] given = "--interactive=once"    -> (o \ {"f"}) \cup {"I"}
    [] given = "--interactive=never"   -> o \ {"i", "I"}
    [] given = "--preserve-root"       -> o \ {"noroot"}
    [] given = "--no-preserve-root"    -> o \cup {"noroot"}
    [] OTHER                           -> o \cup {given}
Options(given) == FoldLeft(SetOption, {}, given)

Init ==
  /\ fs \in Trees /\ start = fs
  /\ call \in Calls /\ opts = {}
  /\ i = 1 /\ pc = "parse" /\ cur = <<>> /\ stack = <<>> /\ status = 0
  /\ faults = Faults /\ others = Meddlings /\ hurt = {}

Fails == faults > 0 /\ faults' = faults - 1 /\ hurt' = hurt \cup {"fault"}
Works == UNCHANGED <<faults, hurt>>
SaysNo == faults' = faults /\ hurt' = hurt \cup {"no"}

-----------------------------------------------------------------------------

\* remove_entry returns; a message sets exit_status, and so does main for what
\* does not return 0.
ReturnTo(frames, ret, warned) ==
  /\ status' = IF warned \/ (frames = <<>> /\ ret # 0) THEN 1 ELSE status
  /\ IF frames = <<>>
       THEN /\ stack' = <<>>
            /\ IF i < Len(call.srcs) THEN i' = i + 1 /\ pc' = "file" ELSE i' = i /\ pc' = "exited"
       ELSE /\ stack' = Append(Front(frames), [Last(frames) EXCEPT !.ret = IF ret = 0 THEN @ ELSE -1])
            /\ pc' = "readdir" /\ i' = i
Return(ret, warned) == ReturnTo(stack, ret, warned)
Goes(to) == pc' = to /\ UNCHANGED <<i, stack, status>>

\* No files, or -I and the answer is no: rm ends at once.
Main ==
  /\ pc = "parse"
  /\ opts' = Options(call.given)
  /\ IF call.srcs = <<>>
       THEN pc' = "exited" /\ status' = (IF "f" \in opts' THEN 0 ELSE 1) /\ Works
       ELSE /\ status' = status
            /\ \/ pc' = "file" /\ Works
               \/ "I" \in opts' /\ (Len(call.srcs) > 3 \/ "r" \in opts') /\ pc' = "exited" /\ SaysNo
  /\ UNCHANGED <<fs, start, call, others, i, cur, stack>>

\* The root, which is <<>> here, is protected.
IsRoot(p) == Real(fs, p) = <<>>
TakeFile ==
  /\ pc = "file"
  /\ cur' = call.srcs[i]
  /\ IF "noroot" \notin opts /\ IsRoot(cur') THEN Return(0, TRUE) ELSE Goes("entry")
  /\ Works /\ UNCHANGED <<fs, fixed>>

\* Mutant: links are followed.
LookThrough(p) == Stat(fs, p)

LookAt(p) == Lstat(fs, p)

\* ENOENT, and not a file where a directory should be.
NoSuch(p) == LookAt(p).kind = "none" /\ NamedAt(fs, Front(RealName(fs, p))).kind # "file"
OnOtherDevice(p) == "x" \in opts /\ Device(p) # Device(call.srcs[i])

\* remove_entry: lstat, and what is to be done.
Look ==
  /\ pc = "entry"
  /\ LET kind == LookAt(cur).kind IN
       CASE kind = "none" -> IF "f" \in opts /\ NoSuch(cur) THEN Return(0, FALSE) ELSE Return(-1, TRUE)
         [] kind = "dir" -> IF OnOtherDevice(cur) THEN Return(0, TRUE)
                            ELSE IF opts \cap {"r", "d"} = {} THEN Return(-1, TRUE)
                            ELSE Goes(IF "r" \in opts THEN "descend" ELSE "rmdir")
         [] OTHER -> Goes("unlink")
  /\ Works /\ UNCHANGED <<fs, fixed, cur>>

\* remove_file.  It asks with -i, and for what is write-protected.
Asks == "i" \in opts \/ ("f" \notin opts /\ call.tty = 1 /\ Stat(fs, cur).mode = 0)
RemoveFile ==
  /\ pc = "unlink"
  /\ \/ Asks /\ SaysNo /\ fs' = fs /\ Return(0, FALSE)
     \/ CanUnlink(fs, cur) /\ Works /\ fs' = Unlink(fs, cur) /\ Return(0, FALSE)
     \/ /\ IF CanUnlink(fs, cur) THEN Fails ELSE Works
        /\ fs' = fs
        /\ IF "f" \in opts /\ ~CanUnlink(fs, cur) /\ NoSuch(cur) THEN Return(0, FALSE) ELSE Return(-1, TRUE)
  /\ UNCHANGED <<fixed, cur>>

\* rmdir for -d, and at the end of remove_dir_recursive, which has its own ret.
RemoveDir(frames, ret) ==
  \/ "i" \in opts /\ SaysNo /\ fs' = fs /\ ReturnTo(frames, ret, FALSE)
  \/ CanRmdir(fs, cur') /\ Works /\ fs' = Rmdir(fs, cur') /\ ReturnTo(frames, ret, FALSE)
  \/ (IF CanRmdir(fs, cur') THEN Fails ELSE Works) /\ fs' = fs /\ ReturnTo(frames, -1, TRUE)

RemoveEmpty ==
  /\ pc = "rmdir"
  /\ cur' = cur
  /\ RemoveDir(stack, 0)
  /\ UNCHANGED fixed

Descend ==
  /\ pc = "descend"
  /\ \/ "i" \in opts /\ SaysNo /\ Return(0, FALSE)
     \/ /\ IsDir(fs, cur) /\ Works
        /\ LET d == Real(fs, cur) IN
             stack' = Append(stack, [path |-> cur, dir |-> d, seen |-> {}, due |-> Entries(fs, d), ret |-> 0])
        /\ pc' = "readdir" /\ UNCHANGED <<i, status>>
     \/ (IF IsDir(fs, cur) THEN Fails ELSE Works) /\ Return(-1, TRUE)
  /\ UNCHANGED <<fs, fixed, cur>>

ReadDir ==
  /\ pc = "readdir"
  /\ LET f == Last(stack) IN
       \E n \in Entries(fs, f.dir) \ f.seen :
         /\ stack' = Append(Front(stack), [f EXCEPT !.seen = @ \cup {n}])
         /\ cur' = Append(f.path, n)
  /\ pc' = "entry"
  /\ Works /\ UNCHANGED <<fs, fixed, i, status>>

LeaveDir ==
  /\ pc = "readdir"
  /\ LET f == Last(stack) IN
       /\ f.due \cap Entries(fs, f.dir) \subseteq f.seen
       /\ cur' = f.path
       /\ RemoveDir(Front(stack), f.ret)
  /\ UNCHANGED fixed

-----------------------------------------------------------------------------

\* Another process removes a file or an empty directory, or creates a file.
SomeoneMeddles ==
  /\ pc \notin {"parse", "exited"} /\ others > 0
  /\ \E p \in DOMAIN fs :
       \/ CanUnlink(fs, p) /\ fs' = Unlink(fs, p) /\ hurt' = hurt \cup {"gone"}
       \/ CanRmdir(fs, p) /\ fs' = Rmdir(fs, p) /\ hurt' = hurt \cup {"gonedir"}
       \/ /\ CanCreate(fs, Append(p, "new"), Depth)
          /\ fs' = Create(fs, Append(p, "new"), "file", <<>>, 1) /\ hurt' = hurt \cup {"made"}
  /\ others' = others - 1
  /\ UNCHANGED <<start, call, opts, i, pc, cur, stack, status, faults>>

Remover ==
  \/ Main \/ TakeFile \/ Look \/ RemoveFile \/ RemoveEmpty \/ Descend \/ ReadDir \/ LeaveDir
Next == Remover \/ SomeoneMeddles

Spec == Init /\ [][Next]_vars

-----------------------------------------------------------------------------
(* Properties *)

TypeOK ==
  /\ IsTree(fs) /\ call \in Calls /\ i \in 1..Len(call.srcs) + 1 /\ status \in {0, 1}
  /\ faults \in 0..Faults /\ others \in 0..Meddlings /\ Len(stack) < Depth + 1
  /\ \A k \in 1..Len(stack) : stack[k].ret \in {0, -1} /\ stack[k].seen \subseteq STRING

Args == {call.srcs[k] : k \in 1..Len(call.srcs)}

\* Exit status 0 means that nothing rm was given is there any more, unless it
\* was told no.
ZeroMeansGone ==
  pc = "exited" /\ status = 0 /\ "no" \notin hurt /\ "made" \notin hurt => \A p \in Args : Lstat(fs, p).kind = "none"

\* Exit status 1 means that something really went wrong: with -rf, not that
\* files vanished meanwhile.
OneMeansTrouble ==
  pc = "exited" /\ status = 1 /\ {"r", "f"} \subseteq opts /\ "x" \notin opts =>
    \/ hurt \cap {"fault", "made", "gonedir"} # {}
    \/ \E p \in Args : Real(start, p) = <<>> \/ Lstat(start, Front(p)).kind = "file"

\* The status tells what was done.
StatusTells == ZeroMeansGone /\ OneMeansTrouble

\* rm removes nothing but what is below a name it was given, never through a link.
OthersKept ==
  \A p \in DOMAIN start :
    \/ \E a \in Args : Below(p, RealName(start, a))
    \/ NamedAt(fs, p) = start[p]
    \/ hurt \cap {"gone", "gonedir"} # {}

=============================================================================
