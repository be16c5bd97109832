# Verification of toolbox.c

TLA+ models of *toolbox.c*: an interactive shell (`toolsh.c`), the C library it
and the tools can be linked with (`malloc.c`, `stdio.c`, `start.c`, `string.c`,
`printf.c`, `syscall.s`) and some fifty command line tools. TLC checks the models
on small instances; the theorems in the `*Proofs` modules hold for every value of
the constants.

To check a run: `tlc -config <cfg> <MC module>`; to check a proof: `tlapm <module>Proofs.tla`.
`PROJECT.json` lists the runs, and for each definition the lines of the source it models.

## 1. The system

### toolsh

One process, one thread, one signal handler. `main` reads a line (interactively, from a
script or from `-c`), and `run_pipeline` runs it. State is in static variables.

| Part | State | Operations | Interacts with |
|---|---|---|---|
| processes and jobs | `jobs[64]`, `job_count`, `last_exit` | `run_pipeline` (fork, waitpid), `add_job`, `handle_sigchld`, `jobs` | the kernel: SIGCHLD, zombies, reuse of pids. The handler interrupts the main program anywhere |
| pipelines | `pipes[][2]`, `pids[]` (locals) | the pipe, fork, close and wait loops of `run_pipeline`; the set-up in the child | the stages: each reads, writes, sees end of file or SIGPIPE |
| command lines | the line, which is cut in place; the call stack | `run_pipeline` calling itself for `;` `&&` `\|\|`, `execute_builtin`, `builtin_source`, `main` | statuses come from processes and builtins |
| variables, aliases, directory | `variables[]`, `aliases[]`, the environment, the working directory | `sh_var_set/get/unset`, `export`, `set`, `unset`, `cd`, `alias`, `unalias` | commands inherit the environment |
| prompt and history | line buffer, cursor, `history[]` ring, `hist_idx`, `saved` | each key of `read_line_interactive`, `add_history`, `!!`, `!N` | gives its line to `run_pipeline` |
| words of a command | variables and aliases (read and written by builtins), `last_exit` | `tokenize`, `expand_variables`, `parse_command`, `resolve_command`, `echo`, `alias`, `unalias`, `export`, `NAME=value` | takes the text of one command from the line, gives `argv` and the redirections to `run_pipeline` |

What is hard: a handler that reaps with `waitpid(-1)` against a foreground
`waitpid(pid)`; coalesced signals; pids that come back while a finished job's slot
still holds them; who holds which end of a pipe when, and what a pipe or fork that
fails half way leaves behind; a recursion that splits one shared buffer; a variable
that lives in a table of fixed size *and* in the environment; a line editor on a raw
buffer with a ring behind it.

What makes it correct: no child is lost; a background child is listed exactly while it
lives; `$?` is the status of the last command; a pipeline ends when its data ends; a
chain runs the commands its operators say, once, in order; the environment agrees with
the variables; the ring is the list of the last commands.

### The library (libtool)

| Part | State | Operations | What makes it correct |
|---|---|---|---|
| allocator (`malloc.c`) | `__free_list`, `__chunks`, headers in the heap itself | `malloc`, `calloc`, `realloc`, `free` with a coalescing scan that starts over after each merge, `heap_grow` | blocks tile the chunks; live allocations are disjoint and keep their data; freeing everything restores the chunks; every call returns |
| streams (`stdio.c`) | `FILE` (one buffer for both directions), `__open_files[64]` | `fopen`, `fclose`, `fread`, `fwrite`, `fputs`, `fputc`, `fflush`, `fseek`, `file_flush` | a stream looks like a file with a position, whatever `read` and `write` return |
| exit (`start.c`) | `atexit` table | `atexit`, `exit`, `__stdio_flush_all` | nothing buffered is left behind |
| formatting, strings, environment, getopt | mostly none | `printf`, `qsort`, `strtol`, `getenv`, ... | pure functions |
| system calls (`syscall.s`) | none | register moves | not modelled |

### The tools

Each tool is one process that reads options and files and exits. Three kinds:

* tools that change the file system while others may change it too: `mv`, `cp`, `rm`,
  `rmdir`, `ln`, `install`, `mkdir`, `chmod`, `find -delete`, `chown`, `touch`, `mknod`.
  What is hard is a failure in the middle, what another process does between a look
  and a change, a walk over a tree that the walk itself changes, and that the exit
  status tells the truth;
* tools that copy and follow: `dd`, `tee`, `cat`, `tail -f`. What is hard is what happens
  between two looks, reads and writes that take part of a block, and an output that fails
  while the others go on;
* filters, editors and printers: `sort`, `uniq`, `cut`, `tr`, `wc`, `head`, `tac`, `sed`, `awk`,
  `ls`, `du`, `df`, `stat`, ... Algorithms on lines. What is hard is the state that is
  kept across blocks, lines and files, buffers that move, and for `sed` and `awk` the control of their scripts.

## 2. The modules

### The shell and the library

| Module | Models | How |
|---|---|---|
| `ToolshJobs` | processes, waitpid, SIGCHLD, job table | `pc` is the place in `run_pipeline` and `add_job`; each store of `add_job` is an action because the handler may cut in between. `handler = "on"` stops every main action (`Main`). `sigchld` is one pending bit. A `waitpid` that finds nothing decodes an uninitialised `status`: any exit code. `owner`, `trueExit`, `stolen` are observation variables |
| `ToolshPipeline` | one pipeline of N stages | `at` is the place in `run_pipeline`; `ends[p]` is what each process has open; a stage reads, writes, or ends by itself, by end of file (nobody holds the write end) or SIGPIPE (nobody holds the read end). Commands are `yes` (endless), `once`, `cat`, `head` (stops after one item). SIGCHLD may take a stage's status (`taken`) |
| `ToolshLine` | recursion over `;` `&&` `\|\|`, builtins, `source`, `exit`, `-c` and scripts | A line is a sequence of tokens with places; what callers have still to do is `stack`. Statuses are inputs; `ran` records what ran |
| `ToolshWords` | the words of one command, from text to `argv` and redirections, and the builtins that take them apart | texts are bytes. A call is what somebody *means* (words, files, variables, an alias) and how they quote it; `WrittenLine` writes it down, the actions read it back with the code's tokenizer, expansion, redirections, tool names and aliases |
| `ToolshStore` | variables, environment, aliases, `cd` | tables are sequences with the code's operations (first match, swap with last, full table ignored); `came`, `named`, `meddled` are observation variables |
| `ToolshPrompt`, `PromptView` | editor buffer and history ring; what the user sees | `PromptView` has a text with a cursor and a list of commands, no buffer and no ring. `ToolshPrompt` implements it (`Prompt == INSTANCE PromptView WITH ...`, `PromptImplementsView`) |
| `LibcMalloc` | allocator | `mem[a]` is what a header read at word `a` would show, so client data, poison, trailers and stale headers can be mistaken for blocks, exactly as in the code. The search and the scan are loops of actions. Sizes wrap at `Word` |
| `LibcStdio`, `StreamView` | streams and exit; what a client sees | every `read` and `write` is an action that may be short or fail. `StreamView` has a content and a position, no buffer. `LibcStdio` implements it (`StdioImplementsView`) |

### The tools that work on trees of files

`FileTree` is what the kernel promises them: a function from paths to nodes (inode, kind, content,
mode, time) and the trees after `open`, `unlink`, `rename`, `link`, `mkdir`, `chmod`, ... . Each tool has a
program counter, one action per system call or look, and a stack where the code recurses.
`Faults` calls may fail, and where it matters another process may make `Meddlings` changes in between.

| Module | Models | How |
|---|---|---|
| `Mv` | `move_item`, `move_multiple`, `copy_file_contents`, backups, all options that change what is done | `tree` maps names to what is there; one action per look and per change; another process may create files between any two; copies and removals may fail |
| `Cp` | `copy_file`, `copy_directory`, links, backups, `-u -n -i -l -s -x -T` | the walk reads a directory that may grow by what is copied; a failed copy removes what it began |
| `Rm` | `remove_entry`, `remove_file`, `remove_dir_recursive`, questions, the root check | another process may remove a name or an empty directory, or create a file, between any two calls |
| `Dirs` | `mkdir -p -m`, `rmdir -p` | a path is worked off one `mkdir` or `rmdir` at a time, each of which may fail; the path `.` is `<<>>` |
| `Ln` | links, `-s -r -f -i -b -n -L -P -T -t`, `VERSION_CONTROL` | relative targets are computed as in `make_relative` |
| `Install` | temporary file, copy, `rename`, modes, owners, `strip`, `-b -C -D -d -p` | `hurt` holds the places a failed step left half done |
| `Chmod` | numeric, reference and symbolic modes, `-R`, `--preserve-root` | a mode is a set of bits `<<class, letter>>`; a symbolic mode is a sequence of components `[who, op, perm]` |
| `Find` | parser, evaluator, `-maxdepth -mindepth -delete -exec`, traversal | a call is a *meaning* (a tree of tests); `Arguments` writes it down with parentheses where precedence needs them, `ParseExpr` reads it as the code does |

### The tools that work on texts

`TextTool` holds what they share: bytes, lines, and the state of one call (`inp`, `out`, `mem`, `pc`,
`status`). Reads may be short and may fail where the code calls `read` itself.

| Module | Models | How |
|---|---|---|
| `TailFollow` | the ring, the seeks, standard input, `follow_file`, `main`'s loop | files are sequences of numbered lines (or bytes); others append, truncate, remove and create under the same name between any two steps: between the look at the size of the open file, the one at what the name stands for (`LookAtName`), the measuring of that file (`Compare`), and each line read. `-` is read from where it was left, and never followed |
| `Dd` | `read_full`, the conversions, `outbuf_*`, skip, seek, count, SIGINT | reads and writes of any length; the output file is a sequence with a position |
| `Tee`, `Cat` | outputs that fail one by one, signals; `cat_simple` and `cat_full` | a block at a time |
| `Sort` | options, keys, every comparison, the pool of lines, `-c -m -u -o -s` | the pool moves as in `pool_grow`; a line that still points into the old one holds `Poison`. `qsort` may give any order that agrees with the comparison |
| `Uniq`, `Cut`, `Tac`, `Head`, `Wc`, `Tr` | each loop with all its options | one action per `fgets`, `fread` or file; reads beyond an object are a choice over what may lie there |
| `Sed` | addresses, ranges, blocks, branches, every command, text put off, `-i` with backups | a script is a sequence of parsed commands; one action per command; `regexec` is external with four kinds of expressions |
| `AwkParse` | `awk`'s recursive descent, from tokens to rules, statements and expressions | each function takes the tokens and a place and returns a node and the place behind it; the ten functions of the binary operators are one, `Climb`, over the table of their levels |
| `Awk` | `eval_node`, `call_builtin`, fields, arrays, functions, `match_pattern`, `process_line`, `process_file`, `main` | the evaluator is a function from a node and the whole memory to a value and a memory; a step is a rule, a record or a file. Flags (`next`, `exit`, ...) are a set in the memory, and fields that `split` has freed are marked |

### Composition

| Module | Puts together |
|---|---|
| `MCInput` | the way from keys to commands to output, one part per behaviour: it extends `ToolshPrompt`, `ToolshLine`, `ToolshStore` and `LibcStdio`, whose theorems are about the very properties it checks, and takes an instance of `ToolshWords` |
| `MCFiles` | `Mv` and `TailFollow`, both extended; one of them runs |
| `MCTools` | all other tools, one per behaviour, with their trees, texts and options; `Started` names the tools that run |
| `LibcMalloc`, `ToolshJobs` | are run as they are, the latter for `jobs_exit` |
| `MCToolsh` | `ToolshJobs` and `ToolshPipeline`, both extended; one of them runs |
| `*Proofs` | theorems |

The components meet at few places, and the models meet there too: `ToolshJobs` and
`ToolshPipeline` both have the wait loop, one with the job table and the handler's
every step, the other with the data that flows and the handler as one step; the
statuses `ToolshLine` takes from its set are what they produce. `ToolshPrompt` ends
with the line that `ToolshLine` begins with, and `ToolshWords` begins with one of its commands.

### What is abstracted

Strings are sequences of a few characters, tokens or model values; file contents are
sequences of one or two different bytes (or numbered lines); modes, owners and time
stamps are left out where nothing depends on them, as are messages, colours and help
texts. A command is what it exits with, or how it treats its pipes. Options are given,
not parsed, where parsing has no state; where a later option changes what an earlier one
did (`cp`, `rm`, `install`, `sort`, `head`, ...) they are a sequence, applied as in the code.

## 3. The runs

All bounds are in the `.cfg` files and the `MC` modules.

| Run | Asks | Bounds, and why they are enough |
|---|---|---|
| `toolsh` | jobs: is a child ever lost, a live job ever unlisted, `$?` ever wrong although `waitpid` won, the prompt ever not reached? pipelines: who holds which end, who has been waited for, whose status is kept; does every pipeline that should end do so? | jobs: two pids, so that every pid is reused while an old slot holds it; two slots, so that the table fills up; two stages; two exit codes; every interleaving with the handler. Pipelines: three stages (first, middle, last are what the code tells apart), pipes that hold one item (full at once), every mix of the four commands, one redirection, failing `pipe` and `fork` |
| `malloc` | Is the heap exact, are clients' data kept, does every call return? | two chunks that may lie side by side or be one large one, three live blocks of two sizes, headers of four words, alignment two; client data that looks like free headers |
| `input` | prompt: do buffer and ring show and run what the user sees? lines: does a line run what it says? words: does a command get what was meant? streams: does a stream look like a file, does exit flush, does `stderr` wait? variables: do table, environment and directories agree, and does a command touch only its own name? | prompt: two characters in the buffer (Size 4 less the two the code keeps) and two commands in the ring, so that it wraps; `!`, blank and a digit make `!!`, `!2`, blank lines. Lines: all chains of three and four commands over the three operators, and lines with quotes, comments, pipes, `&`, `exit`, `source` once and twice, a missing command. Words: a name and two parts out of fourteen (each quoting, each redirection, variables with blanks or nothing in them, operators inside words), aliases defined in four ways and used, fewer than ten tokens (`MAX_ARGS`). Streams: a buffer of two bytes that a write may overflow, files of up to three bytes and then a full disk, short and failing calls anywhere; `stderr` and one file in the modes r, w and a; one `atexit` handler that makes any call. The constraint `OneInUse` keeps the two streams from multiplying: while the file is open, what has reached stderr's own file is followed no further. Variables: four names and three slots (the table overflows), two directories, two aliases, every inherited environment over `HOME`, `OLDPWD`, `x` |
| `files` | `mv`: is a source ever lost, a status ever wrong, a destination ever half replaced? `tail`: is the ring the end of the file, does what is appended come out, does it come to the new file? | `mv`: one source or two, destinations that are missing, a file, a directory, same or other file system, one file created by others. `tail`: rings of one to three lines over files of two to five, three changes by others, one file or two, standard input once and twice, from a file or a pipe |
| `tools` | Does status 0 mean that it is done? Is anything lost, left half done, or changed that was not named? Do copies, filters and edits give what their definitions over the whole text say? | trees of up to seven nodes with a directory in a directory, links, hard links, a fifo and two file systems; one failing call and one change by another process, at any point; names nest four deep. Texts of up to ten bytes against buffers of two to four, lines of six to eight, a pool of eight and integers of four bits, so that every buffer, line, pool and number overflows. `awk`: fifteen idioms with a known meaning over two files, the standard input or none (every expression of two operators among them), and sixteen programs that reach the rest of the language, under four field separators; lines of eleven bytes and one pipe, so that both overflow; numbers are integers |
| `jobs_exit` | violated: `$?` is the last exit status (`toolsh.md`) | as the jobs of `toolsh` |
| `line_mixed` | violated: `a && b \|\| c` (`toolsh.md`, Conditionals) | as `input` |
| `mv_read` | violated: "Copy successful, remove source" (`mv.c`) | as `files` |
| `tail_twice` | violated: "output appended data as the file grows" (`tail.c`): once | as `files` |
| `tail_skips` | violated: "output appended data as the file grows" (`tail.c`): all of it, with `-F` | as `files` |
| `sort_pool` | violated: "Write sorted concatenation of all FILE(s)" (`sort.c`) | as `tools`, only `sort` |
| `tools_help` | violated: what `cat`, `tr`, `sort`, `rmdir`, `chmod` and `cp` say of themselves in their help and comments | as `tools`, only these six |

The properties of `input`, `files` and `tools` are conjunctions over the parts or tools; each module
states and explains its own (`EditsRight` is `Sed.EditsRight` and `Awk.AwkRight`; `FiltersRight` is `SortRight`, `UniqRight`, ...;
`InputRight` is, for each part of `input`, its types and what is asked of it alone, such as `ToolshWords.WordsKept` and `EchoSeparates`;
the others of `input` are the components' own). A run of one tool alone is the
same run with that tool's name in `Started`.

`CHECK_DEADLOCK FALSE` is used where a behaviour really ends: a
process that has exited, a line that has been run, a tool that is done. `toolsh` and `malloc` are checked
for deadlock: the prompt and the heap never stop, and a pipeline whose processes are all gone stays as it is (`AllIsOver`).

### What the violated runs show

* **`jobs_exit`** (`toolsh.c:1093`). The SIGCHLD handler reaps any child, the foreground
  one too. If it is first, `waitpid(pid, &status, 0)` fails, `status` is never written
  and `$?` is what was on the stack. `ExitStatusUnlessStolen` says that this is the only
  way `$?` can be wrong.
* **`line_mixed`** (`toolsh.c:1004`). A line is split at its *first* `&&` or `||`, and
  everything to the right is run or skipped as a whole. So in the documented
  `test -f file.txt && cat file.txt || echo "not found"` nothing is printed when the
  file is missing. `ChainsRun` says that chains of one operator are right, and that nothing but the line's commands is run.
* **`mv_read`** (`mv.c:139`). The copying loop ends on `read` returning -1 as it does at
  the end of the file; the incomplete copy counts as a success and the source is removed.
  `NothingLost` says that this is the only way a source is lost.
* **`tail_twice`** (`tail.c:474`). `last_size` becomes the size measured *before* the new
  lines are read, while reading goes on to the end of the file. A line appended in
  between is printed, and printed again in the next round.
* **`tail_skips`** (`tail.c:493`). With `-F`, after some rounds without a change `tail` measures the
  file under the name and compares that with `last_size`, which the open file had at an earlier look
  (`tail.c:462`). A line appended between the two looks makes the same file seem another one: `tail`
  closes it, opens it again at its end, and that line is never printed. `AppendedComesOut` says that what is
  there when `tail` measures the open file comes out, whatever is appended later, and `ComesToTheName` that `tail`
  comes to the file that has the name.
* **`sort_pool`** (`sort.c:152`). Lines are pointers into a pool. When `realloc` moves the pool the
  lines read so far point into freed memory: with more input than the first pool holds (1 MiB),
  `sort` crashes or puts out something else. `SortRight` says that up to there, and whenever the pool
  happens not to move, the output is the sorted input.

* **`tools_help`**. Six tools exit with 0 and have done something else than they say. The run stops at the
  first, `cat`; with `Started = {"tr"}` and so on in `ToolsHelp.cfg` it shows each of the others.
  - `cat -n` leaves blank lines without a number (`cat.c:172`; help: "number all output lines").
    `LinesWhole` says what else `-n` and `-b` promise: the numbers count on over blocks and files.
  - `tr -s SET1 SET2` looks the translated byte up in SET1 (`tr.c:311`), so `tr -s a b` makes `bbb` of `aab`
    ("replace each input sequence of repeated characters"). `TrRight` leaves open only how often a byte is repeated then.
  - `sort -f -u` puts out `A` and `a`, which compare equal: the last comparison is of the whole lines
    (`sort.c:530`; "output only the first of an equal run"). `SortRight` says nothing of lines that only the keys make equal.
  - `rmdir -p a/b/c` removes `a/b/c` alone (`rmdir.c:82`: `dirname` cuts the path where it stands; "remove DIRECTORY and
    its ancestors"). `ZeroMeansDone` is about what was named.
  - `chmod u+x a b` computes the mode from the first file and gives it to all (`chmod.c:544`; "We'll process each file
    individually"). `ZeroMeansDone` is about files that began with the first one's mode.
  - `cp -p` does not look at what `chmod` and `lutimes` return (`cp.c:185`; "preserve the specified attributes").
    `ZeroMeansDone` is about a call in which these did not fail; which of them failed is an input of every `Preserve` and `LeaveDir`.

### Further deviations met while modelling

The models contain these steps; no run is spent on them.

* `toolsh.c:1089`: a background child that dies before `add_job` has stored its slot is
  reaped first and then listed as running for ever.
* `toolsh.c:1104`, `1107`: when `pipe` or `fork` fails half way, the open ends stay open in
  the shell and the stages that run are not waited for.
* `toolsh.c:1016`: `&` after a pipeline has no effect, it is waited for.
* `toolsh.c:210`: with all `MAX_VARS` slots taken a new variable is ignored in silence,
  `cd`'s own `OLDPWD` too; `cd -` then goes to an inherited `OLDPWD`.
* `toolsh.c:218`: `unset` of an inherited variable that the table does not hold leaves it set.
* `toolsh.c:509`: a line edited after coming back to the bottom of the history is lost at the
  next Up but one: it is saved at the first Up only.
* `malloc.c:89`: a size near `SIZE_MAX` wraps around, and the block is smaller than asked.
* `stdio.c:56`: after a failing `write` the part of the buffer that was already written stays
  in the buffer and is written again by the next flush.
* `stdio.c:90`: a stream opened while the table of 64 is full is not flushed at exit.
* `stdio.c:227`: `SEEK_CUR` counts from the kernel's offset, ahead of the client's by what was
  read ahead (`StreamView` promises only what remains: some position in the file).
* `mv.c:179`: with `-n`, a destination created between the look and `rename` is replaced.
* `mv.c:241`: with `-b`, `rename` is not called for the source; on one file system nothing is
  moved, and `errno`, which decides what follows, is an old one.
* `mv.c:291`: of two sources with one last component the second replaces the first, with status 0.
* `tail.c:456`: what is appended between the first reading and the opening for following is
  never printed.
* `tail.c:493`: by name, a new file of the same size is not noticed (`ComesToTheName` excludes it).
* `tail.c:549`: `-n 0` prints the default number of lines; `-z` is parsed and not used.
* `tail.c:523`: `--retry` does not help with a file that is missing at the start.
* `tail.c:586`: with several files the first is followed, and the others never reached, although
  the comment at 593 says the last one is.

The words of a command (`toolsh.c`):

* The names of tools are resolved to `coreutils/bin/NAME` before builtins and aliases are looked up
  (`644`), so the builtins `echo`, `pwd`, `true` and `false` are only reached through aliases, and an
  alias with a tool's name never. The text of an alias is tokenized, but neither expanded nor resolved:
  the preloaded `ll` ("Pre-loaded defaults", `toolsh.md:49`) becomes `ls -la`, and `ls` is then an unknown command.
* Quotes are gone when operators are looked for: a quoted `>` or `&` acts as one (`625`, `633`), and
  `echo 2 > f` is taken for `2>` (`606`). `2>>` truncates, other `N>` are standard output.
* `A="x y"` sets `A` to nothing, for a quote begins a new token (`423`); `"a"b` is two words. `$` is expanded
  in single quotes and after `\$` too (`637`). An unclosed `${` reads past the string (`242`).

Files:

* `cp a link-to-a` truncates `a` (`cp.c:267`); `-b` and then `-P` on a link fails; a copy that fails removes
  the destination that was there before; `cp -r a a/b` goes on until the path is too long (`cp.c:214`).
* `rm -rf` of a directory that vanishes meanwhile ends with 1; `--interactive=always` leaves `-I` on.
* `mkdir -p` takes a dangling link for a directory; `-m` sets the umask
  to 0 for parents too; `-m u=g` gives nothing (`mkdir.c:106`).
* `ln --backup=none` makes backups; `ln -f a a` removes `a`; `-r` is wrong for a missing target.
  `install` renames the file before it has its mode and owner; `-D` accepts a file as a directory.
* `chmod` keeps three letters of each kind, ignores the
  umask, follows links with `-R`, and `g=u` copies nothing. `-x` is taken for an option.
* `find -delete` removes a directory before what is in it, so directories that are not empty stay; the
  status is 0 whatever failed; a missing operand of `!`, `-a` or `-o` counts as true.

Texts:

* `dd`: `conv=sparse` writes wrong lengths at the end (`dd.c:774`); `noerror` without `sync` may read the
  same error for ever; `noerror,sync` counts a block twice; SIGINT does not end a read that waits.
* `tee`: an output that fails leaves the status 0. `cat`: a failing read is
  silent.
* `sort`: `-s -u` drops none; `-o` truncates the file before it is
  read (`sort.c:884`); a missing file is status 0; `-R` and NaN are no orders.
* `uniq`: `-D` prints the first line twice, `-z` does nothing, `uniq f f` empties `f`; lines over 4095 bytes are
  split, in `cut` too. `cut --complement` crashes, empty fields vanish, the delimiter is read past its object
  (`cut.c:284`).
* `tac` stops at a NUL, and uses the separator for output only. `head` keeps numbers in an `int`. `wc` always
  ends with 0, and `-m` counts bytes.
* `tr` sorts its sets by byte; an empty SET2 is read out of bounds; `-d` deletes NULs.
* `sed`: `D` loses the rest of the pattern space (`sed.c:959`); `$` is the last line of each file; a range ends at
  its line number only; `s/$/X/g` replaces twice; `R` reads the first line again; an unmatched `{` jumps to the second
  command. With `-i`, a stream whose end was reached is closed twice, and a full disk puts a truncated
  file in place of the old one.
* `awk`: to the right of `~` a regular expression is matched with the record, and its result, `0` or `1`, is the
  pattern (`awk.c:2120`). `print x > "f"` compares, for `>` belongs to the expression (`1059`); a redirected `printf`
  prints (`1163`), and `>` empties the file each time (`2217`). `print (a) b` prints `a` and then evaluates `b` (`1261`).
  `-` binds tighter than `^`, which associates to the left, and `$x++` is `$(x++)`.
* `split` puts back pointers to fields it has freed (`1484`, `1494`): they are read afterwards, and freed again with
  the next record. `sub` on a field sets the field whose number is the field's text (`1562`), on an element the record,
  on a local the global of that name. `NF++`, `FS += 1` and `-v OFS=,` have no effect ("already done via var_set
  above", `2594`); `for (k in a)` reads keys that its body has deleted (`Freed`).
* `nextfile` is seen when the next line has been read (`2500`): on a file's last line it loses the first of the next.
  `next` in `BEGIN`, and `break` outside a loop, stay set and cut later rules short (`2255`). `exit` in `END` does not
  stop the other `END` rules (`2482`). `gsub(/^a/, ...)` replaces every leading `a` in turn (`1528`).
* A token that nothing can begin with makes the parser go round until the memory or the table of rules is full (`1338`, `1404`).

## 4. Fairness

* `toolsh`, jobs: weak fairness for each of the handler's steps (the kernel delivers SIGCHLD, and
  the handler's loop has no blocking call), for the shell's fork and `add_job` steps, and
  for a `waitpid` that can return. Nothing is assumed of children, which may run for ever, or of
  the user.
* `toolsh`, pipelines: each process that can take a step takes one; that is what the kernel's
  scheduler gives. Nothing makes `yes` stop by itself: `PipelineEnds` rests on SIGPIPE.
* `malloc`: a call that has begun goes on (sequential code that does not block).
* `files`: `tail` goes on after each `sleep`. Others need not do anything.
* The other runs are safety only.

## 5. The proofs

All theorems are of the form `Spec => [](...)` or `Spec => [][...]_vars`, for every value of the
constants that the named `ASSUME` of the module admits.

* **`ToolshJobsProofs`**: `Typing`, `NoLostWakeupHolds`, `LiveJobListedHolds`,
  `JobKeptUntilReapedHolds`, `ExitStatusHolds`. `LiveJobListed` is not inductive: the
  handler may cut in when `add_job` has stored the pid but not yet `running`. The
  strengthening is `AddJobInv` (what each program counter of `add_job` knows of its slot), and
  that a running slot belongs to one living process.
* **`ToolshPipelineProofs`**: `PipelineInvariant`, `EndsPrivate`, `NobodyLeft`, `StatusOfLast`, for any
  number of stages. The inductive invariant `PipelineInv` is the loop invariant of the four
  loops: which ends the shell has before and behind `k`, which stages are forked and reaped,
  and that `result`, the code's variable `status`, is the last stage's once `k` has passed it.
* **`ToolshStoreProofs`**: `StoreInvariant`, `OneEntry`, `EnvironmentIsKept`, `DirsAreKnown`, and for
  each step `OthersAreKept` (a command changes its own name only, in the table, the environment and the aliases),
  for any names, values and table sizes. They rest on lemmas about `Find`, `Stored` and `Removed` (a
  table without duplicates stays one, and every other name keeps its value).
* **`LibcMallocProofs`**: `HeapInvariant` and nine consequences, among them `BlocksTile`, `Coalesced`,
  `AllocationsDisjoint`, `FragmentationHeals`, `UsedIsLive`, `AssertionsHold` and `DataIsKept`. The inductive
  invariant `HeapInv` adds to the tiling where chunks and trailers are (`ChunksApart`: the
  trailer's canary is what keeps the scan from running out of a chunk), what the call in
  progress relies on (`CallInv`) and that the scan has left no mergeable pair behind it (`ScanInv`,
  which is why it must start over after a merge). These theorems assume `NoWrap`: no request
  is so large that its size wraps around.

* **`FilesProofs`**, `mv`: `MvInvariant`, `NothingLostHolds`, `ReplacedAtOnceHolds`, `ZeroMeansMovedHolds`, for any names, any
  number of sources and any contents. `NothingLost` is not inductive. What is added: a source is taken
  away only after it has arrived (`KeptWhere` says where it is at each program counter), the
  copying branch is entered only when the two names are on different file systems (`OnlyAbroad`), the
  copy is what has been read so far (`CopyThere`), and with several sources the destination is a
  directory (`Several`). `ZeroMeansMoved` adds the verdict so far (`Verdict`) and that what arrived
  stays (`DoneArrived`). They assume `BackupsApart`, that no backup name is a source or a destination: `mv -b`
  does not look, and renames its backup over whatever has that name.
* **`FilesProofs`**, `tail`: `TailInvariant`, `TailTyping`, `RingIsLastHolds`, for any files, options and changes by others. The
  heart is `AddedIs`: a ring written modulo its size, read from `start`, is the old one with a line at its end, less its
  first line once it is full. The last lines of a text grow in the same way (`LastAppended`), and what others append does
  not change what has been read (`BeginningGrows`); truncation does, so `RingIsLast` is about files that only grow.
* **`LibcStdioProofs`**: `StdioInvariant`, `ExitFlushesHolds`, `StderrPromptHolds`, `StdioImplementsViewHolds`, for any
  buffer size, contents, disk size and number of streams. The inductive invariant relates the buffer,
  its position and its end to the file (`Shapes`), what each call in progress has still to do (`CallInv`),
  how far `exit` has come through the table (`ExitInv`), and that between two calls no line waits in a line-buffered
  stream (`LineInv`). The refinement has one lemma per action: a `read` that refills and a `write` that flushes
  are stutters of `StreamView`, a byte taken or put is its `Get` or `Put`.
* **`ToolshPromptProofs`**: `PromptInvariant`, `LengthIsExact`, `TextComesBack`, `ImplementsPromptView`, for any
  characters, any buffer size and any number of commands in the ring. The inductive invariant says that the
  text ends at its length and nowhere before (`LenExact`), that the index lies in the ring, and that what was saved is what comes
  back. The refinement needs that a ring written modulo its size is the list of the last commands (`IndexIs`,
  `AddRemembers`). That there is a first character that is no blank, or a last one, is shown by the least
  counterexample, the one form of induction used.

* **`ToolshLineProofs`**: `LineInvariant`, `LineTyping`, `OnceAndInOrderHolds`, `ExitIsLastStatusHolds`, for any lines and
  any sourced file. The inductive invariant is about what waits in the callers of `run_pipeline`. `OrderInv`: whatever a
  caller has still to run is to the right of all that has run and of all that the calls above it have still to
  run, and nothing of a file has been touched while the `source` that reads it waits. `ExitInv`: the result and
  `last_exit` agree unless a caller throws the result away (`Discards`: `;` does). It assumes `LineAssumptions`: the places of
  a line's tokens grow, and no two lines share one; they are how the model tells pieces apart, and any numbering will do.
  The proof corrected the property: it was thought to fail only for a line that ends in `||`, but `c || &` ends with a
  result of 0 and a `last_exit` of 1 too; hence `Complete`, that each `&&` and `||` has a command to its right.
* **`ToolshLineProofs`**, chains: `ChainInvariant`, `ChainsAreRun`, under the same assumption: a line runs the commands that its
  operators say, and nothing else. `ChainsRun` speaks of the end only; what makes it inductive is `Grammar`, which says where
  everything is while the line is being cut up. `Pieces`: the current line and what each caller has still to run are pieces of the line given,
  which begin behind a separator, or are out of the file. `Callers`: a caller waits behind its operator, what one of `&&` or `||` has still to run
  has no semicolon, and only a `source` is called on top of it. `Answers`: the result such a caller gets is the status of the
  command in front of its operator. `Decisions`: each command waits, or is settled: it ran and was due, or it was left
  out and the last command of its piece that ran before it says so; those that wait are to the right of all others.
  The hypotheses of `ChainsRun` are each needed: a chain of two operators is what `line_mixed` shows (`Unmixed`), `exit` leaves the rest
  of the line (`NoExit`), an operator with nothing to its left gets a result of 0 that no command gave (`WellWritten`), and
  a failing `fork` leaves its command out. `LineInvariant` alone gives that nothing runs twice, and that a command of the line
  does not run again while a caller still holds it.

* **`FilesProofs`**, `tee`: `TeeInvariant`, `TeeCopiesSame`, for any input, sizes of the buffer and the table, failures and
  signals. What has been read is a beginning of the input; an output that has not failed holds all of it, or all but the block in
  hand if the loop over the outputs has not come to it yet (`TeeProgress`).
* **`FilesProofs`**, the tree: the lemmas about `FileTree` that the next two rest on. `OneLink` takes the link nearest to the root,
  and that there is a nearest one is where well-founded induction on numbers comes in (`LeastExists`). The heart is
  `NamesStay`: if every link and every directory of a tree were in an older one, too (`Narrower`), then a name that can be reached now is the
  name it was then. Removing a name and creating a file make a tree narrower (`Unlinked`, `Rmdired`, `Created`); making a
  directory does not, but leaves all links as they were (`SameLinks`). `Whole` is what of `IsTree` the proofs need.
* **`FilesProofs`**, `mkdir` and `rmdir`: `DirsInvariant`, `DirsKeepOthers`, `DirsZeroMeansDone`, for any trees and paths. The invariant
  says how the tree differs from that of the start (`DirMade`, `DirTaken`), what of the path in hand is left to do
  (`DirTodo`), and that every path before it is done (`DirDone`). The proof found `mkdir -p .` without a meaning in the model:
  the path has no beginnings, while the code makes one `mkdir`; `PathsTo` now says so and the run has that path.
* **`FilesProofs`**, `rm`: `RmInvariant`, `RmTakesOnlyItsOwn`, `RmKeepsOthers`, `RmZeroMeansGone`, for any trees, any nesting and any
  devices. `RmKeepsOthers` is not inductive: what keeps `rm` from what it was not given is that the name it works on is at or
  below a name of the call whenever it can be reached, and that a directory it reads is reached by no link (`RmPlaces`), which `lstat`
  has told it. Both stay true while others remove names and create files, by `NamesStay`. `RmTakesOnlyItsOwn` is about each
  step and so holds when others have removed something, too, where `OthersKept` says nothing. That nobody replaces a
  directory by a link between `lstat` and `opendir` is an assumption of the model: the code opens by name.

Only model-checked are: everything that is to happen some time (`WaitReturns`, `PipelineEnds`, `CallsReturn`, `AppendedComesOut`,
`ComesToTheName`), since liveness under fairness and `ENABLED` are beyond the prover; what recursive definitions compute for
every input (the words of `ToolshWords`, the lines of `TextTool`, the evaluators of `Sed`, `Awk`, `Find` and `Chmod`), since that takes induction
over data; and of `MCTools` all but `tee`, `mkdir`, `rmdir` and `rm`, of which `OneMeansTrouble` (what status 1 means) is checked only. `Ln`'s
`OthersKept` and `Install`'s `NeverHalf` are statements about the checked instances and not theorems: in other trees a link just made can change what a
later name of the same call leads to.

## 6. Not modelled, and the plan

Planned next, in this order:

1. Proofs for `cp`, `ln` and `install` with the lemmas about `FileTree`; what status 1 of `rm` means.
2. `du`'s sums with hard links, `test`'s parser, `ls`'s orders.
3. `string.c` (`qsort`, `strtol`), `printf.c`'s conversions at the numeric edges, `start.c`'s
   environment and `getopt`.

Left out for good: `syscall.s` (register moves), programs that print what one system call
returns (`uname`, `whoami`, `id`, `df`, `stat`, `date`, `pwd`, `readlink`) or make one (`chown`, `touch`, `mknod`, `sync`),
`md5sum`'s arithmetic, programs of a few lines (`true`, `false`, `yes`, `echo`, `sleep`, `basename`, `dirname`, `env`),
the tests and the build. Of the modelled files the following is left out: drawing on the
terminal, messages and help, `aligned_alloc`, which no tool calls, `r+` streams as far as promises go
(their steps are in the model), `tail`'s headers, `cp --sparse`, `dd`'s rates and character tables,
`sed`'s reading of its script beyond blocks and `y`, `awk`'s lexer, its formats' widths and its functions of time,
chance, mathematics and the system, failures of `awk`'s `fopen` and `popen` for another reason than a missing file name,
`lseek` that fails under `dd conv=sparse`, another process that puts a link in the place of a directory while `rm` walks through it,
regular expressions and floating-point numbers (external, with a few kinds each), and the shell's builtins that only print. A walk deeper than four names, and more than one
failure in one call, are beyond the bounds.
