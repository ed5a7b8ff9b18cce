--------------------------- MODULE StartupLogging ---------------------------
(***************************************************************************)
(* src/mmx_startup.c on POSIX and on Windows: where stdout and stderr go.    *)
(*                                                                           *)
(* A file or a pipe that a shell gave to the process is kept; otherwise the  *)
(* output moves to a log in the first folder that can be written, unless the *)
(* player asked for the console.  Descriptors are the system's or, on        *)
(* Windows, the C library's: open() returns the lowest free one.  A POSIX    *)
(* process may be started with any of the first three closed; in a Windows   *)
(* GUI process they may lead nowhere ("none"), and the streams have          *)
(* descriptor -2.                                                            *)
(***************************************************************************)
EXTENDS Integers, Sequences, SequencesExt

CONSTANTS
  Launches,     \* [platform, fds]: tables of descriptors a process starts with
  MaxIni        \* bound: lines of logging.ini

VARIABLES
  launch,       \* the platform and the descriptors at start
  fds,          \* descriptor -> what it leads to, now
  file,         \* stream -> its descriptor
  env,          \* what the environment says: console, and which folders exist
  writable,     \* folders in which a log can be created
  console,      \* the player asked for the console
  redirected,   \* the streams that keep their output
  tried,        \* candidates of open_log() that failed
  fd,           \* the log's descriptor, or -1
  pc

vars == <<launch, fds, file, env, writable, console, redirected, tried, fd, pc>>
inputs == <<launch, env, writable>>

Std == [stdin |-> 0, stdout |-> 1, stderr |-> 2]
Streams == DOMAIN Std
Outputs == {"stdout", "stderr"}
Windows == launch.platform = "windows"

Folders == {"exe", "xdg", "home", "tmp", "temp"}
PosixEnvironments ==
  [MMX_LOG_CONSOLE : {"unset", "empty", "0", "1"},
   ini : UNION {[1..n -> {"Console=1", "Console=0", "other"}] : n \in 0..MaxIni},
   exe_dir : BOOLEAN, xdg : BOOLEAN, home : BOOLEAN]
\* module: the path of the executable is known; ini: [Logging] Console # 0;
\* attach: the process has, finds or makes a console; temp: GetTempPath works.
WindowsEnvironments == [module : BOOLEAN, ini : BOOLEAN, attach : BOOLEAN, temp : BOOLEAN]

\* redirected(): a regular file, a pipe or a socket, with a descriptor.
Redirected(s) == file[s] >= 0 /\ launch.fds[file[s]] \in {"file", "pipe"}

\* The last line of logging.ini that is about the console decides.
IniRequests(ini) ==
  LET lines == SelectSeq(ini, LAMBDA line : line # "other")
  IN lines # <<>> /\ Last(lines) = "Console=1"

\* console_requested(): the variable wins, then the file beside the executable.
ConsoleRequested(e) ==
  IF Windows THEN e.ini
  ELSE IF e.MMX_LOG_CONSOLE \notin {"unset", "empty"} THEN e.MMX_LOG_CONSOLE # "0"
  ELSE e.exe_dir /\ IniRequests(e.ini)

\* The folders MmxStartupLogging() tries, in order.
Candidates(e) ==
  IF Windows
  THEN IF ~e.module THEN <<>> ELSE IF e.temp THEN <<"exe", "temp">> ELSE <<"exe">>
  ELSE (IF e.exe_dir THEN <<"exe">> ELSE <<>>)
         \o (IF e.xdg THEN <<"xdg">> ELSE IF e.home THEN <<"home">> ELSE <<>>)
         \o <<"tmp">>

-----------------------------------------------------------------------------
(***************************************************************************)
(* Descriptors.  st is [fds, file].                                          *)
(***************************************************************************)
Lowest(table) ==
  CHOOSE f \in DOMAIN table :
    table[f] = "closed" /\ \A g \in DOMAIN table : table[g] = "closed" => f <= g

\* freopen(): close the stream's descriptor, if it has one; open another.
Reopened(st, s, target) ==
  LET table == IF st.file[s] < 0 THEN st.fds
               ELSE [st.fds EXCEPT ![st.file[s]] = "closed"]
  IN [fds |-> [table EXCEPT ![Lowest(table)] = target],
      file |-> [st.file EXCEPT ![s] = Lowest(table)]]

\* Mutant: without NUL, dup2() to descriptor -2 fails.
MovedDirectly(st, s) ==
  IF st.file[s] < 0 THEN st ELSE [st EXCEPT !.fds[st.file[s]] = st.fds[fd]]

\* dup2() of the log to a stream, which on Windows gets a descriptor first.
Moved(st, s) ==
  LET ready == IF Windows THEN Reopened(st, s, "nul") ELSE st
  IN [ready EXCEPT !.fds[ready.file[s]] = ready.fds[fd]]

\* Only a stream that is not redirected is moved.
UnlessRedirected(s, st, moved) == IF s \in redirected THEN st ELSE moved

Now == [fds |-> fds, file |-> file]
Becomes(st) == fds' = st.fds /\ file' = st.file

-----------------------------------------------------------------------------
Init ==
  /\ launch \in Launches /\ fds = launch.fds
  /\ file = [s \in Streams |-> IF fds[Std[s]] = "none" THEN -2 ELSE Std[s]]
  /\ env \in IF Windows THEN WindowsEnvironments ELSE PosixEnvironments
  /\ writable \in SUBSET {Candidates(env)[n] : n \in DOMAIN Candidates(env)}
  /\ console = FALSE /\ redirected = {} /\ tried = <<>> /\ fd = -1
  /\ pc = "decide"

\* Without the path of the executable nothing is done on Windows.
GiveUp ==
  /\ pc = "decide" /\ Windows /\ ~env.module
  /\ pc' = "running"
  /\ UNCHANGED <<inputs, fds, file, console, redirected, tried, fd>>

\* On Windows a console that cannot be had leaves the log.
Decide ==
  /\ pc = "decide" /\ (Windows => env.module)
  /\ console' = ConsoleRequested(env)
  /\ redirected' = {s \in Outputs : Redirected(s)}
  /\ LET attached == console' /\ Windows /\ env.attach
         kept == (console' /\ ~Windows) \/ redirected' = Outputs
     IN pc' = CASE attached -> "console"
                [] ~attached /\ kept -> "running"
                [] OTHER -> "open"
  /\ UNCHANGED <<inputs, fds, file, tried, fd>>

\* freopen() of CONOUT$ and CONIN$.
ReopenConsole ==
  /\ pc = "console" /\ pc' = "running"
  /\ LET out == UnlessRedirected("stdout", Now, Reopened(Now, "stdout", "console"))
         err == UnlessRedirected("stderr", out, Reopened(out, "stderr", "console"))
     IN Becomes(Reopened(err, "stdin", "console"))
  /\ UNCHANGED <<inputs, console, redirected, tried, fd>>

\* open_log() in the next folder; after the last one the output stays.
OpenLog ==
  /\ pc = "open"
  /\ LET folder == Candidates(env)[Len(tried) + 1]
     IN IF folder \in writable
        THEN /\ fd' = Lowest(fds) /\ fds' = [fds EXCEPT ![Lowest(fds)] = "log"]
             /\ pc' = "move" /\ UNCHANGED tried
        ELSE /\ tried' = Append(tried, folder)
             /\ pc' = IF tried' = Candidates(env) THEN "running" ELSE "open"
             /\ UNCHANGED <<fds, fd>>
  /\ UNCHANGED <<inputs, file, console, redirected>>

MoveStreams ==
  /\ pc = "move" /\ pc' = "close"
  /\ LET out == UnlessRedirected("stdout", Now, Moved(Now, "stdout"))
     IN Becomes(UnlessRedirected("stderr", out, Moved(out, "stderr")))
  /\ UNCHANGED <<inputs, console, redirected, tried, fd>>

\* Mutant: the log's own descriptor stays open.
KeepLog ==
  /\ pc = "close" /\ pc' = "running"
  /\ UNCHANGED <<inputs, fds, file, console, redirected, tried, fd>>

\* close() of the log's own descriptor, whichever it is.
CloseLog ==
  /\ pc = "close" /\ pc' = "running"
  /\ fds' = [fds EXCEPT ![fd] = "closed"]
  /\ UNCHANGED <<inputs, file, console, redirected, tried, fd>>

\* Any later open(): a save, a tape, the cartridge.
OpenGameFile ==
  /\ pc = "running" /\ pc' = "playing"
  /\ fds' = [fds EXCEPT ![Lowest(fds)] = "game file"]
  /\ UNCHANGED <<inputs, file, console, redirected, tried, fd>>

Play == pc = "playing" /\ UNCHANGED vars

Next ==
  \/ GiveUp \/ Decide \/ ReopenConsole \/ OpenLog \/ MoveStreams \/ CloseLog
  \/ OpenGameFile \/ Play

Spec == Init /\ [][Next]_vars

-----------------------------------------------------------------------------
Started == pc \in {"running", "playing"}
Sink(s) == IF file[s] < 0 THEN "none" ELSE fds[file[s]]

\* Setting up the log leaves every descriptor that is not a stream's as it was:
\* none leaks, and none that the parent handed over is lost, stdin among them
\* unless a Windows console takes it over (mmx_startup.c:44-59 and 150-158).
DescriptorsReturned ==
  pc = "running" =>
    \A f \in DOMAIN fds :
      \/ fds[f] = launch.fds[f]
      \/ \E s \in Outputs : f = file[s]
      \/ f = file["stdin"] /\ fds[f] = "console"

\* What a reader of logging.ini expects.
IniAsks(ini) ==
  \E n \in DOMAIN ini : /\ ini[n] = "Console=1"
                        /\ \A k \in n + 1..Len(ini) : ini[k] = "other"

\* The player asked for the console and there is one.
ConsoleAsked ==
  IF Windows THEN env.ini /\ env.attach
  ELSE \/ env.MMX_LOG_CONSOLE = "1"
       \/ env.MMX_LOG_CONSOLE \in {"unset", "empty"} /\ env.exe_dir /\ IniAsks(env.ini)

\* The console and the file or pipe of a script keep the output, and whoever has
\* a folder that can be written finds all other output in the log: "both
\* platforms write the session log to logs/ beside the executable unless
\* logging.ini asks for the console; explicit redirection is always kept"
\* (mmx_startup.c:2-3, 86 and 91).
SessionLogged ==
  Started => \A s \in Outputs :
    LET before == launch.fds[Std[s]]
    IN CASE before \in {"file", "pipe"} -> Sink(s) = before
         [] before \notin {"file", "pipe"} /\ ConsoleAsked /\ Candidates(env) # <<>> ->
              IF Windows THEN Sink(s) = "console"
              ELSE before # "closed" => Sink(s) = before
         [] OTHER -> writable # {} => Sink(s) = "log"
=============================================================================
