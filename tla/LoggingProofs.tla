---------------------------- MODULE LoggingProofs ----------------------------
(***************************************************************************)
(* What the program takes from its host at start and gives back: which       *)
(* descriptor freopen(), open() and dup2() take, and where each stream leads. *)
(***************************************************************************)
EXTENDS StartupLogging, SequenceTheorems, TLAPS

\* The descriptors of table from k on are closed, the others open.
OpenBelow(table, N, k) ==
  /\ N \in Nat /\ k \in Nat /\ k <= N
  /\ table = [f \in 0..N |-> table[f]]
  /\ \A f \in 0..N : table[f] = "closed" <=> k <= f

\* A process gets its descriptors from the lowest one up: from some n >= 3 on all
\* are closed and three more may be opened, and on POSIX the streams are real.
FirstDescriptors ==
  \A l \in Launches :
    /\ \E n, N \in Nat : 3 <= n /\ n + 3 <= N /\ OpenBelow(l.fds, N, n)
    /\ l.platform # "windows" => \A f \in 0..2 : l.fds[f] # "none"

\* The three streams and their descriptors.
LEMMA StandardStreams ==
  /\ Streams = {"stdin", "stdout", "stderr"} /\ Outputs \subseteq Streams
  /\ Std["stdin"] = 0 /\ Std["stdout"] = 1 /\ Std["stderr"] = 2
BY DEF Streams, Outputs, Std

\* The descriptor the streams have at start.
start == [s \in Streams |-> IF launch.fds[Std[s]] = "none" THEN -2 ELSE Std[s]]
Starts(S) == S = [s \in Streams |-> S[s]] /\ \A s \in Streams : S[s] \in {-2, Std[s]}

\* open() returns the lowest descriptor that is closed.
LEMMA LowestIs ==
  ASSUME NEW table, NEW N \in Nat, NEW x \in 0..N, table = [f \in 0..N |-> table[f]],
         table[x] = "closed", \A g \in 0..N : table[g] = "closed" => x <= g
  PROVE  Lowest(table) = x
<1> DEFINE Least(f) == table[f] = "closed" /\ \A g \in DOMAIN table : table[g] = "closed" => f <= g
<1>1. DOMAIN table = 0..N
  OBVIOUS
<1>2. Least(x)
  BY <1>1
<1>3. ASSUME NEW f \in DOMAIN table, Least(f) PROVE f = x
  BY <1>1, <1>2, <1>3
<1> QED BY <1>1, <1>2, <1>3 DEF Lowest

\* The streams in moved lead to target; they have kept their descriptor or, without
\* one, got a new one of k0..k-1.  Everything else leads where base says.
Taken(T, F, base, S, N, k0, k, moved, target) ==
  /\ OpenBelow(T, N, k) /\ k0 <= k
  /\ F \in [Streams -> Int]
  /\ \A s \in Streams : s \notin moved => F[s] = S[s]
  /\ \A s \in moved : \/ F[s] = S[s] /\ S[s] # -2
                      \/ S[s] = -2 /\ k0 <= F[s] /\ F[s] < k
  /\ \A s \in moved : T[F[s]] = target
  /\ \A f \in 0..N : T[f] = base[f] \/ \E s \in moved : f = F[s]

\* One more stream is taken over.
LEMMA TakesOne ==
  ASSUME NEW T, NEW F, NEW base, NEW S, NEW N, NEW k0 \in Nat, NEW k, NEW moved, NEW target,
         NEW s \in Streams, NEW x, NEW k2,
         Taken(T, F, base, S, N, k0, k, moved, target), Starts(S), 3 <= k0, k < N,
         moved \subseteq Streams, s \notin moved, target # "closed",
         x = IF F[s] < 0 THEN k ELSE F[s], k2 = IF F[s] < 0 THEN k + 1 ELSE k
  PROVE  Taken([T EXCEPT ![x] = target], [F EXCEPT ![s] = x], base, S, N, k0, k2,
               moved \cup {s}, target)
<1> DEFINE T2 == [T EXCEPT ![x] = target]
           F2 == [F EXCEPT ![s] = x]
<1>1. /\ N \in Nat /\ k \in Nat /\ k0 <= k /\ T = [f \in 0..N |-> T[f]]
      /\ \A f \in 0..N : T[f] = "closed" <=> k <= f
      /\ F \in [Streams -> Int]
  BY DEF Taken, OpenBelow
<1>2. F[s] = S[s] /\ S[s] \in {-2, 0, 1, 2}
  BY StandardStreams DEF Taken, Starts
<1>3. x \in 0..N /\ x \in Int /\ k2 \in Nat /\ k2 <= N /\ k <= k2
  BY <1>1, <1>2
<1>4. T2 = [f \in 0..N |-> T2[f]] /\ T2[x] = target /\ \A f \in 0..N : f # x => T2[f] = T[f]
  BY <1>1, <1>3
<1>5. F2 \in [Streams -> Int] /\ F2[s] = x /\ \A t \in Streams : t # s => F2[t] = F[t]
  BY <1>1, <1>3
<1>6. OpenBelow(T2, N, k2)
  <2>1. \A f \in 0..N : T2[f] = "closed" <=> k2 <= f
    BY <1>1, <1>2, <1>3, <1>4
  <2> QED BY <1>1, <1>3, <1>4, <2>1 DEF OpenBelow
<1>7. \A t \in Streams : t \notin moved \cup {s} => F2[t] = S[t]
  BY <1>5 DEF Taken
<1>8. ASSUME NEW t \in moved \cup {s}
      PROVE  \/ F2[t] = S[t] /\ S[t] # -2
             \/ S[t] = -2 /\ k0 <= F2[t] /\ F2[t] < k2
  <2>1. CASE t = s
    BY <1>1, <1>2, <1>5, <2>1
  <2>2. CASE t # s
    <3>1. t \in moved /\ F2[t] = F[t] /\ F[t] \in Int
      BY <1>1, <1>5, <2>2
    <3>2. \/ F[t] = S[t] /\ S[t] # -2
          \/ S[t] = -2 /\ k0 <= F[t] /\ F[t] < k
      BY <3>1 DEF Taken
    <3> QED BY <1>1, <1>3, <3>1, <3>2
  <2> QED BY <2>1, <2>2
<1>9. ASSUME NEW t \in moved \cup {s} PROVE T2[F2[t]] = target
  <2>1. CASE t = s
    BY <1>4, <1>5, <2>1
  <2>2. CASE t # s
    <3>1. t \in moved /\ F2[t] = F[t] /\ T[F[t]] = target
      BY <1>5, <2>2 DEF Taken
    <3>2. F[t] \in 0..N
      <4>1. \/ F[t] = S[t] /\ S[t] # -2
            \/ S[t] = -2 /\ k0 <= F[t] /\ F[t] < k
        BY <3>1 DEF Taken
      <4>2. F[t] \in Int /\ S[t] \in {-2, 0, 1, 2}
        BY <1>1, <3>1, StandardStreams DEF Starts
      <4> QED BY <1>1, <4>1, <4>2
    <3> QED BY <1>4, <3>1, <3>2
  <2> QED BY <2>1, <2>2
<1>10. ASSUME NEW f \in 0..N PROVE T2[f] = base[f] \/ \E t \in moved \cup {s} : f = F2[t]
  <2>1. CASE f = x
    BY <1>5, <2>1
  <2>2. CASE f # x
    <3>1. CASE T[f] = base[f]
      BY <1>4, <2>2, <3>1
    <3>2. CASE \E t \in moved : f = F[t]
      BY <1>5, <3>2
    <3> QED BY <3>1, <3>2 DEF Taken
  <2> QED BY <2>1, <2>2
<1> QED BY <1>1, <1>3, <1>5, <1>6, <1>7, <1>8, <1>9, <1>10 DEF Taken

\* freopen() gives a stream its own descriptor again, or the first closed one.
LEMMA ReopenedIs ==
  ASSUME NEW T, NEW F \in [Streams -> Int], NEW N, NEW k, NEW s \in Streams, NEW target, NEW x,
         OpenBelow(T, N, k), F[s] < 0 \/ F[s] \in 0..k - 1,
         x = IF F[s] < 0 THEN k ELSE F[s]
  PROVE  Reopened([fds |-> T, file |-> F], s, target)
           = [fds |-> [T EXCEPT ![x] = target], file |-> [F EXCEPT ![s] = x]]
<1> DEFINE table == IF F[s] < 0 THEN T ELSE [T EXCEPT ![F[s]] = "closed"]
<1>1. /\ N \in Nat /\ k \in Nat /\ k <= N /\ T = [f \in 0..N |-> T[f]]
      /\ \A f \in 0..N : T[f] = "closed" <=> k <= f
  BY DEF OpenBelow
<1>2. F[s] \in Int /\ x \in 0..N
  BY <1>1
<1>3. table = [f \in 0..N |-> table[f]] /\ table[x] = "closed"
  <2>1. CASE F[s] < 0
    <3>1. table = T
      BY <2>1
    <3> HIDE DEF table
    <3> QED BY <1>1, <1>2, <2>1, <3>1
  <2>2. CASE ~(F[s] < 0)
    <3>1. table = [T EXCEPT ![x] = "closed"]
      BY <2>2
    <3>2. [T EXCEPT ![x] = "closed"] = [f \in 0..N |-> [T EXCEPT ![x] = "closed"][f]]
      BY <1>1
    <3> HIDE DEF table
    <3> QED BY <1>1, <1>2, <3>1, <3>2
  <2> QED BY <2>1, <2>2
<1>4. ASSUME NEW g \in 0..N, table[g] = "closed" PROVE x <= g
  <2>1. CASE F[s] < 0
    BY <1>1, <1>4, <2>1
  <2>2. CASE ~(F[s] < 0)
    <3>1. g = x \/ T[g] = "closed"
      BY <1>1, <1>4, <2>2
    <3> QED BY <1>1, <1>2, <2>2, <3>1
  <2> QED BY <2>1, <2>2
<1>5. Lowest(table) = x
  <2> HIDE DEF table
  <2> QED BY <1>1, <1>2, <1>3, <1>4, LowestIs
<1>6. [table EXCEPT ![x] = target] = [T EXCEPT ![x] = target]
  <2>1. CASE F[s] < 0
    BY <2>1
  <2>2. CASE ~(F[s] < 0)
    <3>1. table = [T EXCEPT ![x] = "closed"]
      BY <2>2
    <3>2. [[T EXCEPT ![x] = "closed"] EXCEPT ![x] = target] = [T EXCEPT ![x] = target]
      <4> DEFINE T1 == [T EXCEPT ![x] = "closed"]
                 A == [T1 EXCEPT ![x] = target]
                 B == [T EXCEPT ![x] = target]
      <4>1. A = [f \in 0..N |-> A[f]] /\ B = [f \in 0..N |-> B[f]]
        BY <1>1
      <4>2. \A f \in 0..N : A[f] = B[f]
        BY <1>1, <1>2
      <4>3. A = B
        <5> HIDE DEF A, B
        <5> QED BY <4>1, <4>2
      <4> QED BY <4>3
    <3> QED BY <3>1, <3>2
  <2> QED BY <2>1, <2>2
<1>7. Reopened([fds |-> T, file |-> F], s, target)
        = [fds |-> [table EXCEPT ![Lowest(table)] = target],
           file |-> [F EXCEPT ![s] = Lowest(table)]]
  BY DEF Reopened
<1> QED
  <2> HIDE DEF table
  <2> QED BY <1>5, <1>6, <1>7

\* dup2() of the log gives a stream the same descriptor: on Windows freopen() has
\* found it, on POSIX every stream has one.
LEMMA MovedIs ==
  ASSUME NEW T, NEW F \in [Streams -> Int], NEW N, NEW k, NEW s \in Streams, NEW x,
         OpenBelow(T, N, k), F[s] < 0 \/ F[s] \in 0..k - 1,
         x = IF F[s] < 0 THEN k ELSE F[s],
         F[s] < 0 => Windows, fd \in 0..N, fd # x, T[fd] = "log"
  PROVE  Moved([fds |-> T, file |-> F], s)
           = [fds |-> [T EXCEPT ![x] = "log"], file |-> [F EXCEPT ![s] = x]]
<1> DEFINE st == [fds |-> T, file |-> F]
           ready == IF Windows THEN Reopened(st, s, "nul") ELSE st
           Target == [fds |-> [T EXCEPT ![x] = "log"], file |-> [F EXCEPT ![s] = x]]
<1>1. /\ N \in Nat /\ k \in Nat /\ k <= N /\ T = [f \in 0..N |-> T[f]]
      /\ F[s] \in Int /\ x \in 0..N
  BY DEF OpenBelow
<1>2. Moved(st, s) = [ready EXCEPT !.fds[ready.file[s]] = ready.fds[fd]]
  BY DEF Moved
<1>3. CASE Windows
  <2> DEFINE T1 == [T EXCEPT ![x] = "nul"]
             F1 == [F EXCEPT ![s] = x]
  <2>1. ready = [fds |-> T1, file |-> F1]
    BY <1>3, ReopenedIs
  <2>2. F1[s] = x /\ T1[fd] = "log" /\ T1 = [f \in 0..N |-> T1[f]]
    BY <1>1
  <2>3. [T1 EXCEPT ![x] = "log"] = [T EXCEPT ![x] = "log"]
    <3> DEFINE A == [T1 EXCEPT ![x] = "log"]
               B == [T EXCEPT ![x] = "log"]
    <3>1. A = [f \in 0..N |-> A[f]] /\ B = [f \in 0..N |-> B[f]]
      BY <1>1
    <3>2. \A f \in 0..N : A[f] = B[f]
      BY <1>1
    <3>3. A = B
      <4> HIDE DEF A, B
      <4> QED BY <3>1, <3>2
    <3> QED BY <3>3
  <2>4. [ready EXCEPT !.fds[ready.file[s]] = ready.fds[fd]]
          = [fds |-> [T1 EXCEPT ![x] = "log"], file |-> F1]
    <3>1. ready.file[s] = x /\ ready.fds[fd] = "log"
      <4>1. ready.file = F1 /\ ready.fds = T1
        <5> HIDE DEF T1, F1, ready
        <5> QED BY <2>1
      <4> HIDE DEF T1, F1, ready
      <4> QED BY <2>2, <4>1
    <3>2. [ready EXCEPT !.fds[x] = "log"] = [fds |-> [T1 EXCEPT ![x] = "log"], file |-> F1]
      <4> HIDE DEF T1, F1, ready
      <4> QED BY <2>1
    <3> HIDE DEF T1, F1, ready
    <3> QED BY <3>1, <3>2
  <2> QED BY <1>2, <2>3, <2>4
<1>4. CASE ~Windows
  <2>1. ready = st /\ F[s] = x /\ [F EXCEPT ![s] = x] = F
    BY <1>1, <1>4
  <2>2. [ready EXCEPT !.fds[ready.file[s]] = ready.fds[fd]]
          = [fds |-> [T EXCEPT ![x] = "log"], file |-> F]
    BY <2>1
  <2> QED BY <1>2, <2>1, <2>2
<1> QED BY <1>3, <1>4

\* The next stream that may be taken over, and what becomes of st when it is.
MayTake(T, F, base, S, N, k0, k, moved, target, s) ==
  /\ Taken(T, F, base, S, N, k0, k, moved, target) /\ Starts(S)
  /\ k0 \in Nat /\ 3 <= k0 /\ k < N /\ moved \subseteq Streams
  /\ s \in Streams /\ s \notin moved /\ target # "closed"
TakenToo(st, base, S, N, k0, k, moved, target, s) ==
  \E T, F, k2 : /\ st = [fds |-> T, file |-> F] /\ k2 <= k + 1
                /\ Taken(T, F, base, S, N, k0, k2, moved \cup {s}, target)

\* freopen() takes one more stream over.
LEMMA ReopenedTakes ==
  ASSUME NEW T, NEW F, NEW base, NEW S, NEW N, NEW k0, NEW k, NEW moved, NEW target, NEW s,
         MayTake(T, F, base, S, N, k0, k, moved, target, s)
  PROVE  TakenToo(Reopened([fds |-> T, file |-> F], s, target),
                  base, S, N, k0, k, moved, target, s)
<1>1. PICK x : x = IF F[s] < 0 THEN k ELSE F[s]
  OBVIOUS
<1>2. PICK k2 : k2 = IF F[s] < 0 THEN k + 1 ELSE k
  OBVIOUS
<1>3. /\ F \in [Streams -> Int] /\ OpenBelow(T, N, k) /\ k \in Nat /\ k0 <= k
      /\ F[s] = S[s] /\ S[s] \in {-2, 0, 1, 2} /\ s \in Streams /\ k0 \in Nat /\ 3 <= k0
  BY StandardStreams DEF MayTake, Taken, OpenBelow, Starts
<1>4. F[s] < 0 \/ F[s] \in 0..k - 1
  BY <1>3
<1>5. Reopened([fds |-> T, file |-> F], s, target)
        = [fds |-> [T EXCEPT ![x] = target], file |-> [F EXCEPT ![s] = x]]
  BY <1>1, <1>3, <1>4, ReopenedIs
<1>6. Taken([T EXCEPT ![x] = target], [F EXCEPT ![s] = x], base, S, N, k0, k2,
            moved \cup {s}, target)
  BY <1>1, <1>2, TakesOne DEF MayTake
<1>7. k2 <= k + 1
  BY <1>2, <1>3
<1> QED BY <1>5, <1>6, <1>7 DEF TakenToo

\* So does dup2() of the log, which the streams do not lead to yet.
LEMMA MovedTakes ==
  ASSUME NEW T, NEW F, NEW base, NEW S, NEW N, NEW n, NEW k, NEW moved, NEW s,
         MayTake(T, F, base, S, N, n + 1, k, moved, "log", s),
         n \in Nat, 3 <= n, S[s] = -2 => Windows, fd = n, base[n] = "log"
  PROVE  TakenToo(Moved([fds |-> T, file |-> F], s), base, S, N, n + 1, k, moved, "log", s)
<1>1. PICK x : x = IF F[s] < 0 THEN k ELSE F[s]
  OBVIOUS
<1>2. PICK k2 : k2 = IF F[s] < 0 THEN k + 1 ELSE k
  OBVIOUS
<1>3. /\ F \in [Streams -> Int] /\ OpenBelow(T, N, k) /\ k \in Nat /\ n + 1 <= k /\ N \in Nat
      /\ F[s] = S[s] /\ S[s] \in {-2, 0, 1, 2} /\ s \in Streams
  BY StandardStreams DEF MayTake, Taken, OpenBelow, Starts
<1>4. F[s] < 0 \/ F[s] \in 0..k - 1
  BY <1>3
<1>5. fd \in 0..N /\ fd # x /\ (F[s] < 0 => Windows)
  BY <1>1, <1>3 DEF OpenBelow
<1>6. T[fd] = "log"
  <2>1. ASSUME NEW t \in moved PROVE F[t] # n
    <3>1. \/ F[t] = S[t] /\ S[t] # -2
          \/ S[t] = -2 /\ n + 1 <= F[t] /\ F[t] < k
      BY DEF MayTake, Taken
    <3>2. F[t] \in Int /\ S[t] \in {-2, 0, 1, 2}
      BY <1>3, StandardStreams DEF MayTake, Starts
    <3> QED BY <3>1, <3>2
  <2> QED BY <1>5, <2>1 DEF MayTake, Taken
<1>7. Moved([fds |-> T, file |-> F], s)
        = [fds |-> [T EXCEPT ![x] = "log"], file |-> [F EXCEPT ![s] = x]]
  BY <1>1, <1>3, <1>4, <1>5, <1>6, MovedIs
<1>8. Taken([T EXCEPT ![x] = "log"], [F EXCEPT ![s] = x], base, S, N, n + 1, k2,
            moved \cup {s}, "log")
  <2>1. n + 1 \in Nat /\ 3 <= n + 1
    OBVIOUS
  <2> QED BY <1>1, <1>2, <2>1, TakesOne DEF MayTake
<1>9. k2 <= k + 1
  BY <1>2, <1>3
<1> QED BY <1>7, <1>8, <1>9 DEF TakenToo

-----------------------------------------------------------------------------
(***************************************************************************)
(* Startup logging: the whole of MmxStartupLogging().                        *)
(***************************************************************************)
\* The count of logging.ini's lines that the reader does is what its reader expects.
IniIsRead == \A e \in PosixEnvironments : IniRequests(e.ini) <=> IniAsks(e.ini)

\* Only Windows has no folder to try, when it does not know the executable's.
LEMMA CandidatesAre ==
  ASSUME env \in IF Windows THEN WindowsEnvironments ELSE PosixEnvironments
  PROVE  /\ Candidates(env) \in Seq(Folders)
         /\ Candidates(env) = <<>> <=> Windows /\ ~env.module
<1>1. CASE Windows
  <2>1. <<"exe">> \in Seq(Folders) /\ <<"exe", "temp">> \in Seq(Folders) /\ <<>> \in Seq(Folders)
    BY DEF Folders
  <2>2. <<"exe">> # <<>> /\ <<"exe", "temp">> # <<>>
    OBVIOUS
  <2> QED BY <1>1, <2>1, <2>2 DEF Candidates
<1>2. CASE ~Windows
  <2> DEFINE first == IF env.exe_dir THEN <<"exe">> ELSE <<>>
             second == IF env.xdg THEN <<"xdg">> ELSE IF env.home THEN <<"home">> ELSE <<>>
  <2>1. first \in Seq(Folders) /\ second \in Seq(Folders) /\ <<"tmp">> \in Seq(Folders)
    <3>1. /\ <<"exe">> \in Seq(Folders) /\ <<"xdg">> \in Seq(Folders)
          /\ <<"home">> \in Seq(Folders) /\ <<"tmp">> \in Seq(Folders)
          /\ <<>> \in Seq(Folders)
      BY DEF Folders
    <3> QED BY <3>1
  <2>2. Candidates(env) = (first \o second) \o <<"tmp">>
    BY <1>2 DEF Candidates
  <2>3. Candidates(env) \in Seq(Folders) /\ Len(Candidates(env)) > 0
    <3> HIDE DEF first, second
    <3>1. first \o second \in Seq(Folders)
      BY <2>1
    <3>2. (first \o second) \o <<"tmp">> \in Seq(Folders)
      BY <3>1, <2>1
    <3>3. Len((first \o second) \o <<"tmp">>) = Len(first \o second) + 1
      BY <3>1
    <3> QED BY <2>2, <3>1, <3>2, <3>3
  <2>4. Candidates(env) # <<>>
    BY <2>3
  <2> QED BY <1>2, <2>3, <2>4
<1> QED BY <1>1, <1>2

\* With a console to keep, the output is not moved to a log.
LEMMA ConsoleIsAsked ==
  ASSUME IniIsRead, env \in IF Windows THEN WindowsEnvironments ELSE PosixEnvironments
  PROVE  ConsoleAsked <=> ConsoleRequested(env) /\ (Windows => env.attach)
<1>1. CASE Windows
  BY <1>1 DEF ConsoleAsked, ConsoleRequested
<1>2. CASE ~Windows
  <2>1. env \in PosixEnvironments /\ (IniRequests(env.ini) <=> IniAsks(env.ini))
    BY <1>2 DEF IniIsRead
  <2>2. env.MMX_LOG_CONSOLE \in {"unset", "empty", "0", "1"}
    BY <2>1 DEF PosixEnvironments
  <2> QED BY <1>2, <2>1, <2>2 DEF ConsoleAsked, ConsoleRequested
<1> QED BY <1>1, <1>2

\* The streams that Decide leaves alone.
Kept == {s \in Outputs : launch.fds[Std[s]] \in {"file", "pipe"}}

\* The table of a process that starts, and the streams it has.
Launched(n, N) ==
  /\ 3 <= n /\ n + 3 <= N /\ OpenBelow(launch.fds, N, n)
  /\ ~Windows => \A f \in 0..2 : launch.fds[f] # "none"

Environment ==
  /\ env \in IF Windows THEN WindowsEnvironments ELSE PosixEnvironments
  /\ writable \subseteq {Candidates(env)[i] : i \in DOMAIN Candidates(env)}

Logging == pc \in {"open", "move", "close"}

\* The folders that failed are the first candidates, in order, and none of them
\* can be written; there is one more.
Searching ==
  /\ tried \in Seq(Folders) /\ Len(tried) < Len(Candidates(env))
  /\ \A i \in 1..Len(tried) : tried[i] = Candidates(env)[i] /\ tried[i] \notin writable

\* After the setting up there is a descriptor that open() returns next, and it is
\* no stream's.
NextIsFree(N) ==
  /\ fds = [f \in 0..N |-> fds[f]]
  /\ \E c \in 0..N : fds[c] = "closed" /\ \A g \in 0..N : fds[g] = "closed" => c <= g
  /\ \A s \in Outputs : file[s] < 0 \/ (file[s] \in 0..N /\ fds[file[s]] # "closed")

LoggingAt(n, N) ==
  /\ Environment
  /\ pc \in {"decide", "console", "open", "move", "close", "running", "playing"}
  /\ pc \in {"decide", "console", "open", "move"} => file = start
  /\ pc \in {"decide", "console", "open"} => fds = launch.fds
  /\ pc = "decide" => tried = <<>>
  /\ pc = "console" => Windows /\ (IniIsRead => ConsoleAsked)
  /\ pc = "console" \/ Logging => redirected = Kept /\ Candidates(env) # <<>>
  /\ Logging => (IniIsRead => ~ConsoleAsked)
  /\ pc = "open" => Searching
  /\ pc = "move" => fd = n /\ fds = [launch.fds EXCEPT ![n] = "log"]
  /\ pc = "close" =>
       /\ fd = n
       /\ \E k : Taken(fds, file, [launch.fds EXCEPT ![n] = "log"], start, N, n + 1, k,
                       Outputs \ redirected, "log")
  /\ pc = "running" => NextIsFree(N)

LoggingInv ==
  /\ \E n, N \in Nat : Launched(n, N) /\ LoggingAt(n, N)
  /\ DescriptorsReturned
  /\ IniIsRead => SessionLogged

\* At start the streams have the descriptors 0, 1 and 2, or none.
LEMMA StartIs ==
  /\ Starts(start) /\ start \in [Streams -> Int]
  /\ \A s \in Streams : start[s] = IF launch.fds[Std[s]] = "none" THEN -2 ELSE Std[s]
<1>1. \A s \in Streams : Std[s] \in Int
  BY StandardStreams
<1> QED BY <1>1 DEF Starts, start

\* What Decide finds redirected.
LEMMA RedirectedAre ==
  ASSUME file = start, fds = launch.fds
  PROVE  {s \in Outputs : Redirected(s)} = Kept
<1> SUFFICES ASSUME NEW s \in Outputs
             PROVE  Redirected(s) <=> launch.fds[Std[s]] \in {"file", "pipe"}
  BY DEF Kept
<1>1. s \in Streams /\ Std[s] \in {1, 2}
  BY StandardStreams DEF Outputs
<1>2. start[s] = IF launch.fds[Std[s]] = "none" THEN -2 ELSE Std[s]
  BY <1>1, StartIs
<1> QED BY <1>1, <1>2 DEF Redirected

\* Where nothing was moved, redirected output is where it was.
LEMMA KeptOutput ==
  ASSUME NEW s \in Outputs, file[s] = start[s], start[s] >= 0 => fds[start[s]] = launch.fds[start[s]]
  PROVE  launch.fds[Std[s]] # "none" => Sink(s) = launch.fds[Std[s]]
<1>1. s \in Streams /\ Std[s] \in {1, 2}
  BY StandardStreams DEF Outputs
<1> QED BY <1>1, StartIs DEF Sink

\* The invariant holds at start.
LEMMA LoggingStarts == ASSUME FirstDescriptors, Init PROVE LoggingInv
<1>1. PICK n \in Nat, N \in Nat : 3 <= n /\ n + 3 <= N /\ OpenBelow(launch.fds, N, n)
  BY DEF Init, FirstDescriptors
<1>2. Launched(n, N)
  BY <1>1 DEF Init, FirstDescriptors, Launched, Windows
<1>3. file = start /\ fds = launch.fds
  BY DEF Init, start
<1>4. LoggingAt(n, N)
  BY <1>3 DEF Init, LoggingAt, Environment, Logging
<1> QED BY <1>2, <1>4 DEF Init, LoggingInv, DescriptorsReturned, SessionLogged, Started

\* The three ways into the game without a log or a console of its own: the output
\* stays where it is.
LEMMA StaysAsItWas ==
  ASSUME NEW n \in Nat, NEW N \in Nat, Launched(n, N), file = start, fds = launch.fds
  PROVE  /\ NextIsFree(N) /\ DescriptorsReturned
         /\ \A s \in Outputs : launch.fds[Std[s]] # "none" => Sink(s) = launch.fds[Std[s]]
<1>1. /\ fds = [f \in 0..N |-> fds[f]] /\ n <= N
      /\ \A f \in 0..N : fds[f] = "closed" <=> n <= f
  BY DEF Launched, OpenBelow
<1>2. n \in 0..N /\ fds[n] = "closed" /\ \A g \in 0..N : fds[g] = "closed" => n <= g
  BY <1>1
<1>3. ASSUME NEW s \in Outputs PROVE file[s] < 0 \/ (file[s] \in 0..N /\ fds[file[s]] # "closed")
  <2>1. s \in Streams /\ Std[s] \in {1, 2}
    BY StandardStreams DEF Outputs
  <2>2. start[s] \in {-2, 1, 2}
    BY <2>1, StartIs
  <2>3. file[s] \in {-2, 1, 2} /\ 3 <= n
    BY <2>2 DEF Launched
  <2>4. CASE file[s] = -2
    BY <2>4
  <2>5. CASE file[s] \in {1, 2}
    <3>1. file[s] \in 0..N /\ ~(n <= file[s])
      BY <1>1, <2>3, <2>5
    <3> QED BY <1>1, <3>1
  <2> QED BY <2>3, <2>4, <2>5
<1>4. NextIsFree(N)
  BY <1>1, <1>2, <1>3 DEF NextIsFree
<1> QED BY <1>4, KeptOutput DEF DescriptorsReturned

\* What SessionLogged asks of a stream that leads to out.
Logged(s, out) ==
  LET before == launch.fds[Std[s]]
  IN CASE before \in {"file", "pipe"} -> out = before
       [] before \notin {"file", "pipe"} /\ ConsoleAsked /\ Candidates(env) # <<>> ->
            IF Windows THEN out = "console" ELSE before # "closed" => out = before
       [] OTHER -> writable # {} => out = "log"

\* SessionLogged, stream by stream.
LEMMA SessionIsLogged == SessionLogged <=> (Started => \A s \in Outputs : Logged(s, Sink(s)))
BY DEF SessionLogged, Logged

\* It depends on what the process was given, which no step changes.
LEMMA LoggedStays ==
  ASSUME NEW s, NEW out, UNCHANGED inputs
  PROVE  Logged(s, out)' <=> Logged(s, out)
BY DEF inputs, Logged, ConsoleAsked, IniAsks, Candidates, Windows

\* A step that starts the game and leaves the output as it was.
LEMMA StartsTheGame ==
  ASSUME NEW n \in Nat, NEW N \in Nat, Launched(n, N), LoggingAt(n, N),
         file = start, fds = launch.fds, UNCHANGED <<inputs, fds, file>>, pc' = "running",
         IniIsRead => \A s \in Outputs : Logged(s, Sink(s))
  PROVE  LoggingAt(n, N)' /\ DescriptorsReturned' /\ (IniIsRead => SessionLogged')
<1>1. NextIsFree(N)
  BY StaysAsItWas
<1>2. NextIsFree(N)'
  BY <1>1 DEF NextIsFree
<1>3. Environment'
  BY DEF LoggingAt, Environment, inputs, Windows, Candidates
<1>4. LoggingAt(n, N)'
  BY <1>2, <1>3 DEF LoggingAt, Logging
<1>5. DescriptorsReturned'
  BY DEF inputs, DescriptorsReturned
<1>6. ASSUME IniIsRead PROVE SessionLogged'
  <2>1. ASSUME NEW s \in Outputs PROVE Logged(s, Sink(s))'
    <3>1. PICK out : out = Sink(s)
      OBVIOUS
    <3>2. Sink(s)' = out
      BY <3>1 DEF Sink
    <3>3. Logged(s, out)'
      BY <1>6, <3>1, LoggedStays
    <3> QED BY <3>2, <3>3 DEF Logged
  <2>2. (Started => \A s \in Outputs : Logged(s, Sink(s)))' => SessionLogged'
    BY SessionIsLogged, PTL
  <2> QED BY <2>1, <2>2
<1> QED BY <1>4, <1>5, <1>6

\* Without the path of the executable the output stays.
LEMMA LoggingGivesUp ==
  ASSUME NEW n \in Nat, NEW N \in Nat, Launched(n, N), LoggingAt(n, N), GiveUp
  PROVE  LoggingAt(n, N)' /\ DescriptorsReturned' /\ (IniIsRead => SessionLogged')
<1>1. file = start /\ fds = launch.fds /\ UNCHANGED <<inputs, fds, file>> /\ pc' = "running"
  BY DEF GiveUp, LoggingAt
<1>2. Candidates(env) = <<>> /\ writable = {}
  <2>1. Candidates(env) = <<>>
    BY CandidatesAre DEF GiveUp, LoggingAt, Environment
  <2> QED BY <2>1 DEF LoggingAt, Environment
<1>3. ASSUME NEW s \in Outputs PROVE Logged(s, Sink(s))
  <2>1. launch.fds[Std[s]] # "none" => Sink(s) = launch.fds[Std[s]]
    BY <1>1, StaysAsItWas
  <2> QED BY <1>2, <2>1 DEF Logged
<1> QED BY <1>1, <1>3, StartsTheGame

\* Decide sees what is redirected, and whether the console is asked for and can be had.
LEMMA LoggingDecides ==
  ASSUME NEW n \in Nat, NEW N \in Nat, Launched(n, N), LoggingAt(n, N), Decide
  PROVE  LoggingAt(n, N)' /\ DescriptorsReturned' /\ (IniIsRead => SessionLogged')
<1>1. /\ pc = "decide" /\ file = start /\ fds = launch.fds /\ tried = <<>>
      /\ UNCHANGED <<inputs, fds, file, tried, fd>> /\ Environment /\ (Windows => env.module)
  BY DEF Decide, LoggingAt
<1>2. redirected' = Kept
  BY <1>1, RedirectedAre DEF Decide
<1>3. \/ pc' = "console" /\ ConsoleRequested(env) /\ Windows /\ env.attach
      \/ /\ pc' = "running"
         /\ ~(ConsoleRequested(env) /\ Windows /\ env.attach)
         /\ (ConsoleRequested(env) /\ ~Windows) \/ redirected' = Outputs
      \/ /\ pc' = "open" /\ ~(ConsoleRequested(env) /\ Windows /\ env.attach)
         /\ ~(ConsoleRequested(env) /\ ~Windows)
  BY DEF Decide
<1>4. IniIsRead => (ConsoleAsked <=> ConsoleRequested(env) /\ (Windows => env.attach))
  BY <1>1, ConsoleIsAsked DEF Environment
<1>5. Candidates(env) \in Seq(Folders) /\ Candidates(env) # <<>>
  BY <1>1, CandidatesAre DEF Environment
<1>6. \A s \in Outputs : launch.fds[Std[s]] # "none" => Sink(s) = launch.fds[Std[s]]
  BY <1>1, StaysAsItWas
<1>7. CASE pc' = "running"
  <2>1. ASSUME IniIsRead, NEW s \in Outputs PROVE Logged(s, Sink(s))
    <3>1. CASE launch.fds[Std[s]] \in {"file", "pipe"}
      BY <1>6, <3>1 DEF Logged
    <3>2. CASE launch.fds[Std[s]] \notin {"file", "pipe"}
      <4>1. redirected' # Outputs
        BY <1>2, <3>2 DEF Kept
      <4>2. ~Windows /\ ConsoleAsked
        BY <1>3, <1>4, <1>7, <2>1, <4>1
      <4>3. launch.fds[Std[s]] # "none"
        BY <4>2, StandardStreams DEF Launched, Outputs
      <4> QED BY <1>5, <1>6, <3>2, <4>2, <4>3 DEF Logged
    <3> QED BY <3>1, <3>2
  <2> QED BY <1>1, <1>7, <2>1, StartsTheGame
<1>8. CASE pc' \in {"console", "open"}
  <2>1. UNCHANGED <<launch, env, writable>>
    BY <1>1 DEF inputs
  <2>2. Environment' /\ (Windows' <=> Windows) /\ (ConsoleAsked' <=> ConsoleAsked)
        /\ Candidates(env)' = Candidates(env) /\ Kept' = Kept /\ start' = start
    BY <1>1, <2>1 DEF Environment, Windows, Candidates, ConsoleAsked, IniAsks, Kept, start
  <2>3. pc' = "open" => Searching'
    <3>1. tried' \in Seq(Folders) /\ Len(tried') = 0 /\ Len(Candidates(env)) > 0
      BY <1>1, <1>5
    <3> QED BY <2>2, <3>1 DEF Searching
  <2>4. LoggingAt(n, N)'
    BY <1>1, <1>2, <1>3, <1>4, <1>5, <1>8, <2>1, <2>2, <2>3 DEF LoggingAt, Logging
  <2> QED BY <1>8, <2>4 DEF DescriptorsReturned, SessionLogged, Started
<1> QED BY <1>3, <1>7, <1>8

\* Where the streams lead when some of them have been taken over.
LeadsTo(T, F, base, S, k0, k, moved, target, s) ==
  /\ s \in moved => F[s] \in (0..2) \cup (k0..k - 1) /\ T[F[s]] = target
  /\ s \notin moved => F[s] = S[s] /\ (S[s] >= 0 => T[S[s]] = base[S[s]])
  /\ F[s] \in {-2} \cup (0..2) \cup (k0..k - 1)

\* Taken says it of every stream.
LEMMA TakenOutput ==
  ASSUME NEW T, NEW F, NEW base, NEW S, NEW N, NEW k0, NEW k, NEW moved, NEW target, NEW s,
         Taken(T, F, base, S, N, k0, k, moved, target), Starts(S), k0 \in Nat, 3 <= k0,
         moved \subseteq Streams, s \in Streams
  PROVE  LeadsTo(T, F, base, S, k0, k, moved, target, s)
<1>1. /\ N \in Nat /\ k \in Nat /\ k0 <= k /\ k <= N /\ F \in [Streams -> Int]
      /\ \A t \in Streams : S[t] \in {-2, Std[t]} /\ Std[t] \in 0..2 /\ F[t] \in Int
  BY StandardStreams DEF Taken, OpenBelow, Starts
<1>2. ASSUME s \in moved
      PROVE  F[s] \in (0..2) \cup (k0..k - 1) /\ T[F[s]] = target
  <2>1. \/ F[s] = S[s] /\ S[s] # -2
        \/ S[s] = -2 /\ k0 <= F[s] /\ F[s] < k
    BY <1>2 DEF Taken
  <2>2. T[F[s]] = target
    BY <1>2 DEF Taken
  <2> QED BY <1>1, <2>1, <2>2
<1>3. ASSUME s \notin moved
      PROVE  F[s] = S[s] /\ (S[s] >= 0 => T[S[s]] = base[S[s]])
  <2>1. F[s] = S[s]
    BY <1>3 DEF Taken
  <2>2. ASSUME S[s] >= 0, NEW t \in moved PROVE F[t] # S[s]
    <3>1. \/ F[t] = S[t] /\ S[t] # -2
          \/ S[t] = -2 /\ k0 <= F[t] /\ F[t] < k
      BY DEF Taken
    <3>2. t \in Streams /\ t # s /\ S[s] = Std[s] /\ S[s] \in 0..2
      BY <1>1, <1>3, <2>2
    <3>3. Std[t] # Std[s]
      BY <3>2, StandardStreams
    <3> QED BY <1>1, <3>1, <3>2, <3>3
  <2>3. ASSUME S[s] >= 0 PROVE T[S[s]] = base[S[s]]
    <3>1. S[s] \in 0..N
      BY <1>1, <2>3
    <3> QED BY <2>2, <2>3, <3>1 DEF Taken
  <2> QED BY <2>1, <2>3
<1>4. F[s] \in {-2} \cup (0..2) \cup (k0..k - 1)
  BY <1>1, <1>2, <1>3
<1> QED BY <1>2, <1>3, <1>4 DEF LeadsTo

\* Nothing is taken over yet.
LEMMA NothingTaken ==
  ASSUME NEW T, NEW N, NEW k0 \in Nat, NEW target, OpenBelow(T, N, k0)
  PROVE  Taken(T, start, T, start, N, k0, k0, {}, target)
BY StartIs DEF Taken

\* The console takes over the streams that are not redirected, and stdin.
LEMMA LoggingOnConsole ==
  ASSUME NEW n \in Nat, NEW N \in Nat, Launched(n, N), LoggingAt(n, N), ReopenConsole
  PROVE  LoggingAt(n, N)' /\ DescriptorsReturned' /\ (IniIsRead => SessionLogged')
<1> DEFINE In(T, F, k, moved) == Taken(T, F, launch.fds, start, N, n, k, moved, "console")
           Out == UnlessRedirected("stdout", Now, Reopened(Now, "stdout", "console"))
           Err == UnlessRedirected("stderr", Out, Reopened(Out, "stderr", "console"))
<1>1. /\ pc = "console" /\ pc' = "running" /\ file = start /\ fds = launch.fds
      /\ UNCHANGED <<inputs, redirected>> /\ Environment /\ Windows /\ (IniIsRead => ConsoleAsked)
      /\ redirected = Kept /\ Candidates(env) # <<>>
      /\ 3 <= n /\ n + 3 <= N /\ OpenBelow(launch.fds, N, n) /\ Starts(start)
      /\ Becomes(Reopened(Err, "stdin", "console"))
  BY StartIs DEF ReopenConsole, LoggingAt, Launched
<1>2. PICK m1 : m1 = {"stdout"} \ redirected
  OBVIOUS
<1>3. PICK m2 : m2 = {"stdout", "stderr"} \ redirected
  OBVIOUS
<1>4. /\ m1 \subseteq Streams /\ m2 \subseteq Streams /\ "stderr" \notin m1 /\ "stdin" \notin m2
      /\ "stdout" \in Streams /\ "stderr" \in Streams /\ "stdin" \in Streams
  BY <1>2, <1>3, StandardStreams
<1>5. \E T1, F1, k1 : Out = [fds |-> T1, file |-> F1] /\ In(T1, F1, k1, m1) /\ k1 <= n + 1
  <2>1. In(fds, file, n, {})
    BY <1>1, NothingTaken
  <2>2. CASE "stdout" \in redirected
    <3>1. Out = [fds |-> fds, file |-> file] /\ m1 = {} /\ n <= n + 1
      BY <1>2, <2>2 DEF UnlessRedirected, Now
    <3> HIDE DEF Out, In
    <3> QED BY <2>1, <3>1
  <2>3. CASE "stdout" \notin redirected
    <3>1. Out = Reopened([fds |-> fds, file |-> file], "stdout", "console") /\ m1 = {} \cup {"stdout"}
      BY <1>2, <2>3 DEF UnlessRedirected, Now
    <3>2. MayTake(fds, file, launch.fds, start, N, n, n, {}, "console", "stdout")
      BY <1>1, <1>4, <2>1 DEF MayTake
    <3>3. TakenToo(Reopened([fds |-> fds, file |-> file], "stdout", "console"),
                   launch.fds, start, N, n, n, {}, "console", "stdout")
      BY <3>2, ReopenedTakes
    <3>4. TakenToo(Out, launch.fds, start, N, n, n, {}, "console", "stdout")
      <4> HIDE DEF Out
      <4> QED BY <3>1, <3>3
    <3> HIDE DEF Out
    <3> QED BY <3>1, <3>4 DEF TakenToo
  <2> QED BY <2>2, <2>3
<1>6. PICK T1, F1, k1 : Out = [fds |-> T1, file |-> F1] /\ In(T1, F1, k1, m1) /\ k1 <= n + 1
  <2> HIDE DEF Out, In
  <2> QED BY <1>5
<1>7. \E T2, F2, k2 : Err = [fds |-> T2, file |-> F2] /\ In(T2, F2, k2, m2) /\ k2 <= n + 2
  <2>1. k1 \in Nat
    BY <1>6 DEF Taken, OpenBelow
  <2>2. CASE "stderr" \in redirected
    <3>1. Err = Out /\ m2 = m1 /\ k1 <= n + 2
      BY <1>2, <1>3, <1>6, <2>1, <2>2 DEF UnlessRedirected
    <3> HIDE DEF Out, In, Err
    <3> QED BY <1>6, <3>1
  <2>3. CASE "stderr" \notin redirected
    <3>1. m2 = m1 \cup {"stderr"}
      BY <1>2, <1>3, <2>3
    <3>2. Err = Reopened([fds |-> T1, file |-> F1], "stderr", "console")
      <4>1. Err = Reopened(Out, "stderr", "console")
        BY <2>3 DEF UnlessRedirected
      <4> HIDE DEF Out, Err
      <4> QED BY <1>6, <4>1
    <3>3. MayTake(T1, F1, launch.fds, start, N, n, k1, m1, "console", "stderr")
      BY <1>1, <1>4, <1>6, <2>1 DEF MayTake
    <3>4. TakenToo(Err, launch.fds, start, N, n, k1, m1, "console", "stderr")
      <4>1. TakenToo(Reopened([fds |-> T1, file |-> F1], "stderr", "console"),
                     launch.fds, start, N, n, k1, m1, "console", "stderr")
        BY <3>3, ReopenedTakes
      <4> HIDE DEF Err
      <4> QED BY <3>2, <4>1
    <3>5. PICK T2, F2, k2 : /\ Err = [fds |-> T2, file |-> F2] /\ k2 <= k1 + 1
                            /\ In(T2, F2, k2, m2)
      <4> HIDE DEF Err
      <4> QED BY <3>1, <3>4 DEF TakenToo
    <3>6. k2 <= n + 2
      BY <1>6, <2>1, <3>5 DEF Taken, OpenBelow
    <3> HIDE DEF In, Err
    <3> QED BY <3>5, <3>6
  <2> QED BY <2>2, <2>3
<1>8. PICK T2, F2, k2 : Err = [fds |-> T2, file |-> F2] /\ In(T2, F2, k2, m2) /\ k2 <= n + 2
  <2> HIDE DEF Err, In
  <2> QED BY <1>7
<1>9. \E k3 : In(fds', file', k3, m2 \cup {"stdin"})
  <2>1. MayTake(T2, F2, launch.fds, start, N, n, k2, m2, "console", "stdin")
    <3>1. k2 < N
      BY <1>1, <1>8 DEF Taken, OpenBelow
    <3> QED BY <1>1, <1>4, <1>8, <3>1 DEF MayTake
  <2>2. TakenToo(Reopened([fds |-> T2, file |-> F2], "stdin", "console"),
                 launch.fds, start, N, n, k2, m2, "console", "stdin")
    BY <2>1, ReopenedTakes
  <2>3. PICK T3, F3, k3 :
          /\ Reopened([fds |-> T2, file |-> F2], "stdin", "console") = [fds |-> T3, file |-> F3]
          /\ In(T3, F3, k3, m2 \cup {"stdin"})
    BY <2>2 DEF TakenToo
  <2>4. fds' = T3 /\ file' = F3
    <3> HIDE DEF Err, In
    <3> QED BY <1>1, <1>8, <2>3 DEF Becomes
  <2> HIDE DEF In
  <2> QED BY <2>3, <2>4
<1>10. PICK k3 : Taken(fds', file', launch.fds, start, N, n, k3, m2 \cup {"stdin"}, "console")
  BY <1>9
<1>11. /\ OpenBelow(fds', N, k3) /\ n <= k3 /\ m2 \cup {"stdin"} \subseteq Streams
       /\ k3 \in 0..N /\ fds' = [f \in 0..N |-> fds'[f]]
       /\ \A f \in 0..N : fds'[f] = "closed" <=> k3 <= f
  BY <1>4, <1>10 DEF Taken, OpenBelow
<1>12. ASSUME NEW s \in Outputs
       PROVE  /\ file'[s] < 0 \/ (file'[s] \in 0..N /\ fds'[file'[s]] # "closed")
              /\ IniIsRead => Logged(s, Sink(s)')
  <2>1. s \in Streams /\ s # "stdin" /\ Std[s] \in {1, 2}
    BY StandardStreams DEF Outputs
  <2>2. s \in m2 <=> s \notin redirected
    BY <1>3 DEF Outputs
  <2>3. LeadsTo(fds', file', launch.fds, start, n, k3, m2 \cup {"stdin"}, "console", s)
    BY <1>1, <1>10, <1>11, <2>1, TakenOutput
  <2>4. /\ s \in m2 => file'[s] \in (0..2) \cup (n..k3 - 1) /\ fds'[file'[s]] = "console"
        /\ s \notin m2 => /\ file'[s] = start[s]
                          /\ start[s] >= 0 => fds'[start[s]] = launch.fds[start[s]]
        /\ file'[s] \in {-2} \cup (0..2) \cup (n..k3 - 1)
    BY <2>1, <2>3 DEF LeadsTo
  <2>5. file'[s] < 0 \/ (file'[s] \in 0..N /\ fds'[file'[s]] # "closed")
    BY <1>1, <1>11, <2>4
  <2>6. CASE s \in redirected
    <3>1. launch.fds[Std[s]] \in {"file", "pipe"}
      BY <1>1, <2>6 DEF Kept
    <3>2. start[s] = Std[s]
      BY <2>1, <3>1, StartIs
    <3>3. Sink(s)' = launch.fds[Std[s]]
      BY <2>1, <2>2, <2>4, <2>6, <3>2 DEF Sink
    <3> QED BY <2>5, <3>1, <3>3 DEF Logged
  <2>7. CASE s \notin redirected
    <3>1. launch.fds[Std[s]] \notin {"file", "pipe"}
      BY <1>1, <2>7 DEF Kept
    <3>2. Sink(s)' = "console"
      BY <1>1, <2>2, <2>4, <2>7 DEF Sink
    <3> QED BY <1>1, <2>5, <3>1, <3>2 DEF Logged
  <2> QED BY <2>6, <2>7
<1>13. NextIsFree(N)'
  <2>1. /\ k3 \in 0..N /\ fds'[k3] = "closed"
        /\ \A g \in 0..N : fds'[g] = "closed" => k3 <= g
    BY <1>11
  <2> QED BY <1>11, <1>12, <2>1 DEF NextIsFree
<1>14. Environment'
  BY <1>1 DEF Environment, inputs, Windows, Candidates
<1>15. LoggingAt(n, N)'
  BY <1>1, <1>13, <1>14 DEF LoggingAt, Logging
<1>16. DescriptorsReturned'
  <2>1. ASSUME NEW f \in 0..N
        PROVE  \/ fds'[f] = launch.fds[f]
               \/ \E s \in Outputs : f = file'[s]
               \/ f = file'["stdin"] /\ fds'[f] = "console"
    <3>1. CASE \E s \in m2 \cup {"stdin"} : f = file'[s]
      <4>1. PICK s \in m2 \cup {"stdin"} : f = file'[s]
        BY <3>1
      <4>2. fds'[file'[s]] = "console"
        BY <1>10 DEF Taken
      <4>3. s \in Outputs \/ s = "stdin"
        BY <1>3 DEF Outputs
      <4> QED BY <4>1, <4>2, <4>3
    <3> QED BY <1>10, <3>1 DEF Taken
  <2>2. DOMAIN fds' = 0..N /\ launch' = launch
    BY <1>1, <1>11 DEF inputs
  <2> QED BY <2>1, <2>2 DEF DescriptorsReturned
<1>17. ASSUME IniIsRead PROVE SessionLogged'
  <2>1. ASSUME NEW s \in Outputs PROVE Logged(s, Sink(s))'
    <3>1. PICK out : out = Sink(s)'
      OBVIOUS
    <3>2. Logged(s, out)'
      BY <1>1, <1>12, <1>17, <3>1, LoggedStays
    <3> QED BY <3>1, <3>2 DEF Logged
  <2>2. (Started => \A s \in Outputs : Logged(s, Sink(s)))' => SessionLogged'
    BY SessionIsLogged, PTL
  <2> QED BY <2>1, <2>2
<1> QED BY <1>15, <1>16, <1>17

\* The log takes the lowest descriptor, or the search goes on; after the last
\* folder the output stays.
LEMMA LoggingSearches ==
  ASSUME NEW n \in Nat, NEW N \in Nat, Launched(n, N), LoggingAt(n, N), OpenLog
  PROVE  LoggingAt(n, N)' /\ DescriptorsReturned' /\ (IniIsRead => SessionLogged')
<1> DEFINE folder == Candidates(env)[Len(tried) + 1]
<1>1. /\ pc = "open" /\ file = start /\ fds = launch.fds /\ redirected = Kept
      /\ UNCHANGED <<inputs, file, redirected>> /\ Environment /\ Searching
      /\ (IniIsRead => ~ConsoleAsked) /\ Candidates(env) # <<>>
      /\ 3 <= n /\ n + 3 <= N /\ OpenBelow(launch.fds, N, n)
  BY DEF OpenLog, LoggingAt, Launched, Logging
<1>2. /\ UNCHANGED <<launch, env, writable>>
      /\ Environment' /\ (Windows' <=> Windows) /\ (ConsoleAsked' <=> ConsoleAsked)
      /\ Candidates(env)' = Candidates(env) /\ Kept' = Kept /\ start' = start
  BY <1>1 DEF inputs, Environment, Windows, Candidates, ConsoleAsked, IniAsks, Kept, start
<1>3. Candidates(env) \in Seq(Folders)
  BY <1>1, CandidatesAre DEF Environment
<1>4. CASE folder \in writable
  <2>1. Lowest(fds) = n
    <3>1. /\ n \in 0..N /\ fds = [f \in 0..N |-> fds[f]] /\ fds[n] = "closed"
          /\ \A g \in 0..N : fds[g] = "closed" => n <= g
      BY <1>1 DEF OpenBelow
    <3> QED BY <3>1, LowestIs
  <2>2. fd' = n /\ fds' = [launch.fds EXCEPT ![n] = "log"] /\ pc' = "move"
    BY <1>1, <1>4, <2>1 DEF OpenLog
  <2>3. LoggingAt(n, N)'
    BY <1>1, <1>2, <2>2 DEF LoggingAt, Logging
  <2> QED BY <2>2, <2>3 DEF DescriptorsReturned, SessionLogged, Started
<1>5. CASE folder \notin writable
  <2>1. /\ tried' = Append(tried, folder) /\ UNCHANGED <<fds, fd>>
        /\ pc' = IF tried' = Candidates(env) THEN "running" ELSE "open"
    BY <1>5 DEF OpenLog
  <2>2. /\ tried \in Seq(Folders) /\ Len(tried) < Len(Candidates(env)) /\ folder \in Folders
        /\ Len(tried) \in Nat /\ Len(Candidates(env)) \in Nat
    BY <1>1, <1>3 DEF Searching
  <2>3. /\ tried' \in Seq(Folders) /\ Len(tried') = Len(tried) + 1
        /\ tried'[Len(tried) + 1] = folder
        /\ \A i \in 1..Len(tried) : tried'[i] = tried[i]
    <3> HIDE DEF folder
    <3> QED BY <2>1, <2>2
  <2>4. \A i \in 1..Len(tried') : tried'[i] = Candidates(env)[i] /\ tried'[i] \notin writable
    BY <1>1, <1>5, <2>2, <2>3 DEF Searching
  <2>5. CASE tried' = Candidates(env)
    <3>1. writable = {}
      <4>1. \A i \in DOMAIN Candidates(env) : Candidates(env)[i] \notin writable
        BY <1>3, <2>4, <2>5
      <4> QED BY <1>1, <4>1 DEF Environment
    <3>2. ASSUME IniIsRead, NEW s \in Outputs PROVE Logged(s, Sink(s))
      <4>1. launch.fds[Std[s]] # "none" => Sink(s) = launch.fds[Std[s]]
        BY <1>1, StaysAsItWas
      <4> QED BY <1>1, <3>1, <3>2, <4>1 DEF Logged
    <3> QED BY <1>1, <2>1, <2>5, <3>2, StartsTheGame
  <2>6. CASE tried' # Candidates(env)
    <3>1. Len(tried') # Len(Candidates(env))
      BY <1>3, <2>3, <2>4, <2>6, SeqEqual
    <3>2. Len(tried') < Len(Candidates(env))
      BY <2>2, <2>3, <3>1
    <3>3. Searching'
      BY <1>2, <2>3, <2>4, <3>2 DEF Searching
    <3>4. LoggingAt(n, N)' /\ pc' = "open"
      BY <1>1, <1>2, <2>1, <2>6, <3>3 DEF LoggingAt, Logging
    <3> QED BY <3>4 DEF DescriptorsReturned, SessionLogged, Started
  <2> QED BY <2>5, <2>6
<1> QED BY <1>4, <1>5

\* The log takes over the streams that are not redirected.
LEMMA LoggingMoves ==
  ASSUME NEW n \in Nat, NEW N \in Nat, Launched(n, N), LoggingAt(n, N), MoveStreams
  PROVE  LoggingAt(n, N)' /\ DescriptorsReturned' /\ (IniIsRead => SessionLogged')
<1>0. PICK base : base = [launch.fds EXCEPT ![n] = "log"]
  OBVIOUS
<1> DEFINE In(T, F, k, moved) == Taken(T, F, base, start, N, n + 1, k, moved, "log")
           Out == UnlessRedirected("stdout", Now, Moved(Now, "stdout"))
           Err == UnlessRedirected("stderr", Out, Moved(Out, "stderr"))
<1>1. /\ pc = "move" /\ pc' = "close" /\ file = start /\ fds = base /\ fd = n
      /\ UNCHANGED <<inputs, redirected, fd>> /\ Environment /\ (IniIsRead => ~ConsoleAsked)
      /\ redirected = Kept /\ Candidates(env) # <<>>
      /\ 3 <= n /\ n + 3 <= N /\ OpenBelow(launch.fds, N, n) /\ Starts(start)
      /\ (~Windows => \A f \in 0..2 : launch.fds[f] # "none")
      /\ Becomes(Err)
  BY <1>0, StartIs DEF MoveStreams, LoggingAt, Launched, Logging
<1>2. OpenBelow(base, N, n + 1) /\ base[n] = "log"
  <2>1. /\ n \in 0..N /\ n + 1 <= N /\ launch.fds = [f \in 0..N |-> launch.fds[f]]
        /\ \A f \in 0..N : launch.fds[f] = "closed" <=> n <= f
    BY <1>1 DEF OpenBelow
  <2>2. /\ base = [f \in 0..N |-> base[f]] /\ base[n] = "log"
        /\ \A f \in 0..N : f # n => base[f] = launch.fds[f]
    BY <1>0, <2>1
  <2>3. \A f \in 0..N : base[f] = "closed" <=> n + 1 <= f
    BY <2>1, <2>2
  <2> QED BY <2>1, <2>2, <2>3 DEF OpenBelow
<1>3. PICK m1 : m1 = {"stdout"} \ redirected
  OBVIOUS
<1>4. PICK m2 : m2 = Outputs \ redirected
  OBVIOUS
<1>5. /\ m1 \subseteq Streams /\ "stderr" \notin m1
      /\ "stdout" \in Streams /\ "stderr" \in Streams
      /\ m2 = {"stdout", "stderr"} \ redirected
      /\ n + 1 \in Nat /\ 3 <= n + 1
  BY <1>1, <1>3, <1>4, StandardStreams DEF Outputs
<1>6. \A s \in Streams : start[s] = -2 => Windows
  <2>1. \A s \in Streams : Std[s] \in 0..2
    BY StandardStreams
  <2> QED BY <1>1, <2>1, StartIs
<1>7. \E T1, F1, k1 : Out = [fds |-> T1, file |-> F1] /\ In(T1, F1, k1, m1) /\ k1 <= n + 2
  <2>1. In(fds, file, n + 1, {})
    BY <1>1, <1>2, <1>5, NothingTaken
  <2>2. CASE "stdout" \in redirected
    <3>1. Out = [fds |-> fds, file |-> file] /\ m1 = {} /\ n + 1 <= n + 2
      BY <1>3, <2>2 DEF UnlessRedirected, Now
    <3> HIDE DEF Out, In
    <3> QED BY <2>1, <3>1
  <2>3. CASE "stdout" \notin redirected
    <3>1. Out = Moved([fds |-> fds, file |-> file], "stdout") /\ m1 = {} \cup {"stdout"}
      BY <1>3, <2>3 DEF UnlessRedirected, Now
    <3>2. MayTake(fds, file, base, start, N, n + 1, n + 1, {}, "log", "stdout")
      BY <1>1, <1>5, <2>1 DEF MayTake
    <3>3. TakenToo(Moved([fds |-> fds, file |-> file], "stdout"),
                   base, start, N, n + 1, n + 1, {}, "log", "stdout")
      BY <1>1, <1>2, <1>5, <1>6, <3>2, MovedTakes
    <3>4. TakenToo(Out, base, start, N, n + 1, n + 1, {}, "log", "stdout")
      <4> HIDE DEF Out
      <4> QED BY <3>1, <3>3
    <3>5. PICK T1, F1, k1 : /\ Out = [fds |-> T1, file |-> F1] /\ k1 <= (n + 1) + 1
                            /\ In(T1, F1, k1, m1)
      <4> HIDE DEF Out
      <4> QED BY <3>1, <3>4 DEF TakenToo
    <3>6. k1 <= n + 2
      BY <3>5 DEF Taken, OpenBelow
    <3> HIDE DEF Out, In
    <3> QED BY <3>5, <3>6
  <2> QED BY <2>2, <2>3
<1>8. PICK T1, F1, k1 : Out = [fds |-> T1, file |-> F1] /\ In(T1, F1, k1, m1) /\ k1 <= n + 2
  <2> HIDE DEF Out, In
  <2> QED BY <1>7
<1>9. \E k : In(fds', file', k, m2)
  <2>1. CASE "stderr" \in redirected
    <3>1. Err = Out /\ m2 = m1
      BY <1>3, <1>5, <2>1 DEF UnlessRedirected
    <3>2. fds' = T1 /\ file' = F1
      <4> HIDE DEF Out, Err, In
      <4> QED BY <1>1, <1>8, <3>1 DEF Becomes
    <3> HIDE DEF Out, Err, In
    <3> QED BY <1>8, <3>1, <3>2
  <2>2. CASE "stderr" \notin redirected
    <3>1. m2 = m1 \cup {"stderr"}
      BY <1>3, <1>5, <2>2
    <3>2. Err = Moved([fds |-> T1, file |-> F1], "stderr")
      <4>1. Err = Moved(Out, "stderr")
        BY <2>2 DEF UnlessRedirected
      <4> HIDE DEF Out, Err
      <4> QED BY <1>8, <4>1
    <3>3. MayTake(T1, F1, base, start, N, n + 1, k1, m1, "log", "stderr")
      <4>1. k1 < N
        BY <1>1, <1>8 DEF Taken, OpenBelow
      <4> QED BY <1>1, <1>5, <1>8, <4>1 DEF MayTake
    <3>4. TakenToo(Err, base, start, N, n + 1, k1, m1, "log", "stderr")
      <4>1. TakenToo(Moved([fds |-> T1, file |-> F1], "stderr"),
                     base, start, N, n + 1, k1, m1, "log", "stderr")
        BY <1>1, <1>2, <1>5, <1>6, <3>3, MovedTakes
      <4> HIDE DEF Err
      <4> QED BY <3>2, <4>1
    <3>5. PICK T2, F2, k2 : Err = [fds |-> T2, file |-> F2] /\ In(T2, F2, k2, m2)
      <4> HIDE DEF Err
      <4> QED BY <3>1, <3>4 DEF TakenToo
    <3>6. fds' = T2 /\ file' = F2
      <4> HIDE DEF Err, In
      <4> QED BY <1>1, <3>5 DEF Becomes
    <3> HIDE DEF In
    <3> QED BY <3>5, <3>6
  <2> QED BY <2>1, <2>2
<1>10. /\ UNCHANGED <<launch, env, writable>> /\ redirected' = redirected
       /\ Environment' /\ (Windows' <=> Windows) /\ (ConsoleAsked' <=> ConsoleAsked)
       /\ Candidates(env)' = Candidates(env) /\ Kept' = Kept /\ start' = start
  BY <1>1 DEF inputs, Environment, Windows, Candidates, ConsoleAsked, IniAsks, Kept, start
<1>11. \E k : Taken(fds', file', [launch'.fds EXCEPT ![n] = "log"], start', N, n + 1, k,
                    Outputs \ redirected', "log")
  <2>1. base = [launch'.fds EXCEPT ![n] = "log"] /\ m2 = Outputs \ redirected'
    BY <1>0, <1>4, <1>10
  <2> QED BY <1>9, <1>10, <2>1
<1>12. LoggingAt(n, N)'
  BY <1>1, <1>10, <1>11 DEF LoggingAt, Logging, Taken, OpenBelow
<1> QED BY <1>1, <1>12 DEF DescriptorsReturned, SessionLogged, Started

\* The log's own descriptor is closed again, and the game starts.
LEMMA LoggingCloses ==
  ASSUME NEW n \in Nat, NEW N \in Nat, Launched(n, N), LoggingAt(n, N), CloseLog
  PROVE  LoggingAt(n, N)' /\ DescriptorsReturned' /\ (IniIsRead => SessionLogged')
<1>0. PICK base : base = [launch.fds EXCEPT ![n] = "log"]
  OBVIOUS
<1>1. /\ pc = "close" /\ pc' = "running" /\ fd = n /\ fds' = [fds EXCEPT ![n] = "closed"]
      /\ UNCHANGED <<inputs, file, redirected>> /\ Environment /\ (IniIsRead => ~ConsoleAsked)
      /\ redirected = Kept
      /\ 3 <= n /\ n + 3 <= N /\ OpenBelow(launch.fds, N, n) /\ Starts(start)
  BY StartIs DEF CloseLog, LoggingAt, Launched, Logging
<1>2. PICK m : m = Outputs \ redirected
  OBVIOUS
<1>3. \E k : Taken(fds, file, base, start, N, n + 1, k, m, "log")
  BY <1>0, <1>1, <1>2 DEF LoggingAt
<1>4. PICK k : Taken(fds, file, base, start, N, n + 1, k, m, "log")
  BY <1>3
<1>5. /\ k \in Nat /\ n + 1 <= k /\ k <= N /\ fds = [f \in 0..N |-> fds[f]] /\ n \in 0..N
      /\ \A f \in 0..N : fds[f] = "closed" <=> k <= f
      /\ \A f \in 0..N : f # n => base[f] = launch.fds[f]
      /\ launch.fds[n] = "closed" /\ m \subseteq Streams
      /\ n + 1 \in Nat /\ 3 <= n + 1
  <2>1. launch.fds = [f \in 0..N |-> launch.fds[f]] /\ n \in 0..N /\ launch.fds[n] = "closed"
    BY <1>1 DEF OpenBelow
  <2>2. \A f \in 0..N : f # n => base[f] = launch.fds[f]
    BY <1>0, <2>1
  <2> QED BY <1>1, <1>2, <1>4, <2>1, <2>2, StandardStreams DEF Taken, OpenBelow
<1>6. /\ fds' = [f \in 0..N |-> fds'[f]] /\ fds'[n] = "closed"
      /\ \A f \in 0..N : f # n => fds'[f] = fds[f]
      /\ \A f \in 0..N : fds'[f] = "closed" => n <= f
  <2>1. /\ fds' = [f \in 0..N |-> fds'[f]] /\ fds'[n] = "closed"
        /\ \A f \in 0..N : f # n => fds'[f] = fds[f]
    BY <1>1, <1>5
  <2>2. ASSUME NEW f \in 0..N, fds'[f] = "closed" PROVE n <= f
    BY <1>5, <2>1, <2>2
  <2> QED BY <2>1, <2>2
<1>7. ASSUME NEW s \in Outputs
      PROVE  /\ file'[s] < 0 \/ (file'[s] \in 0..N /\ fds'[file'[s]] # "closed")
             /\ IniIsRead => Logged(s, Sink(s)')
  <2>1. s \in Streams /\ Std[s] \in {1, 2}
    BY StandardStreams DEF Outputs
  <2>2. s \in m <=> s \notin redirected
    BY <1>2
  <2>3. LeadsTo(fds, file, base, start, n + 1, k, m, "log", s)
    BY <1>1, <1>4, <1>5, <2>1, TakenOutput
  <2>4. /\ s \in m => file[s] \in (0..2) \cup (n + 1..k - 1) /\ fds[file[s]] = "log"
        /\ s \notin m => file[s] = start[s] /\ (start[s] >= 0 => fds[start[s]] = base[start[s]])
        /\ file[s] \in {-2} \cup (0..2) \cup (n + 1..k - 1) /\ file' = file
    BY <1>1, <2>3 DEF LeadsTo
  <2>5. file[s] >= 0 => /\ file[s] \in 0..N /\ fds[file[s]] # "closed"
                        /\ fds'[file[s]] = fds[file[s]]
    <3>1. file[s] >= 0 => file[s] \in 0..N /\ ~(k <= file[s]) /\ file[s] # n
      BY <1>1, <1>5, <2>4
    <3> QED BY <1>5, <1>6, <3>1
  <2>6. file'[s] < 0 \/ (file'[s] \in 0..N /\ fds'[file'[s]] # "closed")
    BY <2>4, <2>5
  <2>7. CASE s \in redirected
    <3>1. launch.fds[Std[s]] \in {"file", "pipe"}
      BY <1>1, <2>7 DEF Kept
    <3>2. file[s] = Std[s] /\ start[s] = Std[s]
      BY <2>1, <2>2, <2>4, <2>7, <3>1, StartIs
    <3>3. base[Std[s]] = launch.fds[Std[s]]
      BY <1>1, <1>5, <2>1
    <3>4. Sink(s)' = launch.fds[Std[s]]
      BY <2>1, <2>2, <2>4, <2>5, <2>7, <3>2, <3>3 DEF Sink
    <3> QED BY <2>6, <3>1, <3>4 DEF Logged
  <2>8. CASE s \notin redirected
    <3>1. launch.fds[Std[s]] \notin {"file", "pipe"}
      BY <1>1, <2>8 DEF Kept
    <3>2. Sink(s)' = "log"
      BY <1>5, <2>2, <2>4, <2>5, <2>8 DEF Sink
    <3> QED BY <1>1, <2>6, <3>1, <3>2 DEF Logged
  <2> QED BY <2>7, <2>8
<1>8. NextIsFree(N)'
  BY <1>5, <1>6, <1>7 DEF NextIsFree
<1>9. Environment'
  BY <1>1 DEF Environment, inputs, Windows, Candidates
<1>10. LoggingAt(n, N)'
  BY <1>1, <1>8, <1>9 DEF LoggingAt, Logging
<1>11. DescriptorsReturned'
  <2>1. ASSUME NEW f \in 0..N
        PROVE  fds'[f] = launch.fds[f] \/ \E s \in Outputs : f = file'[s]
    <3>1. CASE f = n
      BY <1>5, <1>6, <3>1
    <3>2. CASE f # n
      <4>1. fds'[f] = fds[f] /\ base[f] = launch.fds[f] /\ file' = file
        BY <1>1, <1>5, <1>6, <3>2
      <4>2. fds[f] = base[f] \/ \E s \in m : f = file[s]
        BY <1>4 DEF Taken
      <4> QED BY <1>2, <4>1, <4>2
    <3> QED BY <3>1, <3>2
  <2>2. DOMAIN fds' = 0..N /\ launch' = launch
    BY <1>1, <1>6 DEF inputs
  <2> QED BY <2>1, <2>2 DEF DescriptorsReturned
<1>12. ASSUME IniIsRead PROVE SessionLogged'
  <2>1. ASSUME NEW s \in Outputs PROVE Logged(s, Sink(s))'
    <3>1. PICK out : out = Sink(s)'
      OBVIOUS
    <3>2. Logged(s, out)'
      BY <1>1, <1>7, <1>12, <3>1, LoggedStays
    <3> QED BY <3>1, <3>2 DEF Logged
  <2>2. (Started => \A s \in Outputs : Logged(s, Sink(s)))' => SessionLogged'
    BY SessionIsLogged, PTL
  <2> QED BY <2>1, <2>2
<1> QED BY <1>10, <1>11, <1>12

\* The game's first file does not take a stream's descriptor.
LEMMA LoggingPlays ==
  ASSUME NEW n \in Nat, NEW N \in Nat, Launched(n, N), LoggingAt(n, N), OpenGameFile,
         IniIsRead => SessionLogged
  PROVE  LoggingAt(n, N)' /\ DescriptorsReturned' /\ (IniIsRead => SessionLogged')
<1>1. /\ pc = "running" /\ pc' = "playing" /\ UNCHANGED <<inputs, file>> /\ NextIsFree(N)
      /\ Environment /\ fds' = [fds EXCEPT ![Lowest(fds)] = "game file"]
  BY DEF OpenGameFile, LoggingAt
<1>2. PICK c \in 0..N : fds[c] = "closed" /\ \A g \in 0..N : fds[g] = "closed" => c <= g
  BY <1>1 DEF NextIsFree
<1>3. fds = [f \in 0..N |-> fds[f]]
  BY <1>1 DEF NextIsFree
<1>4. Lowest(fds) = c
  BY <1>2, <1>3, LowestIs
<1>5. \A s \in Outputs : Sink(s)' = Sink(s)
  <2> SUFFICES ASSUME NEW s \in Outputs PROVE Sink(s)' = Sink(s)
    OBVIOUS
  <2>1. file[s] < 0 \/ (file[s] \in 0..N /\ fds[file[s]] # "closed")
    BY <1>1 DEF NextIsFree
  <2>2. file' = file
    BY <1>1
  <2>3. ~(file[s] < 0) => fds'[file[s]] = fds[file[s]]
    BY <1>1, <1>2, <1>3, <1>4, <2>1
  <2> QED BY <2>2, <2>3 DEF Sink
<1>6. Environment'
  BY <1>1 DEF Environment, inputs, Windows, Candidates
<1>7. LoggingAt(n, N)'
  BY <1>1, <1>6 DEF LoggingAt, Logging
<1>8. DescriptorsReturned'
  BY <1>1 DEF DescriptorsReturned
<1>9. ASSUME IniIsRead PROVE SessionLogged'
  <2>1. \A s \in Outputs : Logged(s, Sink(s))
    BY <1>1, <1>9, SessionIsLogged DEF Started
  <2>2. ASSUME NEW s \in Outputs PROVE Logged(s, Sink(s))'
    <3>1. PICK out : out = Sink(s)
      OBVIOUS
    <3>2. Sink(s)' = out
      BY <1>5, <3>1
    <3>3. Logged(s, out)'
      BY <1>1, <2>1, <3>1, LoggedStays
    <3> QED BY <3>2, <3>3 DEF Logged
  <2>3. (Started => \A s \in Outputs : Logged(s, Sink(s)))' => SessionLogged'
    BY SessionIsLogged, PTL
  <2> QED BY <2>2, <2>3
<1> QED BY <1>7, <1>8, <1>9

\* A step outside the module changes nothing.
LEMMA LoggingStutters ==
  ASSUME NEW n \in Nat, NEW N \in Nat, LoggingAt(n, N), UNCHANGED vars,
         DescriptorsReturned, IniIsRead => SessionLogged
  PROVE  LoggingAt(n, N)' /\ DescriptorsReturned' /\ (IniIsRead => SessionLogged')
<1>1. /\ launch' = launch /\ fds' = fds /\ file' = file /\ env' = env /\ writable' = writable
      /\ redirected' = redirected /\ tried' = tried /\ fd' = fd /\ pc' = pc
  BY DEF vars
<1>2. /\ (Environment' <=> Environment) /\ (Windows' <=> Windows)
      /\ (ConsoleAsked' <=> ConsoleAsked)
      /\ Candidates(env)' = Candidates(env) /\ Kept' = Kept /\ start' = start
      /\ (Searching' <=> Searching) /\ (NextIsFree(N)' <=> NextIsFree(N))
  BY <1>1 DEF Environment, Windows, Candidates, ConsoleAsked, IniAsks, Kept, start, Searching,
              NextIsFree
<1>3. LoggingAt(n, N)'
  BY <1>1, <1>2 DEF LoggingAt, Logging
<1>4. DescriptorsReturned' /\ (SessionLogged => SessionLogged')
  BY <1>1, <1>2 DEF DescriptorsReturned, SessionLogged, Started, Sink, Windows
<1> QED BY <1>3, <1>4

\* Every step keeps the invariant.
LEMMA LoggingInvariant == ASSUME FirstDescriptors PROVE Spec => []LoggingInv
<1>1. Init => LoggingInv
  BY LoggingStarts
<1>2. LoggingInv /\ [Next]_vars => LoggingInv'
  <2> SUFFICES ASSUME LoggingInv, [Next]_vars PROVE LoggingInv'
    OBVIOUS
  <2>1. PICK n \in Nat, N \in Nat : Launched(n, N) /\ LoggingAt(n, N)
    BY DEF LoggingInv
  <2>2. DescriptorsReturned /\ (IniIsRead => SessionLogged)
    BY DEF LoggingInv
  <2>3. LoggingAt(n, N)' /\ DescriptorsReturned' /\ (IniIsRead => SessionLogged')
    <3>1. CASE GiveUp
      BY <2>1, <3>1, LoggingGivesUp
    <3>2. CASE Decide
      BY <2>1, <3>2, LoggingDecides
    <3>3. CASE ReopenConsole
      BY <2>1, <3>3, LoggingOnConsole
    <3>4. CASE OpenLog
      BY <2>1, <3>4, LoggingSearches
    <3>5. CASE MoveStreams
      BY <2>1, <3>5, LoggingMoves
    <3>6. CASE CloseLog
      BY <2>1, <3>6, LoggingCloses
    <3>7. CASE OpenGameFile
      BY <2>1, <2>2, <3>7, LoggingPlays
    <3>8. CASE UNCHANGED vars
      BY <2>1, <2>2, <3>8, LoggingStutters
    <3> QED BY <3>1, <3>2, <3>3, <3>4, <3>5, <3>6, <3>7, <3>8 DEF Next, Play
  <2>4. launch' = launch
    BY DEF Next, vars, GiveUp, Decide, ReopenConsole, OpenLog, MoveStreams, CloseLog,
           OpenGameFile, Play, inputs
  <2>5. Launched(n, N)'
    BY <2>1, <2>4 DEF Launched, Windows
  <2> QED BY <2>3, <2>5 DEF LoggingInv
<1> QED BY <1>1, <1>2, PTL DEF Spec

\* However many descriptors the process was given, which streams are redirected and
\* whichever folder is first writable: only the descriptors of the streams differ
\* from what they were (mmx_startup.c:44-59 and 150-158).
THEOREM LoggingReturnsDescriptors ==
  ASSUME FirstDescriptors PROVE Spec => []DescriptorsReturned
<1>1. LoggingInv => DescriptorsReturned
  BY DEF LoggingInv
<1> QED BY <1>1, LoggingInvariant, PTL

\* Redirected output is kept, a console that is asked for gets the rest, and the log
\* otherwise, into the game's first file (mmx_startup.c:2-3, 86 and 91).
THEOREM LoggingIsKept ==
  ASSUME FirstDescriptors, IniIsRead PROVE Spec => []SessionLogged
<1>1. LoggingInv => SessionLogged
  BY DEF LoggingInv
<1> QED BY <1>1, LoggingInvariant, PTL

=============================================================================
