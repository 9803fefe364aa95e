--------------------------------- MODULE Loguru --------------------------------
(***************************************************************************)
(* The logging library, as the program uses it: init and add_file by the   *)
(* main thread, then LOG_F, LOG_SCOPE_F and ABORT_F by every thread, with  *)
(* signals that interrupt any of them.                                     *)
(*                                                                         *)
(* A thread has a stack of calls, the innermost first.  s_mutex is         *)
(* recursive: log_message calls raw_log for the stack trace, a scope logs  *)
(* its braces and the signal handler logs, all of them with the mutex in   *)
(* hand or in the middle of another call.  stderr is the first sink, the   *)
(* log files follow in the order of s_callbacks.  A message is who logs    *)
(* it, its kind and its verbosity: text, preamble and colours are left     *)
(* out.  g_flush_interval_ms is 0: every message is flushed at once.       *)
(***************************************************************************)
EXTENDS Integers, Sequences, FiniteSets, SequencesExt

CONSTANTS
  Main, Workers,
  Loglevel,      \* "loglevel" of config.json
  LogFiles,      \* the levels of "logfiles"
  Messages,      \* the verbosities of LOG_F calls
  Scopes,        \* the verbosities of LOG_SCOPE_F calls
  ArenaOf,       \* which arena of the allocator a thread allocates from
  MaxCalls,      \* bound: how many calls the threads make together
  MaxSignals     \* bound: how many signals arrive

Threads  == {Main} \cup Workers
NoThread == "no thread"

Off   == -9
Fatal == -3
Error == -2
Info  == 0

ASSUME LoguruAssumption ==
  /\ NoThread \notin Threads
  /\ Messages \subseteq Error..9 /\ Scopes \subseteq Info..9
  /\ LogFiles \in Seq(Fatal..9)
  /\ Loglevel \in Off..9
  /\ DOMAIN ArenaOf = Threads
  /\ MaxCalls \in Nat /\ MaxSignals \in Nat

VARIABLES
  stage,     \* of the main thread: "init", "loglevel", "files", "running"
  files,     \* log files to be added
  sinks,     \* stderr and s_callbacks: what was written, how much of it is flushed
  max_out,   \* s_max_out_verbosity
  mutex,     \* s_mutex
  stack,     \* the calls each thread is in
  scopes,    \* the verbosities of its LogScopeRAII objects, the innermost first
  said,      \* the messages of its calls that have returned
  calls,     \* how many calls all threads have made
  signals,   \* how many signals arrived
  dead       \* "no", "abort", "signal" or "exit"

output == <<sinks, max_out>>
thread == <<scopes, calls, said>>
vars   == <<stage, files, output, mutex, stack, thread, signals, dead>>

Kinds == {"setup", "msg", "{", "}", "trace", "fatal", "signal"}

(* The kinds that calls of LOG_F and LOG_SCOPE_F log. *)
Spoken == {"msg", "{", "}"}

TypeOK ==
  /\ stage \in {"init", "loglevel", "files", "running"}
  /\ \A s \in Range(sinks) : s.indentation \in Nat /\ s.flushed \in 0..Len(s.lines)
  /\ \A s \in Range(sinks) : \A l \in Range(s.lines) : l.by \in Threads /\ l.kind \in Kinds
  /\ max_out \in Off..9
  /\ mutex.owner = NoThread <=> mutex.depth = 0
  /\ \A t \in Threads : stack[t] = << >> => mutex.owner # t
  /\ dead \in {"no", "abort", "signal", "exit"}

Sink(verbosity) == [verbosity |-> verbosity, indentation |-> 0, lines |-> << >>, flushed |-> 0]

Init ==
  /\ stage = "init"
  /\ files = LogFiles
  /\ sinks = <<Sink(Info)>>
  /\ max_out = Off
  /\ mutex = [owner |-> NoThread, depth |-> 0]
  /\ stack = [t \in Threads |-> << >>]
  /\ scopes = [t \in Threads |-> << >>]
  /\ calls = 0
  /\ said = [t \in Threads |-> << >>]
  /\ signals = 0
  /\ dead = "no"

(* current_verbosity_cutoff, read without the mutex *)
Cutoff == IF sinks[1].verbosity > max_out THEN sinks[1].verbosity ELSE max_out

-----------------------------------------------------------------------------
(* The stack of a thread and the recursive mutex *)

Message(t, kind, verbosity) == [by |-> t, kind |-> kind, verbosity |-> verbosity]

(* in_libc: the lock of the C library that was held by what a signal       *)
(* interrupted, when the call is that of the signal handler.               *)
Frame(pc, m) == [pc |-> pc, msg |-> m, sink |-> 1, in_libc |-> "no"]

At(t, pc) == dead = "no" /\ stack[t] # << >> /\ Head(stack[t]).pc = pc

Top(t) == Head(stack[t])

Goto(t, pc) == stack' = [stack EXCEPT ![t][1].pc = pc]

(* The innermost call goes on at pc once the call f has returned. *)
CallThen(t, f, pc) == stack' = [stack EXCEPT ![t] = <<f, [Head(@) EXCEPT !.pc = pc]>> \o Tail(@)]

Return(t) == stack' = [stack EXCEPT ![t] = Tail(@)]

(* Mutant: a std::mutex, which its owner cannot lock again. *)
LockOnce(t) ==
  /\ mutex.owner = NoThread
  /\ mutex' = [owner |-> t, depth |-> 1]

Lock(t) ==
  /\ mutex.owner \in {t, NoThread}
  /\ mutex' = [owner |-> t, depth |-> mutex.depth + 1]

(* Mutant: the first unlock frees the mutex. *)
UnlockAll == mutex' = [owner |-> NoThread, depth |-> mutex.depth - 1]

Unlock == mutex' = [owner |-> IF mutex.depth = 1 THEN NoThread ELSE mutex.owner,
                    depth |-> mutex.depth - 1]

Accepts(s, m) == m.verbosity <= s.verbosity

Flushed(s) == [s EXCEPT !.flushed = Len(s.lines)]

FlushAll == sinks' = [i \in DOMAIN sinks |-> Flushed(sinks[i])]

-----------------------------------------------------------------------------
(* Two locks of the C library, each held for the time of one call only, so *)
(* that a thread waits for one only if a signal interrupted such a call:   *)
(* the handler of the signal does not let the call go on.                  *)

(* What t calls next: the allocator for a text or a stack trace (a scope   *)
(* and the handler have a text of their own) and localtime_r for the       *)
(* preamble.  The program that calls loguru allocates as well.             *)
LibcLocks(t) ==
  {l \in {"allocator", "clock"} :
     CASE stack[t] = << >>      -> l = "allocator"
       [] Top(t).pc = "trace"  -> l = "allocator"
       [] Top(t).pc = "format" -> l = "clock" \/ Top(t).msg.kind \notin {"{", "signal"}
       [] OTHER                -> FALSE}

(* Each arena has a lock of its own, the time zone of localtime_r has one. *)
Free(t, lock) ==
  \A u \in Threads : \A j \in DOMAIN stack[u] :
    stack[u][j].in_libc = lock => lock = "allocator" /\ ArenaOf[u] # ArenaOf[t]

LibcReturns(t) == \A l \in LibcLocks(t) : Free(t, l)

-----------------------------------------------------------------------------
(* log_message *)

(* Text and preamble are made before log_message takes the mutex; a scope, *)
(* which logs its braces, has it already.                                  *)
Format(t) ==
  /\ At(t, "format")
  /\ LibcReturns(t)
  /\ Goto(t, "lock")
  /\ UNCHANGED <<stage, files, output, mutex, thread, signals, dead>>

(* Mutant: the stack trace is logged before the mutex is taken. *)
TraceThenLock(t) ==
  /\ At(t, "lock")
  /\ IF Top(t).msg.verbosity = Fatal /\ Top(t).sink = 1 /\ Cutoff >= Error
     THEN /\ stack' = [stack EXCEPT ![t] = <<Frame("lock", Message(t, "trace", Error)),
                                             [Head(@) EXCEPT !.sink = 0]>> \o Tail(@)]
          /\ UNCHANGED mutex
     ELSE /\ Lock(t)
          /\ stack' = [stack EXCEPT ![t][1].pc = "write", ![t][1].sink = 1]
  /\ UNCHANGED <<stage, files, output, thread, signals, dead>>

LockMessage(t) ==
  /\ At(t, "lock")
  /\ Lock(t)
  /\ Goto(t, IF Top(t).msg.verbosity = Fatal THEN "trace" ELSE "write")
  /\ UNCHANGED <<stage, files, output, thread, signals, dead>>

(* A message of its own, without a preamble and indentation. *)
RawLog(t) == Frame("lock", Message(t, "trace", Error))

Trace(t) ==
  /\ At(t, "trace")
  /\ LibcReturns(t)
  /\ IF Cutoff >= Error
     THEN CallThen(t, RawLog(t), "write")
     ELSE Goto(t, "write")
  /\ UNCHANGED <<stage, files, output, mutex, thread, signals, dead>>

(* loguru::indentation has room for fifty levels. *)
Indentation(depth) == IF depth < 50 THEN depth ELSE 50

Line(s, m) ==
  [by |-> m.by, kind |-> m.kind, verbosity |-> m.verbosity,
   indentation |-> IF m.kind \in {"trace", "signal"} THEN 0 ELSE Indentation(s.indentation)]

(* The next sink that accepts the message, or the number behind the last. *)
NextSink(f) ==
  LET rest == {i \in DOMAIN sinks : i >= f.sink /\ Accepts(sinks[i], f.msg)}
  IN  IF rest = {} THEN Len(sinks) + 1 ELSE CHOOSE i \in rest : \A j \in rest : i <= j

Write(t) ==
  /\ At(t, "write")
  /\ LET k == NextSink(Top(t))
     IN  /\ k <= Len(sinks)
         /\ sinks' = [sinks EXCEPT ![k].lines = Append(@, Line(sinks[k], Top(t).msg))]
         /\ stack' = [stack EXCEPT ![t][1].pc = "flush", ![t][1].sink = k]
  /\ UNCHANGED <<stage, files, max_out, mutex, thread, signals, dead>>

(* Mutant: a file is left to its buffer. *)
FlushStderr(t) ==
  /\ At(t, "flush")
  /\ sinks' = [sinks EXCEPT ![1] = Flushed(@)]
  /\ stack' = [stack EXCEPT ![t][1].pc = "write", ![t][1].sink = @ + 1]
  /\ UNCHANGED <<stage, files, max_out, mutex, thread, signals, dead>>

(* Mutant: the loop over the sinks does not advance. *)
FlushAgain(t) ==
  /\ At(t, "flush")
  /\ sinks' = [sinks EXCEPT ![Top(t).sink] = Flushed(@)]
  /\ Goto(t, "write")
  /\ UNCHANGED <<stage, files, max_out, mutex, thread, signals, dead>>

Flush(t) ==
  /\ At(t, "flush")
  /\ sinks' = [sinks EXCEPT ![Top(t).sink] = Flushed(@)]
  /\ stack' = [stack EXCEPT ![t][1].pc = "write", ![t][1].sink = @ + 1]
  /\ UNCHANGED <<stage, files, max_out, mutex, thread, signals, dead>>

Written(t) == At(t, "write") /\ NextSink(Top(t)) > Len(sinks)

LogReturns(t) ==
  /\ Written(t)
  /\ Top(t).msg.verbosity # Fatal
  /\ Unlock
  /\ Return(t)
  /\ said' = IF Top(t).msg.kind \in Spoken
             THEN [said EXCEPT ![t] = Append(@, Top(t).msg)] ELSE said
  /\ UNCHANGED <<stage, files, output, scopes, calls, signals, dead>>

(* A fatal message ends in flush and abort, with the mutex still locked;   *)
(* the one of the signal handler returns to it.                            *)
FatalEnds(t) ==
  /\ Written(t)
  /\ Top(t).msg.verbosity = Fatal
  /\ FlushAll
  /\ IF Top(t).msg.kind = "signal"
     THEN Unlock /\ Return(t) /\ UNCHANGED dead
     ELSE dead' = "abort" /\ UNCHANGED <<mutex, stack>>
  /\ UNCHANGED <<stage, files, max_out, thread, signals>>

-----------------------------------------------------------------------------
(* The calls of the program *)

Idle(t) == dead = "no" /\ stack[t] = << >>

(* After init and add_file any thread calls; the pool starts later still.  *)
Calls(t) ==
  /\ Idle(t)
  /\ stage = "running"
  /\ calls < MaxCalls
  /\ calls' = calls + 1

Push(t, f) == stack' = [stack EXCEPT ![t] = <<f>> \o @]

LogF(t, v) ==
  /\ Calls(t)
  /\ IF v <= Cutoff THEN Push(t, Frame("format", Message(t, "msg", v))) ELSE UNCHANGED stack
  /\ UNCHANGED <<stage, files, output, mutex, scopes, said, signals, dead>>

LogAndAbort(t) == Push(t, Frame("format", Message(t, "fatal", Fatal)))

(* ABORT_F and CHECK_F do not ask for the cutoff. *)
AbortF(t) ==
  /\ Calls(t)
  /\ LogAndAbort(t)
  /\ UNCHANGED <<stage, files, output, mutex, scopes, said, signals, dead>>

(* LOG_SCOPE_F: a scope above the cutoff is disabled, its _file is null. *)
OpenScope(t, v) ==
  /\ Calls(t)
  /\ IF v <= Cutoff THEN Push(t, Frame("open", Message(t, "{", v))) ELSE UNCHANGED stack
  /\ UNCHANGED <<stage, files, output, mutex, scopes, said, signals, dead>>

OpenBrace(t) ==
  /\ At(t, "open")
  /\ Lock(t)
  /\ CallThen(t, Frame("format", Top(t).msg), "open indent")
  /\ UNCHANGED <<stage, files, output, thread, signals, dead>>

(* Mutant: the verbosity of the scope is forgotten. *)
IndentAll(m, d) ==
  sinks' = [i \in DOMAIN sinks |->
              IF sinks[i].indentation + d >= 0
              THEN [sinks[i] EXCEPT !.indentation = @ + d] ELSE sinks[i]]

Indent(m, d) ==
  sinks' = [i \in DOMAIN sinks |->
              IF Accepts(sinks[i], m) /\ sinks[i].indentation + d >= 0
              THEN [sinks[i] EXCEPT !.indentation = @ + d] ELSE sinks[i]]

OpenIndent(t) ==
  /\ At(t, "open indent")
  /\ Indent(Top(t).msg, 1)
  /\ scopes' = [scopes EXCEPT ![t] = <<Top(t).msg.verbosity>> \o @]
  /\ Unlock
  /\ Return(t)
  /\ UNCHANGED <<stage, files, max_out, calls, said, signals, dead>>

(* The destructor, which runs at the end of the block: a thread that is    *)
(* not in a call may leave the block.                                      *)
CloseScope(t) ==
  /\ Idle(t)
  /\ scopes[t] # << >>
  /\ Push(t, Frame("close", Message(t, "}", Head(scopes[t]))))
  /\ scopes' = [scopes EXCEPT ![t] = Tail(@)]
  /\ UNCHANGED <<stage, files, output, mutex, calls, said, signals, dead>>

CloseIndent(t) ==
  /\ At(t, "close")
  /\ Lock(t)
  /\ Indent(Top(t).msg, -1)
  /\ CallThen(t, Frame("format", Top(t).msg), "close end")
  /\ UNCHANGED <<stage, files, max_out, thread, signals, dead>>

CloseReturns(t) ==
  /\ At(t, "close end")
  /\ Unlock
  /\ Return(t)
  /\ UNCHANGED <<stage, files, output, thread, signals, dead>>

-----------------------------------------------------------------------------
(* Signals *)

(* A signal to any thread, in whatever it does, a call into the C library  *)
(* that holds a lock included.                                             *)
Signal(t) ==
  /\ dead = "no"
  /\ stage = "running" \/ (stage = "files" /\ t = Main)
  /\ signals < MaxSignals
  /\ signals' = signals + 1
  /\ \E l \in {"no"} \cup {k \in LibcLocks(t) : Free(t, k)} :
       Push(t, [Frame("caught", Message(t, "signal", Fatal)) EXCEPT !.in_libc = l])
  /\ UNCHANGED <<stage, files, output, mutex, thread, dead>>

(* flush takes the mutex for itself only: it waits for another owner. *)
HandlerFlushes(t) ==
  /\ At(t, "caught")
  /\ mutex.owner \in {t, NoThread}
  /\ FlushAll
  /\ CallThen(t, Frame("format", Top(t).msg), "flush and kill")
  /\ UNCHANGED <<stage, files, max_out, mutex, thread, signals, dead>>

HandlerFlushesAgain(t) ==
  /\ At(t, "flush and kill")
  /\ mutex.owner \in {t, NoThread}
  /\ FlushAll
  /\ Goto(t, "kill")
  /\ UNCHANGED <<stage, files, max_out, mutex, thread, signals, dead>>

CallDefaultHandler(t) ==
  /\ At(t, "kill")
  /\ dead' = "signal"
  /\ UNCHANGED <<stage, files, output, mutex, stack, thread, signals>>

-----------------------------------------------------------------------------
(* The main thread before and after *)

Setup(v) == Frame("format", Message(Main, "setup", v))

(* init logs the arguments at Info, to stderr only. *)
InitLoguru ==
  /\ Idle(Main) /\ stage = "init"
  /\ stage' = "loglevel"
  /\ Push(Main, Setup(Info))
  /\ UNCHANGED <<files, output, mutex, thread, signals, dead>>

SetLoglevel ==
  /\ Idle(Main) /\ stage = "loglevel"
  /\ stage' = "files"
  /\ sinks' = [sinks EXCEPT ![1].verbosity = Loglevel]
  /\ UNCHANGED <<files, max_out, mutex, stack, thread, signals, dead>>

AddCallback(v) ==
  /\ sinks' = Append(sinks, Sink(v))
  /\ max_out' = IF v > max_out THEN v ELSE max_out

(* A file that cannot be opened is an error message, and no sink. *)
AddFile ==
  /\ Idle(Main) /\ stage = "files" /\ files # << >>
  /\ files' = Tail(files)
  /\ \/ AddCallback(Head(files)) /\ Push(Main, Setup(Info))
     \/ UNCHANGED output /\ Push(Main, Setup(Error))
  /\ UNCHANGED <<stage, mutex, thread, signals, dead>>

StartThreads ==
  /\ Idle(Main) /\ stage = "files" /\ files = << >>
  /\ stage' = "running"
  /\ UNCHANGED <<files, output, mutex, stack, thread, signals, dead>>

(* main returns when the pool is joined; on_atexit flushes. *)
Exit ==
  /\ stage = "running"
  /\ \A t \in Threads : Idle(t) /\ scopes[t] = << >>
  /\ FlushAll
  /\ dead' = "exit"
  /\ UNCHANGED <<stage, files, max_out, mutex, stack, thread, signals>>

InCall(t) ==
  \/ Format(t) \/ LockMessage(t) \/ Trace(t) \/ Write(t) \/ Flush(t)
  \/ LogReturns(t) \/ FatalEnds(t)
  \/ OpenBrace(t) \/ OpenIndent(t) \/ CloseIndent(t) \/ CloseReturns(t)
  \/ HandlerFlushes(t) \/ HandlerFlushesAgain(t) \/ CallDefaultHandler(t)

Next ==
  \/ InitLoguru \/ SetLoglevel \/ AddFile \/ StartThreads \/ Exit
  \/ \E t \in Threads :
       \/ InCall(t) \/ AbortF(t) \/ CloseScope(t) \/ Signal(t)
       \/ \E v \in Messages : LogF(t, v)
       \/ \E v \in Scopes : OpenScope(t, v)

(* A thread in a call goes on.  Nothing is assumed about new calls: there  *)
(* are finitely many, so that a thread waiting for the mutex gets it.      *)
Spec == Init /\ [][Next]_vars /\ \A t \in Threads : WF_vars(InCall(t))

-----------------------------------------------------------------------------
(* Properties *)

DurableLines(s) == SubSeq(s.lines, 1, s.flushed)

(* Where the messages of t's calls are in a sink, and which of those whose *)
(* calls have returned the sink accepts.                                   *)
DurableOf(s, t) == {j \in 1..s.flushed : s.lines[j].by = t /\ s.lines[j].kind \in Spoken}

AcceptedOf(s, t) == {i \in DOMAIN said[t] : Accepts(s, said[t][i])}

Rank(i, S) == Cardinality({j \in S : j <= i})

Tells(l, t, m) == m = Message(t, l.kind, l.verbosity)

(* A message whose call has returned is in every sink that accepts it,     *)
(* once, in the order of its thread's calls, and is there for good: neither *)
(* another thread's abort nor a signal can take it back.  At most the      *)
(* message of the call that goes on follows.                               *)
NothingLost ==
  \A s \in Range(sinks), t \in Threads :
    LET lines == DurableOf(s, t)
        told  == AcceptedOf(s, t)
    IN  /\ \A i \in told : \E j \in lines : Rank(j, lines) = Rank(i, told) /\ Tells(s.lines[j], t, said[t][i])
        /\ Cardinality(lines) <= Cardinality(told) + 1

(* The indentation of a line is the number of scopes that are open at its  *)
(* place in its own sink, of all threads, but fifty at most: no            *)
(* interleaving lets a counter run ahead of or behind the braces.          *)
IndentedByNesting ==
  \A s \in Range(sinks) : \A i \in DOMAIN s.lines :
    s.lines[i].kind \in {"msg", "{", "}", "fatal"} =>
      LET Open(j)  == s.lines[j].kind = "{" /\ j < i
          Close(j) == s.lines[j].kind = "}" /\ j <= i
      IN  s.lines[i].indentation
            = Indentation(Cardinality({j \in 1..i : Open(j)}) - Cardinality({j \in 1..i : Close(j)}))

(* What killed the program is in every sink that takes fatal messages, and *)
(* flushed.  After ABORT_F it is the last message, and its stack trace the *)
(* one before it.                                                          *)
LastWords ==
  \A s \in Range(sinks) :
    s.verbosity >= Fatal =>
      /\ dead = "signal" => \E l \in Range(DurableLines(s)) : l.kind = "signal"
      /\ dead = "abort" =>
           LET n == s.flushed
           IN  /\ n = Len(s.lines) /\ s.lines[n].kind = "fatal"
               /\ s.verbosity >= Error =>
                    s.lines[n - 1].kind = "trace" /\ s.lines[n - 1].by = s.lines[n].by

(* A thread in a call that waits for a lock of the C library. *)
Stuck == dead = "no" /\ \E t \in Threads : stack[t] # << >> /\ ~LibcReturns(t)

(* A thread that holds the mutex or waits for it gets on: its call returns *)
(* or the program ends, which a signal brings about as well.  The          *)
(* exception is a signal that interrupts the allocator or localtime_r      *)
(* while it holds its lock: the program may hang for ever then, and only   *)
(* with a thread in a call that waits for that lock - the handler, or      *)
(* another thread, which may have the mutex the handler waits for.         *)
CallsReturn ==
  \A t \in Threads : stack[t] # << >> ~> (stack[t] = << >> \/ dead # "no" \/ []Stuck)

(* The steps of a message for n sinks from its first one on: each sink is  *)
(* written and flushed, at most.                                           *)
SinkSteps(n) == 2 * n + 1

(* All of them from log_message on: a fatal one has a second for its stack *)
(* trace.                                                                  *)
LogSteps(m, n) == IF m.verbosity = Fatal THEN 2 * SinkSteps(n) + 3 ELSE SinkSteps(n) + 1

(* How many steps call f has left, at most, with those it will make.       *)
StepsLeft(f, n) ==
  CASE f.pc = "format"             -> LogSteps(f.msg, n) + 1
    [] f.pc = "lock"               -> LogSteps(f.msg, n)
    [] f.pc = "trace"              -> 2 * SinkSteps(n) + 2
    [] f.pc = "write"              -> SinkSteps(n + 1 - f.sink)
    [] f.pc = "flush"              -> 2 * (n + 1 - f.sink)
    [] f.pc \in {"open", "close"}  -> LogSteps(f.msg, n) + 3
    [] f.pc = "caught"             -> LogSteps(f.msg, n) + 4
    [] f.pc = "flush and kill"     -> 2
    [] f.pc \in {"open indent", "close end", "kill"} -> 1

ThreadSteps(t) == SumFunction([j \in DOMAIN stack[t] |-> StepsLeft(stack[t][j], Len(sinks))])

(* A call logs from within itself: its stack trace, its brace, the reason  *)
(* of a signal.  All the same each step brings the calls that a thread is  *)
(* in nearer to their end; nothing but a further signal adds to them.      *)
CallsProgress ==
  [][\A t \in Threads :
       stack[t] # << >> /\ stack'[t] # stack[t]
         => signals' > signals \/ ThreadSteps(t)' < ThreadSteps(t)]_vars
================================================================================
