----------------------------- MODULE ScopeTimer -----------------------------
(***************************************************************************)
(* ccs::ScopeTimer (include/time/scope_timer.hpp): threads with nested     *)
(* timed scopes that report to one stream. A timer reads the steady clock  *)
(* when it is constructed and again in its destructor, formats a line on a *)
(* stream of its own and inserts it with one call; whatever throws there   *)
(* is swallowed, since the scope may be left by an exception.              *)
(*                                                                         *)
(* Assumed of the shared stream: threads may use it at once. C++ promises  *)
(* that of std::cout, the default, and of no stream a program makes itself. *)
(* Even then characters of two threads may mix, and an insertion that fails *)
(* may leave part of a line. The module says nothing of either: `os` holds *)
(* the reports of which every character was written, whatever lies between *)
(* them, in the order in which their insertions ended.                     *)
(***************************************************************************)
EXTENDS Integers, Sequences, SequencesExt

CONSTANTS
    Threads,
    MaxDepth,   \* bound: nested timers of a thread
    MaxTimers,  \* bound: timers of a thread
    MaxTime     \* bound: clock ticks

VARIABLES
    now,         \* the clock
    timers,      \* the live timers of each thread, innermost last
    built,       \* timers each thread has constructed
    line,        \* what each thread's destructor is about to insert
    os,          \* the stream: the reports written to their end; `from` is history
    unwinding,   \* an exception is leaving each thread's scopes
    terminated   \* std::terminate was called

vars == <<now, timers, built, line, os, unwinding, terminated>>

Nothing == <<>>

Init ==
    /\ now = 0
    /\ timers = [t \in Threads |-> <<>>]
    /\ built = [t \in Threads |-> 0]
    /\ line = [t \in Threads |-> Nothing]
    /\ os = <<>>
    /\ unwinding = [t \in Threads |-> FALSE]
    /\ terminated = FALSE

\* Slip: system_clock, which can be set back.
TickSystemClock == now' \in {now - 1, now + 1} /\ now' \in 0..MaxTime

\* steady_clock.
Tick == now < MaxTime /\ now' = now + 1

\* Time passes.
Clock == Tick /\ UNCHANGED <<timers, built, line, os, unwinding, terminated>>

\* ScopeTimer(label, os): a declaration is reached. The label tells it apart.
Construct(t) ==
    /\ line[t] = Nothing /\ ~unwinding[t]
    /\ Len(timers[t]) < MaxDepth /\ built[t] < MaxTimers
    /\ built' = [built EXCEPT ![t] = @ + 1]
    /\ timers' = [timers EXCEPT ![t] = Append(@, [label |-> <<t, built'[t]>>, m_start |-> now])]
    /\ UNCHANGED <<now, line, os, unwinding, terminated>>

\* The code in the scope throws; the handler is outside all timed scopes.
Throw(t) ==
    /\ line[t] = Nothing /\ ~unwinding[t] /\ timers[t] # <<>>
    /\ unwinding' = [unwinding EXCEPT ![t] = TRUE]
    /\ UNCHANGED <<now, timers, built, line, os, terminated>>

Handle(t) ==
    /\ line[t] = Nothing /\ unwinding[t] /\ timers[t] = <<>>
    /\ unwinding' = [unwinding EXCEPT ![t] = FALSE]
    /\ UNCHANGED <<now, timers, built, line, os, terminated>>

\* Slip: the destructor lets the exception out.
LetOut(t) == terminated' = TRUE /\ UNCHANGED line

\* catch (...).
Swallow(t) == line' = [line EXCEPT ![t] = Nothing] /\ UNCHANGED terminated

\* ~ScopeTimer, the clock and the formatting: memory may run out.
Destroy(t) ==
    LET timer == Last(timers[t]) IN
    /\ line[t] = Nothing /\ timers[t] # <<>>
    /\ timers' = [timers EXCEPT ![t] = Front(@)]
    /\ \/ /\ line' = [line EXCEPT ![t] =
                <<[of |-> timer.label, from |-> timer.m_start, duration |-> now - timer.m_start]>>]
          /\ UNCHANGED terminated
       \/ Swallow(t)
    /\ UNCHANGED <<now, built, os, unwinding>>

\* m_os << oss.str() ends: the line was written, by itself or among other
\* threads' characters; or it was not, or not to its end, because the stream is
\* in error or fails, with an exception or without.
Insert(t) ==
    /\ line[t] # Nothing
    /\ \/ /\ os' = os \o line[t]
          /\ line' = [line EXCEPT ![t] = Nothing]
          /\ UNCHANGED terminated
       \/ Swallow(t) /\ UNCHANGED os
    /\ UNCHANGED <<now, timers, built, unwinding>>

Step(t) ==
    /\ ~terminated
    /\ Construct(t) \/ Throw(t) \/ Handle(t) \/ Destroy(t) \/ Insert(t)

Next == (\E t \in Threads : Step(t)) \/ (~terminated /\ Clock)

Spec == Init /\ [][Next]_vars

-----------------------------------------------------------------------------
\* A scope's time covers the times of the scopes inside it, and none is
\* negative: of two timers of a thread of which one was constructed first and
\* reported last, the later one fits in the earlier one. Times are differences
\* of two readings, so this rests on the clock and on the order of the readings
\* in constructors and destructors (scope_timer.hpp:28, 36, 58-59).
InnerFitsInOuter ==
    \A i, j \in DOMAIN os :
        LET inner == os[i]
            outer == os[j] IN
        i < j /\ inner.of[1] = outer.of[1] /\ inner.of[2] > outer.of[2]
        => /\ 0 <= inner.duration
           /\ outer.from <= inner.from
           /\ inner.from + inner.duration <= outer.from + outer.duration

\* Reporting on a stream that throws never ends the program, although the
\* timer may be destroyed because an exception is already on its way
\* (scope_timer.hpp:49-67).
ExceptionsArrive == ~terminated
=============================================================================
