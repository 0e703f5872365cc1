---------------------------- MODULE SocketError ----------------------------
(***************************************************************************)
(* net::SocketError (include/net/socket_error.hpp): what its predicates say *)
(* of an error, on POSIX systems and on Windows, where the C++ library maps *)
(* only some Winsock codes to std::errc and Matches normalizes the rest.   *)
(*                                                                         *)
(* A code is named by its condition: errno EPIPE, Winsock's WSAECONNRESET  *)
(* and the generic std::errc code of a condition differ by their category. *)
(***************************************************************************)
VARIABLES
    windows,  \* _WIN32
    mapped,   \* codes that std::system_category() maps to a condition
    m_ec      \* the std::error_code of the error at hand

vars == <<windows, mapped, m_ec>>

\* The conditions the code names. On POSIX the first two are one code.
Conditions ==
    {"operation_would_block", "resource_unavailable_try_again", "interrupted",
     "connection_reset", "connection_refused", "timed_out", "address_in_use",
     "connection_aborted", "not_connected", "message_size", "broken_pipe"}

\* What SocketError::Last() may find: Winsock has no EAGAIN and no EPIPE of its
\* own, and reports a socket shut down for sending as WSAESHUTDOWN, a condition
\* of its own that no std::errc stands for.
PosixCodes == Conditions \cup {"unknown"}
WinsockCodes == (Conditions \ {"resource_unavailable_try_again", "broken_pipe"})
                \cup {"shutdown", "unknown"}

NativeCodes == IF windows THEN WinsockCodes ELSE PosixCodes

System(code) == [category |-> "system", code |-> code]
Generic(condition) == [category |-> "generic", code |-> condition]
Success == System("success")

\* EAGAIN = EWOULDBLOCK.
Same(code, condition) ==
    \/ code = condition
    \/ /\ ~windows
       /\ {code, condition} = {"operation_would_block", "resource_unavailable_try_again"}

\* std::error_code == std::errc.
Equivalent(ec, condition) ==
    /\ Same(ec.code, condition)
    /\ ec.category = "system" => ec.code \in mapped

\* Slip: WSAECONNABORTED has no case.
NormalizedAborted(code) ==
    CASE code = "operation_would_block" -> {code, "resource_unavailable_try_again"}
      [] code = "connection_aborted"    -> {}
      [] OTHER                          -> {code}

\* The cases of the switch over Winsock codes.
Normalized(code) ==
    CASE code = "operation_would_block" -> {code, "resource_unavailable_try_again"}
      [] OTHER                          -> {code}

\* The codes that have a case.
Cases == Conditions \ {"resource_unavailable_try_again", "broken_pipe"}

Matches(ec, condition) ==
    IF windows /\ ec.category = "system" /\ ec.code \in Cases
    THEN condition \in Normalized(ec.code)
    ELSE Equivalent(ec, condition)

IsWouldBlock(ec) ==
    Matches(ec, "operation_would_block") \/ Matches(ec, "resource_unavailable_try_again")

\* Slip: only a call that would block or was interrupted is transient.
IsTransientUntimed(ec) == IsWouldBlock(ec) \/ Matches(ec, "interrupted")

IsTransient(ec) == IsWouldBlock(ec) \/ Matches(ec, "interrupted") \/ Matches(ec, "timed_out")

IsDisconnected(ec) ==
    \E c \in {"connection_reset", "connection_aborted", "broken_pipe", "not_connected"} : Matches(ec, c)

\* IsInterrupted, IsConnectionReset, IsConnectionRefused, IsTimedOut,
\* IsAddressInUse and IsConnectionAborted ask for one condition each.
Single == {"interrupted", "connection_reset", "connection_refused", "timed_out",
           "address_in_use", "connection_aborted"}

\* Everything the predicates and the comparison with message_size say.
Verdict(ec) ==
    {c \in Single \cup {"message_size"} : Matches(ec, c)}
        \cup (IF IsWouldBlock(ec) THEN {"wouldBlock"} ELSE {})
        \cup (IF IsTransient(ec) THEN {"transient"} ELSE {})
        \cup (IF IsDisconnected(ec) THEN {"disconnected"} ELSE {})

Init ==
    /\ windows \in BOOLEAN
    /\ mapped \in SUBSET Conditions
    /\ ~windows => mapped = Conditions
    /\ m_ec = Success

\* SocketError::Last(), after a call that failed.
Last == \E code \in NativeCodes : m_ec' = System(code) /\ UNCHANGED <<windows, mapped>>

\* SocketError{ std::make_error_code(condition) }.
FromErrc == \E c \in Conditions : m_ec' = Generic(c) /\ UNCHANGED <<windows, mapped>>

Next == Last \/ FromErrc

Spec == Init /\ [][Next]_vars

-----------------------------------------------------------------------------
\* What an error with the given condition means to a caller.
Meaning(condition) ==
    CASE condition \in {"operation_would_block", "resource_unavailable_try_again"} ->
            {"wouldBlock", "transient"}
      [] condition \in {"interrupted", "timed_out"} -> {condition, "transient"}
      [] condition \in {"connection_reset", "connection_aborted"} -> {condition, "disconnected"}
      [] condition \in {"not_connected", "broken_pipe"} -> {"disconnected"}
      [] condition \in {"connection_refused", "address_in_use", "message_size"} -> {condition}
      [] OTHER -> {}

\* What the predicates say follows from the condition a code stands for: its
\* category, the platform, and how many Winsock codes the C++ library maps to a
\* std::errc do not matter. One event may have two conditions, on POSIX and on
\* Windows; the next two properties are about that
\* (socket_error.hpp:11-12, 207-208).
ConditionDecides == Verdict(m_ec) = Meaning(m_ec.code)

\* A receive that SO_RCVTIMEO ended is transient, although it is EAGAIN on POSIX
\* (IsWouldBlock) and WSAETIMEDOUT on Windows (IsTimedOut): of the predicates
\* only IsTransient has the same answer (socket_error.hpp:91-96,
\* bench_tcp.cpp:45).
TimeoutIsTransient ==
    m_ec = System(IF windows THEN "timed_out" ELSE "resource_unavailable_try_again") =>
        IsTransient(m_ec)

\* What a send reports after the sending side was shut down: EPIPE or
\* WSAESHUTDOWN.
ShutDownForSending == System(IF windows THEN "shutdown" ELSE "broken_pipe")

\* A send after the program's own Shutdown is told apart alike everywhere, as
\* the comparisons "SocketError vs. std::errc (Cross-Platform)" promise
\* (socket_error.hpp:11-12, 104-111, 158; test_socket_error.cpp:114 has it for
\* EPIPE). It fails: WSAESHUTDOWN has no case in Matches.
ShutdownLooksAlike ==
    m_ec = ShutDownForSending => IsDisconnected(m_ec) /\ Matches(m_ec, "broken_pipe")
=============================================================================
