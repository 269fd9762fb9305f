----------------------------- MODULE LiveQuotes -----------------------------
(***************************************************************************)
(* Where the quotes of LiveBarBuilder come from: the task of               *)
(* services/itick_websocket_shadow.py that keeps one websocket open, and   *)
(* its life with the engine that starts and stops it (main.py).  Handling  *)
(* a message is one step of the event loop, the stop is not.               *)
(***************************************************************************)
EXTENDS LiveBarBuilder

CONSTANTS
    LinkChoices,        \* subset of {"steady", "flaky"}: whether connections break
    MaxFlakyQuotes,     \* bound of the model, as MaxQuotes
    ReconnectDelay,     \* reconnect_seconds
    MaxReconnectDelay,  \* max_reconnect_seconds
    BackoffFactor,      \* reconnect_backoff_factor
    Jitter,             \* reconnect_jitter_seconds
    Heartbeat           \* heartbeat_seconds

ASSUME LinkAssumption ==
    /\ LinkChoices \subseteq {"steady", "flaky"}
    /\ ReconnectDelay \in Nat \ {0} /\ MaxReconnectDelay \in Nat /\ MaxReconnectDelay >= ReconnectDelay
    /\ BackoffFactor \in Nat \ {0} /\ Jitter \in Nat /\ Heartbeat \in Nat \ {0}
    /\ MaxFlakyQuotes \in Nat

VARIABLES
    kind,          \* which of LinkChoices
    link,          \* where the collector's task is
    errors,        \* consecutive_errors
    delay,         \* ticks left of reconnect_wait
    connectedFor   \* ticks since connection_started, at most Heartbeat

linkVars == <<link, errors, delay, connectedFor>>
allVars == <<barVars, kind, linkVars>>

\* off: no task, or one that has ended; failed: ended by an exception.
LinkStates == {"off", "connecting", "open", "waiting", "failed"}

\* Beyond it more errors make no difference to the delay.
ErrorBound == MaxReconnectDelay \div ReconnectDelay + 1

\* Powers of naturals are naturals.
ASSUME PowerAssumption == \A n \in 0..ErrorBound : BackoffFactor ^ n \in Nat

-----------------------------------------------------------------------------
(* run: the reconnect loop.                                                *)

Smallest(a, b) == IF a < b THEN a ELSE b

\* _next_reconnect_delay
Backoff(n) ==
    Smallest(MaxReconnectDelay, ReconnectDelay * (IF n <= 1 THEN 1 ELSE BackoffFactor ^ (n - 1)))
Delays(n) == {Smallest(MaxReconnectDelay, Backoff(n) + j) : j \in 0..Jitter}

Connected ==
    /\ link = "connecting"
    /\ link' = "open"
    /\ UNCHANGED <<barVars, kind, errors, delay, connectedFor>>

\* The connection cannot be made, or breaks: a long one counts as the first
\* error again.  Between two messages nothing else of the engine is affected.
ConnectionError ==
    /\ kind = "flaky" /\ link \in {"connecting", "open"} /\ pc = "idle"
    /\ errors' = IF connectedFor >= Heartbeat THEN 1 ELSE Smallest(errors + 1, ErrorBound)
    /\ delay' \in Delays(errors')
    /\ link' = "waiting"
    /\ UNCHANGED <<barVars, kind, connectedFor>>

Reconnect ==
    /\ link = "waiting" /\ delay = 0 /\ ~stopping
    /\ link' = "connecting" /\ connectedFor' = 0
    /\ UNCHANGED <<barVars, kind, errors, delay>>

\* The row about an error cannot be written either, and the task ends.
TaskFails ==
    /\ kind = "flaky" /\ link \in {"connecting", "open", "waiting"} /\ pc = "idle"
    /\ link' = "failed"
    /\ UNCHANGED <<barVars, kind, errors, delay, connectedFor>>

\* _handle_message: a quote is handed to the builder; once a stop is asked for,
\* the message that was awaited is the last one.
Message ==
    /\ link = "open"
    /\ kind = "flaky" => serial < MaxFlakyQuotes
    /\ OnAnyQuote
    /\ link' = IF stopping THEN "off" ELSE "open"
    /\ UNCHANGED <<kind, errors, delay, connectedFor>>

-----------------------------------------------------------------------------
(* The engine's side.                                                      *)

\* start: a new task for the engine that has come up.
Started == link' = IF kind = "flaky" THEN "connecting" ELSE "open"

StartEngine ==
    /\ Restart
    /\ Started /\ errors' = 0 /\ delay' = 0 /\ connectedFor' = 0
    /\ UNCHANGED kind

\* stop returns once the task has ended, after five seconds by cancelling it.
StopCollector ==
    /\ pc = "idle" /\ stopping /\ leaving # <<>> /\ Head(leaving) = "collector"
    /\ link # "failed"
    /\ link' = "off" /\ leaving' = Tail(leaving)
    /\ UNCHANGED <<now, pc, quote, serial, todo, stopping, downSince, memory, files,
                   kind, errors, delay, connectedFor>>

\* stop awaits the task, so it raises what ended it, and the rest of the
\* finally clause is left out.
StopRaises ==
    /\ pc = "idle" /\ stopping /\ leaving # <<>> /\ Head(leaving) = "collector"
    /\ link = "failed"
    /\ Crash /\ link' = "off"
    /\ UNCHANGED <<kind, errors, delay, connectedFor>>

Gone ==
    /\ Crash \/ End
    /\ link' = "off" /\ UNCHANGED <<kind, errors, delay, connectedFor>>

LinkTick ==
    /\ Tick
    /\ delay' = IF delay > 0 THEN delay - 1 ELSE 0
    /\ connectedFor' = IF link \in {"connecting", "open"}
                       THEN Smallest(connectedFor + 1, Heartbeat) ELSE connectedFor
    /\ UNCHANGED <<kind, link, errors>>

LinkInit ==
    /\ BarsInit
    /\ kind \in LinkChoices
    /\ link = (IF kind = "flaky" THEN "connecting" ELSE "open")
    /\ errors = 0 /\ delay = 0 /\ connectedFor = 0

LinkNext ==
    \/ Connected \/ ConnectionError \/ Reconnect \/ TaskFails \/ Message
    \/ (Build \/ Stop \/ LastFlush) /\ UNCHANGED <<kind, linkVars>>
    \/ StopCollector \/ StopRaises \/ StartEngine \/ Gone
    \/ LinkTick

LinkSpec == LinkInit /\ [][LinkNext]_allVars

-----------------------------------------------------------------------------
LinkTypeOK ==
    /\ kind \in LinkChoices /\ link \in LinkStates
    /\ errors \in 0..ErrorBound /\ delay \in 0..MaxReconnectDelay /\ connectedFor \in 0..Heartbeat

\* Every variable has its type, a task lives only in a living engine and waits
\* only after an error, and the bars are those of LiveBarBuilder's promises.
QuotesSound ==
    /\ LinkTypeOK /\ BarsSound
    /\ pc = "down" => link = "off"
    /\ link = "waiting" => errors > 0
=============================================================================
