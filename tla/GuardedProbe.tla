----------------------------- MODULE GuardedProbe -----------------------------
(***************************************************************************)
(* The guarded entry point of app/main.cpp: maybe_run_guarded_entrypoint   *)
(* forks a child that runs the generated code under signal handlers and an *)
(* alarm, waits for it and reports how it ended; main then prints its OK   *)
(* line.                                                                   *)
(*                                                                         *)
(* What the generated code does is unknown: it may return, loop for ever,  *)
(* fault, or reach one of the host's own stops.  A fault or the alarm may  *)
(* also come while a handler prints; the handler of a signal is gone after *)
(* its first use (SA_RESETHAND), and only that signal is blocked meanwhile *)
(* (empty sa_mask).                                                        *)
(***************************************************************************)
EXTENDS Integers, Sequences

CONSTANTS
    Settings,    \* values GOLDENEYE_TRY_ENTRYPOINT may have
    Timeouts,    \* numbers strtoul reads from the timeout's variable, 0 if
                 \* it is not set or holds no number
    Fault,       \* SIGSEGV, SIGBUS, SIGILL and SIGABRT
    SIGALRM,
    Fatal,       \* signals without a handler, SIGFPE among them
    HostStop     \* exit statuses of the host's own stops: the pause of a
                 \* thread, the frame limit, the limit of RSP tasks

(* The host's stops end with statuses no handler exits with. *)
ASSUME ProbeAssumption ==
    /\ Settings \subseteq {"unset", "", "0", "0 and more", "other"}
    /\ Timeouts \subseteq Nat
    /\ Fault \subseteq 1..64 /\ SIGALRM \in (1..64) \ Fault
    /\ Fatal \subseteq (1..64) \ (Fault \cup {SIGALRM})
    /\ HostStop \subseteq 1..255
    /\ \A s \in Fault \cup {SIGALRM} : 128 + s \notin HostStop

Handled == Fault \cup {SIGALRM}

VARIABLES
    setting,     \* GOLDENEYE_TRY_ENTRYPOINT
    timeout,     \* what was asked for
    parent,      \* "decide", "wait" or "end"
    report,      \* the entrypoint_probe line
    child,       \* "none", "entry", "threads", "summary" or "dead"
    handling,    \* the signals whose handlers the child is in, latest last
    installed,   \* the signals that still have the handler
    armed,       \* whether the alarm is set
    status,      \* the child's wait status
    events       \* history: what befell the child, in order: returns of the
                 \* entry (1) and the threads (2), signals, a stop

probeVars == <<setting, timeout, parent, report, child, handling, installed,
          armed, status, events>>

inputs == <<setting, timeout>>

NoStatus == <<"none", 0>>

(* entrypoint_probe_requested *)
Requested == setting = "other"

(* A wrong form: only one of the values that ask for the probe. *)
LookupEnabledByOne == setting = "0 and more"

(* entrypoint_dispatch_enabled of runtime.cpp, on which the lookup of the
   entry point depends. *)
LookupEnabled == setting \notin {"unset", "", "0"}

(* A wrong form: zero seconds, which set no alarm, are accepted. *)
SecondsOrZero(asked) == IF asked <= 60 THEN asked ELSE 2

(* entrypoint_probe_timeout_seconds *)
Seconds(asked) == IF asked \in 1..60 THEN asked ELSE 2

ProbeInit ==
    /\ setting \in Settings
    /\ timeout \in Timeouts
    /\ parent = "decide"
    /\ report = NoStatus
    /\ child = "none"
    /\ handling = <<>>
    /\ installed = {}
    /\ armed = FALSE
    /\ status = NoStatus
    /\ events = <<>>

-----------------------------------------------------------------------------
(* The parent. *)
Ends(line) == parent' = "end" /\ report' = line

childvars == <<child, handling, installed, armed, status, events>>

SkipProbe ==
    /\ parent = "decide" /\ ~Requested
    /\ Ends(<<"skipped", 0>>)
    /\ UNCHANGED <<inputs, childvars>>

(* Either the entry point is not found, or there is no process to be had. *)
ForkFails ==
    /\ parent = "decide" /\ Requested
    /\ Ends(IF LookupEnabled THEN <<"fork_failed", 0>>
            ELSE <<"lookup_not_enabled", 0>>)
    /\ UNCHANGED <<inputs, childvars>>

(* fork, and the child's preparations, which no signal can interrupt: the
   alarm is set last. *)
Fork ==
    /\ parent = "decide" /\ Requested /\ LookupEnabled
    /\ parent' = "wait"
    /\ child' = "entry"
    /\ installed' = Handled
    /\ armed' = (Seconds(timeout) # 0)
    /\ UNCHANGED <<inputs, report, handling, status, events>>

(* waitpid comes back when the child is dead.  The parent installs no
   handler that could interrupt it, so it fails only when there is no child
   left to wait for (the process ignores its children: ECHILD). *)
Wait ==
    /\ parent = "wait" /\ child = "dead"
    /\ Ends(status) \/ Ends(<<"waitpid_failed", 0>>)
    /\ UNCHANGED <<inputs, childvars>>

-----------------------------------------------------------------------------
(* The child. *)
Alive == child \notin {"none", "dead"}

Dies(how) ==
    /\ child' = "dead"
    /\ status' = how
    /\ armed' = FALSE

Happens(event) == events' = Append(events, event)

EntryReturns ==
    /\ child = "entry" /\ handling = <<>>
    /\ child' = "threads"
    /\ Happens(<<"returned", 1>>)
    /\ UNCHANGED <<inputs, parent, report, handling, installed, armed, status>>

(* The loop over the started threads is over. *)
ThreadsReturn ==
    /\ child = "threads" /\ handling = <<>>
    /\ child' = "summary"
    /\ Happens(<<"returned", 2>>)
    /\ UNCHANGED <<inputs, parent, report, handling, installed, armed, status>>

Exit ==
    /\ child = "summary" /\ handling = <<>>
    /\ Dies(<<"exit", 0>>)
    /\ UNCHANGED <<inputs, parent, report, handling, installed, events>>

(* The generated code reaches a stop of the host's. *)
Stop(code) ==
    /\ child \in {"entry", "threads"} /\ handling = <<>>
    /\ Dies(<<"exit", code>>)
    /\ Happens(<<"stop", code>>)
    /\ UNCHANGED <<inputs, parent, report, handling, installed>>

(* A signal is delivered: its handler starts, and loses its installation;
   or there is none any more and the child is killed. *)
Deliver(s) ==
    /\ Happens(<<"signal", s>>)
    /\ IF s \in installed
       THEN /\ handling' = Append(handling, s)
            /\ installed' = installed \ {s}
            /\ armed' = (armed /\ s # SIGALRM)
            /\ UNCHANGED <<child, status>>
       ELSE /\ Dies(<<"signal", s>>)
            /\ UNCHANGED <<handling, installed>>
    /\ UNCHANGED <<inputs, parent, report>>

(* The generated code faults, or a handler does. *)
Faults(s) ==
    /\ child \in {"entry", "threads"} \/ (Alive /\ handling # <<>>)
    /\ Deliver(s)

AlarmRings ==
    /\ Alive /\ armed
    /\ Deliver(SIGALRM)

(* A wrong form: the status tells the first signal. *)
FirstHandlerExits ==
    /\ Alive /\ handling # <<>>
    /\ Dies(<<"exit", 128 + handling[1]>>)
    /\ UNCHANGED <<inputs, parent, report, handling, installed, events>>

(* The handler that started last ends first, and the process with it. *)
HandlerExits ==
    /\ Alive /\ handling # <<>>
    /\ Dies(<<"exit", 128 + handling[Len(handling)]>>)
    /\ UNCHANGED <<inputs, parent, report, handling, installed, events>>

ProbeNext ==
    \/ SkipProbe \/ ForkFails \/ Fork \/ Wait
    \/ EntryReturns \/ ThreadsReturn \/ Exit
    \/ \E code \in HostStop : Stop(code)
    \/ \E s \in Fault \cup Fatal : Faults(s)
    \/ AlarmRings \/ HandlerExits

(* The parent and the straight-line code of the child go on, an alarm that
   is set rings; the generated code owes nothing. *)
ProbeSpec ==
    /\ ProbeInit /\ [][ProbeNext]_probeVars
    /\ WF_probeVars(SkipProbe \/ ForkFails \/ Fork \/ Wait)
    /\ WF_probeVars(AlarmRings) /\ WF_probeVars(Exit) /\ WF_probeVars(HandlerExits)

-----------------------------------------------------------------------------
Statuses ==
    {NoStatus} \cup ({"exit"} \X (0..255)) \cup ({"signal"} \X (Handled \cup Fatal))

ProbeTypeOK ==
    /\ setting \in Settings /\ timeout \in Timeouts
    /\ parent \in {"decide", "wait", "end"}
    /\ report \in Statuses \cup ({"skipped", "lookup_not_enabled",
                                  "fork_failed", "waitpid_failed"} \X {0})
    /\ parent = "end" <=> report # NoStatus
    /\ child \in {"none", "entry", "threads", "summary", "dead"}
    /\ handling \in Seq(Handled)
    /\ installed \subseteq Handled
    /\ armed \in BOOLEAN
    /\ status \in Statuses

Last == events[Len(events)]

Signals == {s \in Handled \cup Fatal :
               \E k \in 1..Len(events) : events[k] = <<"signal", s>>}

(* What the parent reports says why the child ended, whatever signals met
   on the way: status 0 that the entry point and the threads returned and
   nothing else happened, 128 + s that signal s came last, a host stop's
   status that the stop was reached and no signal came before it, and a
   death by signal s that s came last, while it was handled already or
   without there being a handler. *)
ReportIdentifiesCause ==
    /\ ProbeTypeOK
    /\ parent = "end" =>
          /\ report = <<"exit", 0>> =>
                events = <<<<"returned", 1>>, <<"returned", 2>>>>
          /\ \A s \in Handled : report = <<"exit", 128 + s>> =>
                Last = <<"signal", s>>
          /\ \A code \in HostStop : report = <<"exit", code>> =>
                Last = <<"stop", code>> /\ Signals = {}
          /\ \A s \in Handled \cup Fatal : report = <<"signal", s>> =>
                /\ Last = <<"signal", s>>
                /\ s \in Handled <=>
                      \E k \in 1..(Len(events) - 1) : events[k] = Last

(* The two readings of the same variable, one in main.cpp and one in
   runtime.cpp, never contradict each other so that a probe asked for is
   turned away by the lookup. *)
LookupNeverRefuses == report[1] # "lookup_not_enabled"

(* Whatever the generated code does, main comes to its last line. *)
ProbeEnds == <>(parent = "end")
=============================================================================
