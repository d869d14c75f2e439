-------------------------------- MODULE Guard --------------------------------
(***************************************************************************)
(* The guard process (config/Config.cpp, Config::init, with -d -g): a loop *)
(* that forks a child, waits for its end and forks again.  The child goes  *)
(* on to load the configuration and to run main(); its wait status is its  *)
(* exit code times 256, or the signal that killed it.                      *)
(***************************************************************************)
EXTENDS Naturals

CONSTANTS
    Signals,      \* signals that may kill the child
    MaxForks      \* bound: calls of fork()

VARIABLES
    guard,        \* "loop", "wait" or "exited"
    waitsFor,     \* the result of fork(): "child" or "nobody"
    child,        \* "none", "init", "run" or, until it is waited for, "ended"
    status,       \* the wait status of the child that ended
    title,        \* whether the command line shows the title of the guard
    forks,        \* calls of fork()
    ending        \* history: how the last child ended

guardVars == <<guard, waitsFor, child, status, title, forks, ending>>

GuardInit ==
    /\ guard = "loop" /\ waitsFor = "nobody"
    /\ child = "none" /\ status = 0
    /\ title = FALSE /\ forks = 0 /\ ending = "none"

\* fork(): -1, when it fails, is taken for the pid of a child.
Fork(result) ==
    /\ guard = "loop" /\ forks < MaxForks
    /\ guard' = "wait" /\ waitsFor' = result
    /\ child' = IF result = "child" THEN "init" ELSE child
    /\ status' = 0
    /\ title' = TRUE
    /\ forks' = forks + 1
    /\ UNCHANGED ending

\* The end of the child with a wait status.
Ends(st, how) ==
    /\ child' = "ended" /\ status' = st /\ ending' = how
    /\ UNCHANGED <<guard, waitsFor, title, forks>>

\* main() returns 1 when init_runtime_environment fails.
InitFails == child = "init" /\ Ends(256 * 1, "init")

InitDone ==
    /\ child = "init" /\ child' = "run"
    /\ UNCHANGED <<guard, waitsFor, status, title, forks, ending>>

\* main() returns 0 at the end of its loop, and when no service starts.
Stops == child = "run" /\ Ends(0, "run")

\* A signal kills the child: SIGHUP (1) only before its handler is installed.
Killed(sig) ==
    /\ \/ child = "init"
       \/ child = "run" /\ sig # 1
    /\ Ends(sig, IF child = "init" THEN "init" ELSE "run")

\* waitpid returns, at once when there is no child.
Waited ==
    /\ guard = "wait"
    /\ waitsFor = "child" => child = "ended"
    /\ child' = "none"
    /\ guard' = IF waitsFor = "child" /\ status = 1 THEN "exited" ELSE "loop"
    /\ title' = (guard' = "exited")
    /\ UNCHANGED <<waitsFor, status, forks, ending>>

GuardNext ==
    \/ \E result \in {"child", "nobody"} : Fork(result)
    \/ InitFails \/ InitDone \/ Stops
    \/ \E sig \in Signals : Killed(sig)
    \/ Waited

GuardSpec == GuardInit /\ [][GuardNext]_guardVars

-----------------------------------------------------------------------------
\* "status == 1 means childProcess exit on init stage" (Config.cpp, line 56):
\* when the child ends in its init stage the guard exits, and starts no other
\* child.
InitFailureEndsGuard ==
    [][forks' > forks => ending # "init"]_guardVars
=============================================================================
