\* Three children; SIGHUP, SIGKILL and SIGSEGV.
CONSTANTS
    Signals = {1, 9, 11}
    MaxForks = 3
SPECIFICATION GuardSpec
CHECK_DEADLOCK FALSE
PROPERTY InitFailureEndsGuard
