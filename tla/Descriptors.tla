---------------------------- MODULE Descriptors ----------------------------
(***************************************************************************)
(* The socket descriptors of the process, which all its connections share: *)
(* socket(2), shutdown(2) and close(2).                                    *)
(***************************************************************************)
EXTENDS Integers

CONSTANT Fds       \* descriptor numbers, naturals

VARIABLE fds       \* [Fds -> States]

NoFd == -1

States == {"free", "stream", "stream_shut", "dgram", "dgram_shut"}

\* socket() returns the lowest number that is free.
IsLowest(f) == fds[f] = "free" /\ \A d \in Fds : d < f => fds[d] # "free"
NoneFree == \A f \in Fds : fds[f] # "free"

Open(f, kind) == fds' = [fds EXCEPT ![f] = kind]

\* Of a descriptor that is not open, shutdown() and close() only fail.
WhenShut(s) ==
    CASE s = "stream" -> "stream_shut" [] s = "dgram" -> "dgram_shut" [] OTHER -> s
Shutdown(f) == fds' = [d \in Fds |-> IF d = f THEN WhenShut(fds[d]) ELSE fds[d]]
Release(f)  == fds' = [d \in Fds |-> IF d = f THEN "free" ELSE fds[d]]
=============================================================================
