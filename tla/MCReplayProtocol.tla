-------------------------- MODULE MCReplayProtocol --------------------------
EXTENDS ReplayProtocol

CONSTANTS getpid, read, stat, vfork

AllSyscalls == {getpid, read, stat, vfork}

\* No data; more chunks than the socket holds; two reads, one of them empty; no
\* handler
Reads == (getpid :> <<>>) @@ (read :> <<6>>) @@ (stat :> <<0, 3>>) @@ (vfork :> <<>>)
Handled == {getpid, read, stat}

AllInsts == {"plain", "int3", "jmp", "rdtsc", "int80", "vdso", "call", "calln", "ret"}
=============================================================================
