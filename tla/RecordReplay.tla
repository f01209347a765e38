---------------------------- MODULE RecordReplay ----------------------------
(***************************************************************************)
(* Recording and replaying end to end: the threads of Logger record until  *)
(* the process exits or is killed, then the replayer reads the log file of *)
(* one of them with LogReader.                                             *)
(***************************************************************************)
EXTENDS Logger, LogReader

VARIABLES
  who,    \* the thread that is replayed
  phase   \* "record", "exited" or "killed"

rrVars == <<vars, who, phase, fileVars, readerVars>>

RRInit ==
  /\ Init
  /\ who \in Threads
  /\ phase = "record"
  /\ blocks = <<>> /\ whole = 0 /\ ends = {}
  /\ ReaderInit

Recording ==
  /\ phase = "record"
  /\ Next
  /\ UNCHANGED <<who, phase, fileVars, readerVars>>

\* The recorder is gone, and the replayer opens the file it has left.
Opens(p) ==
  /\ phase = "record"
  /\ phase' = p
  /\ blocks' = file'[who]
  /\ ends' = bounds'[who]
  /\ UNCHANGED <<who, readerVars>>

\* The process has ended by exit_group, a fatal signal or a failed assertion.
Ended ==
  /\ ~Alive
  /\ UNCHANGED vars
  /\ Opens("exited")
  /\ whole' = Len(file[who])

\* SIGKILL between two steps
Killed ==
  /\ Alive
  /\ UNCHANGED vars
  /\ Opens("killed")
  /\ whole' = Len(file[who])

\* SIGKILL inside a step that writes to the file: only the first of the blocks
\* it writes are complete.
KilledWriting ==
  /\ phase = "record"
  /\ Next
  /\ file'[who] # file[who]
  /\ Opens("killed")
  /\ whole' \in Len(file[who]) .. (Len(file'[who]) - 1)

Replaying ==
  /\ phase # "record"
  /\ ReadNext
  /\ UNCHANGED <<vars, who, phase>>

RRNext == Recording \/ Ended \/ Killed \/ KilledWriting \/ Replaying

RRSpec == RRInit /\ [][RRNext]_rrVars

-----------------------------------------------------------------------------
(* Properties                                                              *)

\* The replayer reads what the thread logged, from the start and in order, also
\* when the recorder was killed anywhere, even inside a write.
ReplayIsLog ==
  phase # "record" /\ ~torn[who] => \E n \in 0 .. Len(logged[who]) : got = SubSeq(logged[who], 1, n)

\* When the thread itself ended the process and the replayer reports the end,
\* the replayer has read the whole log.
ReplayComplete ==
  phase = "exited" /\ rpc = "end" /\ pc[who] = "dead" /\ ~torn[who] =>
    got = logged[who]

\* The replayer reports a log that was not torn as corrupted only where
\* flush_all_logger wrote an empty block (unaligned readahead, replay_log.c).
CorruptOnlyEmpty ==
  phase # "record" /\ ~torn[who] /\ rpc = "corrupt" =>
    \E i \in 1 .. whole : blocks[i].data = <<>>

=============================================================================
