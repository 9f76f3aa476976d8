---------------------------- MODULE RecordThread ----------------------------
(***************************************************************************)
(* CRecordThread: the reactor thread puts lines into the lock-free queue,  *)
(* and a thread of its own takes them out and writes them with CTimerFile  *)
(* into files that are changed by number of lines, by size and by the hour.*)
(* The clock is read in hours.  Nothing in the program calls stop() of a   *)
(* record thread, so svc() never leaves its loop.                          *)
(***************************************************************************)
EXTENDS ReaderWriterQueue

CONSTANTS
    MaxLine,   \* file_max_line, 100000 in the code
    MaxBytes,  \* file_max_size, 10 MB in the code
    LineLen,   \* the length of a line
    MaxHour,   \* bound: hours that pass
    MaxFail    \* bound: calls of fopen() and fwrite() that fail

ASSUME FileAssumption == MaxLine \in Nat \ {0} /\ MaxBytes \in Nat \ {0} /\ LineLen \in Nat \ {0}
ASSUME FaultAssumption == MaxHour \in Nat /\ MaxFail \in Nat

VARIABLES
    hour,        \* the clock
    fpc,         \* where the thread is in write_data(); "out" when it is not there
    file,        \* the files, in the order of their creation
    stream,      \* m_file_stream is open, on the last file
    line,        \* m_cur_file_line
    last_write,  \* m_last_write_time
    fails,       \* calls that have failed
    dropped      \* history: lines that were taken and not written

file_vars == <<fpc, file, stream, line, last_write, fails, dropped>>
vars == <<queue_vars, hour, file_vars>>

Init ==
    /\ QueueInit
    /\ hour = 0 /\ fpc = "out" /\ file = <<>> /\ stream = FALSE
    /\ line = 0 /\ last_write = 0 /\ fails = 0 /\ dropped = {}

Cur == Len(file)
File(step) == fpc = step /\ UNCHANGED <<queue_vars, hour>>

(* write_data() returns -1, which svc() does not look at.                  *)
Drop ==
    /\ fails < MaxFail /\ fails' = fails + 1
    /\ dropped' = dropped \cup {result}
    /\ fpc' = "done"

(* create_file(): a name with the current time, and fopen().               *)
create_file(then) ==
    \/ /\ file' = Append(file, [named |-> hour, lines |-> <<>>, bytes |-> 0])
       /\ stream' = TRUE /\ fpc' = then
       /\ UNCHANGED <<fails, dropped>>
    \/ Drop /\ stream' = FALSE /\ UNCHANGED file

(* try_dequeue() has returned a line.                                      *)
WriteData ==
    /\ rpc = "true" /\ File("out")
    /\ fpc' = IF stream THEN "check" ELSE "open"
    /\ UNCHANGED <<file, stream, line, last_write, fails, dropped>>

OpenFile ==
    /\ File("open") /\ create_file("check")
    /\ UNCHANGED <<line, last_write>>

(* Mutant: the size of the file is not looked at.                          *)
CheckFile_NoSize ==
    /\ File("check")
    /\ IF line >= MaxLine \/ hour # last_write
       THEN stream' = FALSE /\ line' = 0 /\ fpc' = "reopen"
       ELSE fpc' = "write" /\ UNCHANGED <<stream, line>>
    /\ UNCHANGED <<file, last_write, fails, dropped>>

(* check_file(): the file is closed when it has enough lines or bytes or   *)
(* was last written in another hour.                                       *)
CheckFile ==
    /\ File("check")
    /\ IF line >= MaxLine \/ file[Cur].bytes >= MaxBytes \/ hour # last_write
       THEN stream' = FALSE /\ line' = 0 /\ fpc' = "reopen"
       ELSE fpc' = "write" /\ UNCHANGED <<stream, line>>
    /\ UNCHANGED <<file, last_write, fails, dropped>>

ReopenFile ==
    /\ File("reopen") /\ create_file("write")
    /\ UNCHANGED <<line, last_write>>

Fwrite ==
    /\ File("write")
    /\ file' = [file EXCEPT ![Cur].lines = Append(@, result), ![Cur].bytes = @ + LineLen]
    /\ line' = line + 1
    /\ fpc' = "stamp"
    /\ UNCHANGED <<stream, last_write, fails, dropped>>

(* fwrite() takes fewer than all bytes.                                    *)
FwriteFails ==
    /\ File("write") /\ Drop
    /\ \E n \in 0 .. LineLen - 1 : file' = [file EXCEPT ![Cur].bytes = @ + n]
    /\ UNCHANGED <<stream, line, last_write>>

(* The time is read again after the line has been written.                 *)
Stamp ==
    /\ File("stamp") /\ fpc' = "done"
    /\ last_write' = hour
    /\ UNCHANGED <<file, stream, line, fails, dropped>>

(* Mutant: a line is written once more.                                    *)
Again_Rewrite ==
    /\ \/ rpc = "true" /\ fpc = "done" /\ UNCHANGED rpc
       \/ rpc = "false" /\ fpc = "out" /\ rpc' = "idle"
    /\ fpc' = "out"
    /\ UNCHANGED <<block, writer_vars, frontBlock, result, taken, hour>>
    /\ UNCHANGED <<file, stream, line, last_write, fails, dropped>>

(* svc() calls try_dequeue() again, at once or after its sleep.            *)
Again ==
    /\ \/ rpc = "true" /\ fpc = "done"
       \/ rpc = "false" /\ fpc = "out"
    /\ rpc' = "idle" /\ fpc' = "out"
    /\ UNCHANGED <<block, writer_vars, frontBlock, result, taken, hour>>
    /\ UNCHANGED <<file, stream, line, last_write, fails, dropped>>

Hour ==
    /\ hour < MaxHour /\ hour' = hour + 1
    /\ UNCHANGED <<queue_vars, file_vars>>

Queue(A) == A /\ UNCHANGED <<hour, file_vars>>

Record == \/ Queue(Read)
          \/ WriteData \/ OpenFile \/ CheckFile \/ ReopenFile \/ Fwrite \/ FwriteFails \/ Stamp \/ Again
Next == Queue(Enqueue) \/ Queue(Write) \/ Record \/ Hour

(* The kernel runs both threads.                                           *)
Spec == Init /\ [][Next]_vars /\ WF_vars(Queue(Write)) /\ WF_vars(Record)

-----------------------------------------------------------------------------
(* The lines that are in some file.                                        *)
Lines == UNION {Range(file[i].lines) : i \in DOMAIN file}

(* No file has more than MaxLine lines, and none goes on growing after it  *)
(* has reached MaxBytes, whatever fopen() and fwrite() do in between.      *)
FilesBounded ==
    \A i \in DOMAIN file : Len(file[i].lines) <= MaxLine /\ file[i].bytes < MaxBytes + LineLen

(* The files, read one after the other, hold the lines in the order in     *)
(* which the reactor put them, each once; what was taken and is in no file *)
(* was dropped after an error.                                             *)
WrittenInOrder ==
    /\ \A i, j \in DOMAIN file : \A k \in DOMAIN file[i].lines, l \in DOMAIN file[j].lines :
          i < j \/ (i = j /\ k < l) => file[i].lines[k] < file[j].lines[l]
    /\ fpc = "out" /\ rpc # "true" => \A i \in DOMAIN taken : rpc = "free" \/ taken[i] \in Lines \cup dropped

(* Every line that is in the queue gets to a file, unless an error drops   *)
(* it: the thread does not miss a line and sleep on.                       *)
EventuallyRecorded ==
    \A m \in 1 .. MaxPut : (m \in Range(Contents)) ~> (m \in Lines \cup dropped)
=============================================================================
