------------------------------- MODULE LogFile -------------------------------
(* log.c: records written to the console and to a file that is put aside    *)
(* when it has reached its limit.  A record is the number of its call; a    *)
(* file is the sequence of the records in it.                               *)
EXTENDS Integers, Sequences, SequencesExt

CONSTANTS
    LogSizes,        \* lengths a record may have
    LogLimits,       \* maxsize given to log_start
    OldSizes,        \* length of the file found at the start, 0: none
    MaxRecords       \* bound: calls that log

LogLevels == 0..5                        \* TRACE .. OFF
ASSUME LogAssumption == /\ LogSizes \subseteq Nat \ {0} /\ MaxRecords \in Nat
                        /\ LogLimits \subseteq Nat /\ OldSizes \subseteq Nat

VARIABLES
    log,             \* the statics of log.c
    disk,            \* the log file, the backup, and the file found at the start
    console,         \* records shown
    wanted           \* ghost: records of an enabled level, in order, with a file open

logVars == <<log, disk, console, wanted>>

LogInit ==
    /\ log = [level |-> 1, console |-> TRUE, fp |-> "none", cur |-> 0, max |-> 0,
              calls |-> 0]
    /\ disk = [file |-> <<>>, bak |-> <<>>]
    /\ console = <<>>
    /\ wanted = <<>>

(* A file pointer closed and not opened again is used by the next write.    *)
Defined == log.fp # "closed"

log_set_level(l) ==
    /\ Defined /\ log.level # l
    /\ log' = [log EXCEPT !.level = l]
    /\ UNCHANGED <<disk, console, wanted>>

log_disable_console ==
    /\ Defined /\ log.console
    /\ log' = [log EXCEPT !.console = FALSE]
    /\ UNCHANGED <<disk, console, wanted>>

(* The file is opened at its end, or created; it may not be openable.  A    *)
(* second call does nothing while the file is open.  Behind a replacement   *)
(* that failed (cur is then at the limit) there is no old file.             *)
log_start(old, max) ==
    /\ log.fp = "none"
    /\ log.cur > 0 => old = 0
    /\ log' = [log EXCEPT !.fp = "open", !.cur = old, !.max = max]
    /\ UNCHANGED <<disk, console, wanted>>

_check_disabled(l) == l < log.level \/ (~log.console /\ log.fp = "none")
_check_log_size == log.fp = "open" /\ log.cur >= log.max

\* Mutant: the file is copied to the backup and opened again at its end.
CopiedAside == [disk EXCEPT !.bak = disk.file]

(* _log_truncate: the backup goes, the file takes its name, a new file is   *)
(* opened.  When the rename fails the file stays where it was, closed.  The *)
(* length of the file is not set back.                                      *)
Renamed == [disk EXCEPT !.bak = disk.file, !.file = <<>>]
NotRenamed == [disk EXCEPT !.bak = <<>>]

Written(d, id) == [d EXCEPT !.file = Append(@, id)]

Record(size) == /\ log' = [log EXCEPT !.calls = @ + 1,
                                      !.cur = @ + (IF log.fp = "open" THEN size ELSE 0)]
                /\ console' = IF log.console THEN Append(console, log.calls + 1) ELSE console

(* log_format, log_hex, log_text and log_dump, which differ in the text.    *)
log_format(l, size) ==
    /\ Defined /\ log.calls < MaxRecords
    /\ IF _check_disabled(l)
       THEN /\ log' = [log EXCEPT !.calls = @ + 1]
            /\ UNCHANGED <<disk, console, wanted>>
       ELSE \/ /\ ~_check_log_size
               /\ Record(size)
               /\ disk' = IF log.fp = "open" THEN Written(disk, log.calls + 1) ELSE disk
               /\ wanted' = IF log.fp = "open" THEN Append(wanted, log.calls + 1) ELSE wanted
            \/ /\ _check_log_size
               /\ Record(size)
               /\ disk' = Written(Renamed, log.calls + 1)
               /\ wanted' = Append(wanted, log.calls + 1)
            \/ /\ _check_log_size                     \* the new file cannot be opened
               /\ disk' = Renamed
               /\ log' = [log EXCEPT !.fp = "none", !.calls = @ + 1]
               /\ console' = IF log.console THEN Append(console, log.calls + 1) ELSE console
               /\ UNCHANGED wanted
            \/ /\ _check_log_size
               /\ disk' = NotRenamed
               /\ log' = [log EXCEPT !.fp = "closed", !.calls = @ + 1]
               /\ UNCHANGED <<console, wanted>>

LogNext ==
    \/ \E l \in {1, 3} : log_set_level(l)
    \/ log_disable_console
    \/ \E old \in OldSizes, max \in LogLimits : log_start(old, max)
    \/ \E l \in {1, 2, 4}, size \in LogSizes : log_format(l, size)

LogSpec == LogInit /\ [][LogNext]_logVars

-----------------------------------------------------------------------------
(* Whatever replacements fail to open a new file, the backup and the file   *)
(* hold together the last records of an enabled level: none is missing      *)
(* between two others, none is there twice, and the latest is among them.   *)
(* Not once a file was closed and could not be renamed: its pointer is used *)
(* after that.                                                              *)
LogKeepsOrder ==
    Defined => /\ IsSuffix(disk.bak \o disk.file, wanted)
               /\ wanted # <<>> => disk.bak \o disk.file # <<>>
=============================================================================
