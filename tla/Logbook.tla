------------------------------- MODULE Logbook -------------------------------
(***************************************************************************)
(* The logbook (lib/logbook): a file for each day, of which the newest are *)
(* kept.  The day is whatever the bus says it is, so that it may jump.     *)
(*                                                                         *)
(* Space and the sizes of files are counted in records, and the line of    *)
(* headings is one.  A call less than logPeriod after the last does        *)
(* nothing and is not a step.  setup() switches the logbook off            *)
(* (src/main.cpp:816); it is modelled as if it were on.                    *)
(***************************************************************************)
EXTENDS Integers, FiniteSetsExt, Functions

CONSTANTS
  Days,                     \* dates, in the order of the names of their files
  LOGBOOK_MAX_DAYS,
  MAX_SCAN,                 \* directory entries one pass looks at
  LOGBOOK_MAX_FILE_RECORDS, \* LOGBOOK_MAX_FILE_BYTES
  LOGBOOK_SPIFFS_MIN_FREE,
  TotalRecords              \* SPIFFS.totalBytes()

\* A pass looks at more files than are kept, and what log() begins a file with fits into it.
ASSUME LogbookAssumption ==
  /\ Days \subseteq Nat
  /\ LOGBOOK_MAX_DAYS \in Nat /\ MAX_SCAN \in Nat /\ MAX_SCAN > LOGBOOK_MAX_DAYS
  /\ LOGBOOK_MAX_FILE_RECORDS \in Nat /\ LOGBOOK_MAX_FILE_RECORDS >= 2

VARIABLES
  logs,      \* /logbook: the records in the file of each day that has one
  otherUse   \* of the flash, by everything else

logbookVars == <<logs, otherUse>>

UsedRecords == otherUse + SumFunction(logs)
haveSpiffsHeadroom == TotalRecords - UsedRecords > LOGBOOK_SPIFFS_MIN_FREE

Newer(day, names) == {other \in names : other > day}

\* Mutant of Victims: the names are sorted the other way.
VictimsNewest(names) == {day \in names : Cardinality(names \ Newer(day, names)) > LOGBOOK_MAX_DAYS}
\* Of the names found, all but the newest LOGBOOK_MAX_DAYS.
Victims(names) == {day \in names : Cardinality(Newer(day, names)) >= LOGBOOK_MAX_DAYS}

\* rotateLogFiles(), which sees the first MAX_SCAN files in the order of the directory
RotateLogFiles ==
  LET found == DOMAIN logs
      scan  == Min({Cardinality(found), MAX_SCAN})
  IN  {Restrict(logs, found \ Victims(names)) : names \in kSubset(scan, found)}

\* log() of a day that has no file: older files go whether the new one can be opened or not.
LogFirst(day) ==
  /\ day \notin DOMAIN logs
  /\ \E kept \in RotateLogFiles :
       \/ logs' = kept
       \/ logs' = [d \in DOMAIN kept \cup {day} |-> IF d = day THEN 2 ELSE kept[d]]

\* log() of a day that has one, which is full at its cap
LogNext(day) ==
  /\ day \in DOMAIN logs /\ logs[day] < LOGBOOK_MAX_FILE_RECORDS
  /\ logs' = [logs EXCEPT ![day] = @ + 1]

Log(day) ==
  /\ haveSpiffsHeadroom
  /\ LogFirst(day) \/ LogNext(day)
  /\ UNCHANGED otherUse

\* Uploads, freeze frames and what else is in flash.
OtherWrites ==
  /\ otherUse' \in 0 .. TotalRecords - SumFunction(logs)
  /\ UNCHANGED logs

LogbookStep == OtherWrites \/ \E day \in Days : Log(day)

LogbookInit == logs = <<>> /\ otherUse = 0

----------------------------------------------------------------------------
(* Properties. *)

\* Whatever days the bus jumps between and whatever else fills the flash: files are removed
\* oldest first and only down to the limit, there is never more than one above it, no
\* file outgrows its cap, and a record once written stays as long as its file.
LogsRetained ==
  [][LET kept == DOMAIN logs \cap DOMAIN logs'
         gone == DOMAIN logs \ DOMAIN logs'
     IN  /\ Cardinality(DOMAIN logs') <= LOGBOOK_MAX_DAYS + 1
         /\ \A old \in gone, new \in kept : old < new
         /\ gone # {} => Cardinality(kept) = LOGBOOK_MAX_DAYS
         /\ \A day \in kept : logs'[day] >= logs[day]
         /\ \A day \in DOMAIN logs' : logs'[day] <= LOGBOOK_MAX_FILE_RECORDS
    ]_logs
=============================================================================
