------------------------------- MODULE Storage -------------------------------
(***************************************************************************)
(* What the bridge keeps in flash across restarts: freeze frames           *)
(* (lib/freezeframe, on the loop task), files uploaded by HTTP (lib/network*)
(* /httpserver.cpp, one callback of async_tcp per chunk) and the counts of *)
(* restarts (src/main.cpp).  A restart may come between any two steps.     *)
(*                                                                         *)
(* Space is counted in chunks, and the line of a freeze frame takes one    *)
(* too.  logFreezeFrame() writes a name of 31 letters to an array of 30:   *)
(* what comes of that is nothing, or a restart once the line is written.   *)
(***************************************************************************)
EXTENDS Integers, Sequences, FiniteSetsExt

CONSTANTS
  Alarms,      \* bits of the two engine status words
  Uploads,     \* requests of HTTP clients
  Paths,       \* of files; "unsafe" is one that isSafeToUploadPath() rejects
  Reasons,     \* esp_reset_reason()
  Space,       \* of the flash
  Chunks,      \* bound of the model: chunks of an upload
  MaxRestarts  \* bound of the model

ASSUME StorageAssumption == Chunks \in Nat \ {0} /\ "none" \notin Uploads

VARIABLES
  status,      \* N2KFreezeFrame::status1 and status2, as the set of their bits
  frames,      \* lines written
  framed,      \* history: alarms in a line written since they were set
  unwritten,   \* history: alarms of which the line could not be written
  files,       \* the chunks in each file, or None
  upload,      \* of each request: path, chunks got, _tempFile is open, retCode;
               \*   history: it was opened, and nobody else has changed the file
  nvs, counts, \* preferences "boot", and _bootResetCounts
  recorded,    \* history: the reasons whose count was read from flash, or written there
  clearing,    \* reasons clearBootReasons() has still to clear
  restarts

frameVars   == <<status, frames, framed, unwritten>>
fileVars    == <<files, upload>>
bootVars    == <<nvs, counts, recorded, clearing, restarts>>
storageVars == <<frameVars, fileVars, bootVars>>

None == <<<<"none", 0>>>>   \* no chunk of any request
Size(file) == IF file = None THEN 0 ELSE Len(file)
Free == Space - frames - MapThenSumSet(LAMBDA path : Size(files[path]), Paths)

LoopFree == clearing = {}   \* clearBootReasons() is on the loop task, like the frames

----------------------------------------------------------------------------
(* Freeze frames. *)

\* logFreezeFrame(): a line with these alarms, if the file can be opened and there is room.
LogFreezeFrame(alarms) ==
  \/ /\ Free > 0
     /\ frames' = frames + 1
     /\ framed' = (framed \cap status') \cup alarms
     /\ unwritten' = (unwritten \cap status') \ alarms
  \/ /\ framed' = framed \cap status'
     /\ unwritten' = status' \ framed'
     /\ UNCHANGED frames

\* evaluateStatus(): bits newly set
BitsSet(new) == new \ status

\* Mutant of Logged: the line is written before the status words are kept.
LoggedBefore(new) == status
Logged(new) == new

\* handle() of PGN 127489
Handle127489(new) ==
  /\ LoopFree
  /\ status' = new
  /\ IF BitsSet(new) # {}
       THEN LogFreezeFrame(Logged(new))
       ELSE /\ framed' = framed \cap new
            /\ unwritten' = unwritten \cap new
            /\ UNCHANGED frames
  /\ UNCHANGED <<fileVars, bootVars>>

\* CheckCommand(): 'f'
ConsoleF ==
  /\ LoopFree
  /\ UNCHANGED status
  /\ LogFreezeFrame(status)
  /\ UNCHANGED <<fileVars, bootVars>>

----------------------------------------------------------------------------
(* POST /api/fs.json *)

NoUpload == [path |-> "", got |-> 0, open |-> FALSE, code |-> 400, opened |-> FALSE, alone |-> TRUE]

\* The first chunk: the answer is settled and the file opened, which may fail.
Opened(r, path, ok) ==
  IF path = "unsafe" THEN [NoUpload EXCEPT !.path = path]
  ELSE [path |-> path, got |-> 0, open |-> ok, code |-> IF files[path] = None THEN 201 ELSE 200,
        opened |-> ok,
        alone |-> \A q \in Uploads \ {r} : upload[q].path # path \/ ~upload[q].open]

\* Mutant of Written: an upload that ran out of room goes on.
WrittenOn(u, ok) == [u EXCEPT !.got = @ + 1, !.open = @ /\ u.got + 1 < Chunks]
\* A chunk that is not written whole ends the writing; the last one closes the file.
Written(u, ok) ==
  [u EXCEPT !.got = @ + 1,
            !.code = IF u.open /\ ~ok THEN 500 ELSE @,
            !.open = @ /\ ok /\ u.got + 1 < Chunks]

\* The files after request r has had a chunk.  What of one that does not fit is there
\* all the same is left out, and a file deleted meanwhile takes no more.
Stored(r, u, ok) ==
  IF ~u.open THEN files
  ELSE LET file == IF u.got = 0 THEN <<>> ELSE files[u.path]
       IN  [files EXCEPT ![u.path] = IF ok THEN Append(file, <<r, u.got + 1>>) ELSE file]

\* Other requests at the same file are not alone with it any more.
Shared(r, path) ==
  [q \in Uploads |-> [upload[q] EXCEPT !.alone = @ /\ (q = r \/ upload[q].path # path)]]

Chunk(r) ==
  \E path \in (IF upload[r].got = 0 THEN Paths \cup {"unsafe"} ELSE {upload[r].path}), ok \in BOOLEAN :
    LET first == upload[r].got = 0
        begun == IF first THEN Opened(r, path, ok) ELSE upload[r]
        room  == IF first THEN begun.open /\ Free + Size(files[path]) > 0
                 ELSE begun.open /\ files[path] # None /\ Free > 0
    IN
    /\ upload[r].got < Chunks /\ (first \/ ok)
    /\ files' = Stored(r, begun, room)
    /\ upload' = [Shared(r, path) EXCEPT ![r] = Written(begun, room)]
    /\ UNCHANGED <<frameVars, bootVars>>

\* The answer has gone out, or the client went away: the request is deleted.
Gone(r) ==
  /\ upload[r].got > 0
  /\ upload' = [upload EXCEPT ![r] = NoUpload]
  /\ UNCHANGED <<files, frameVars, bootVars>>

\* op=delete
Delete(path) ==
  /\ files[path] # None
  /\ files' = [files EXCEPT ![path] = None]
  /\ upload' = Shared("none", path)
  /\ UNCHANGED <<frameVars, bootVars>>

----------------------------------------------------------------------------
(* Restarts. *)

\* Mutant of Recorded: the counts are read before this restart is added.
RecordedLate(reason) == counts' = nvs
Recorded(reason) == counts' = nvs'

\* recordBootReason(), first thing in setup(): the preferences may not open, and a count may not
\* be written.
Restart(reason) ==
  /\ restarts < MaxRestarts
  /\ restarts' = restarts + 1
  /\ \/ /\ nvs' \in {nvs, [nvs EXCEPT ![reason] = @ + 1]}
        /\ Recorded(reason) /\ recorded' = Reasons
     \/ counts' = [r \in Reasons |-> 0] /\ recorded' = {} /\ UNCHANGED nvs
  /\ clearing' = {}
  /\ status' = {} /\ framed' = {} /\ unwritten' = {}
  /\ upload' = [r \in Uploads |-> NoUpload]
  /\ UNCHANGED <<frames, files>>

\* CheckCommand(): 'C', and clearBootReasons() key by key
ConsoleC ==
  /\ LoopFree
  /\ clearing' = Reasons
  /\ UNCHANGED <<nvs, counts, recorded, restarts, frameVars, fileVars>>

\* The count shown is cleared also where the one in flash is not written.
ClearReason(reason) ==
  /\ reason \in clearing
  /\ \/ nvs' = [nvs EXCEPT ![reason] = 0] /\ recorded' = recorded \cup {reason}
     \/ recorded' = recorded \ {reason} /\ UNCHANGED nvs
  /\ counts' = [counts EXCEPT ![reason] = 0]
  /\ clearing' = clearing \ {reason}
  /\ UNCHANGED <<restarts, frameVars, fileVars>>

FlashStep ==
  \/ \E new \in SUBSET Alarms : Handle127489(new)
  \/ ConsoleF
  \/ \E r \in Uploads : Chunk(r) \/ Gone(r)
  \/ \E path \in Paths : Delete(path)

BootStep ==
  \/ ConsoleC
  \/ \E reason \in Reasons : Restart(reason) \/ ClearReason(reason)

StorageInit ==
  /\ status = {} /\ frames = 0 /\ framed = {} /\ unwritten = {}
  /\ files = [path \in Paths |-> None]
  /\ upload = [r \in Uploads |-> NoUpload]
  /\ nvs = [r \in Reasons |-> 1] /\ counts = nvs   \* of boots before
  /\ recorded = Reasons /\ clearing = {} /\ restarts = 0

----------------------------------------------------------------------------
(* Properties. *)

\* Every alarm the engine reports now has a line in which it is set, written since it
\* rose or the bridge restarted, unless the flash would not take it; whether it rose
\* alone or with others, once or again, and whatever uploads did to the flash.
AlarmsFramed == status \subseteq framed \cup unwritten

\* An upload that has come to its end and will be answered with success has its file
\* filled with just what was sent, in order - if the file could be opened, and no
\* other request has touched it.
SavedIsWhole ==
  \A r \in Uploads :
    LET u == upload[r]
    IN  u.got = Chunks /\ u.code < 400 /\ u.opened /\ u.alone =>
          files[u.path] = [i \in 1 .. Chunks |-> <<r, i>>]

\* A count of restarts on the console is the one in flash, which the next boot will go on from,
\* even when a restart came in the middle of clearing them - unless the preferences did not
\* open at the boot, or took no 0 when the count was cleared.
AuditTrail == \A reason \in recorded : counts[reason] = nvs[reason]

\* What is said to be in flash, an upload or a count, is there, with the exceptions of the two.
FlashTrue == SavedIsWhole /\ AuditTrail
=============================================================================
