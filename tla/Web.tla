--------------------------------- MODULE Web ---------------------------------
(***************************************************************************)
(* The requests WebServer::init() registers handlers for, each served from *)
(* start to end by async_tcp: which answers are sent and what is done.     *)
(* The text of an answer is left out.  An upload is one step, its callback *)
(* for every chunk and then its handler; what comes between the chunks is  *)
(* in Storage.  The streams are in SeasmartStream.                         *)
(*                                                                         *)
(* setup() gives the callbacks before init(), so that none is NULL.        *)
(***************************************************************************)
EXTENDS Sequences

VARIABLES
  webFiles,   \* in flash
  mounted,    \* SPIFFS
  busOpen,    \* canUp
  served      \* the last request, the answers sent to it and what was done

webVars == <<webFiles, mounted, busOpen, served>>

Pages == {"/index.html", "/layout-a.json"}
Climbing == "/../any"            \* any path with ".."
NotAbsolute == "any"             \* one without a slash, or empty, or with a NUL in it
Absent == "none"                 \* a parameter the request does not have
WebPaths ==
  Pages \cup {"/logbook/any", "/freezeframe/any", "/config.txt", Climbing, NotAbsolute}

isProtectedPath(path) == path \in {"/logbook/any", "/freezeframe/any", "/config.txt", Climbing}
isSafeWritablePath(path) == path \notin {"/config.txt", Climbing, NotAbsolute}
isSafeToUploadPath(path) == path = "/config.txt" \/ isSafeWritablePath(path)

WebRequest(route, args) ==
  [route : {route}, arg : args, admin : BOOLEAN, origin : BOOLEAN]

StreamRoutes == {"GET:/api/seasmart", "GET:/api/nmea0183"}
TextRoutes == {"GET:/api/store", "GET:/api/devices"}
StatusRoutes == {"GET:/api/statusDump", "GET:/api/status.json"}
FsRoutes == {"POST:/api/fs.json", "POST:/api/fs.json?delete", "POST:/api/fs.json?upload"}

\* The routes that take no parameter
PlainRoutes ==
  StreamRoutes \cup TextRoutes \cup StatusRoutes \cup
  {"GET:/api/login.json", "GET:/api/fs.json", "GET:/api/layouts.json",
   "POST:/api/reboot.json", "GET:/config.txt", "OPTIONS", "other"}

\* What a request may ask for; "/*" is what no route before it has taken.  An upload without a
\* path before its file, or without a file, has Absent.
WebRequests ==
  (UNION {WebRequest(route, {Absent}) : route \in PlainRoutes})
  \cup WebRequest("GET:/api/layout.json", {Absent, "invalid", "/layout-a.json"})
  \cup WebRequest("GET:/*", WebPaths \ {"/config.txt", NotAbsolute})
  \cup WebRequest("POST:/api/seasmart", {Absent, "malformed", "denied", "allowed"})
  \cup WebRequest("POST:/api/fs.json", {Absent, "unknown"})
  \cup WebRequest("POST:/api/fs.json?delete", WebPaths \cup {Absent})
  \cup WebRequest("POST:/api/fs.json?upload", WebPaths \cup {Absent})

NotServed == [route |-> "none", arg |-> Absent, admin |-> FALSE, origin |-> FALSE]

----------------------------------------------------------------------------
(* Answers. *)

\* addCORS() and send()
Send(r, code) == [code |-> code, cors |-> r.origin]
\* send() alone
SendBare(code) == [code |-> code, cors |-> FALSE]

Just(answer) == [answers |-> <<answer>>, did |-> "nothing"]
Silence == [answers |-> <<>>, did |-> "nothing"]
Done(answer, what) == [answers |-> <<answer>>, did |-> what]

\* Mutant of Gated: the handler goes on behind the 401.
GatedNoReturn(r, outcome) ==
  IF r.admin THEN outcome ELSE [outcome EXCEPT !.answers = <<Send(r, 401)>> \o @]
\* A handler that returns if authorized() has sent a 401.
Gated(r, outcome) == IF r.admin THEN outcome ELSE Just(Send(r, 401))

HandleSeasmartMsg(message) ==
  CASE message = "malformed"   -> 400
    [] message = "denied"      -> 403
    [] message = "allowed"     -> 200

PostSeasmart(r) ==
  Gated(r,
    IF r.arg = Absent THEN Just(Send(r, 404))
    ELSE LET code == HandleSeasmartMsg(r.arg)
         IN  Done(Send(r, code), IF code = 200 /\ busOpen THEN "sent" ELSE "nothing"))

\* The text of one of the callbacks, and what the devices sent
GetText(r) == Just(Send(r, 200))
GetLogin(r) == Gated(r, Just(Send(r, 200)))
GetStatus(r) == Gated(r, Just(Send(r, 200)))

ListLayouts(r) == Just(Send(r, IF mounted THEN 200 ELSE 404))
ListFiles(r) == Gated(r, Just(Send(r, IF mounted THEN 200 ELSE 404)))

GetLayout(r) ==
  Just(Send(r, IF r.arg \in {Absent, "invalid"} THEN 400 ELSE IF r.arg \in webFiles THEN 200 ELSE 404))

DeleteFile(r) ==
  IF ~isSafeWritablePath(r.arg) \/ r.arg = Absent THEN Just(Send(r, 400))
  ELSE IF r.arg \in webFiles THEN Done(Send(r, 200), "deleted") ELSE Just(Send(r, 404))

\* The callback of an upload, which has had the whole file by the time the handler is called.
\* It looks at the path, and not at who sends.
Uploading(r) == r.route = "POST:/api/fs.json?upload" /\ r.arg # Absent /\ isSafeToUploadPath(r.arg)
\* The code it keeps for the answer: 500 if the file could be opened but not all of it written
KeptCodes(r) ==
  IF Uploading(r)
  THEN {IF r.arg \in webFiles THEN 200 ELSE 201} \cup (IF mounted THEN {500} ELSE {})
  ELSE {400}
WritesFile(r) == Uploading(r) /\ mounted

AnswerUpload(r, kept) == Just(Send(r, kept))

\* No op is refused, and an unknown one gets no answer.
PostFs(r, kept) ==
  Gated(r, CASE r.route = "POST:/api/fs.json?delete" -> DeleteFile(r)
             [] r.route = "POST:/api/fs.json?upload" -> AnswerUpload(r, kept)
             [] OTHER -> IF r.arg = Absent THEN Just(Send(r, 400)) ELSE Silence)

Reboot(r) == Gated(r, Done(Send(r, 200), "restarted"))

GetConfig(r) == Gated(r, Just(SendBare(IF "/config.txt" \in webFiles THEN 200 ELSE 404)))

\* A page that is not there gets no answer.
GetPage(r) ==
  LET page == IF r.arg \in webFiles THEN Just(Send(r, 200)) ELSE Silence
  IN  IF isProtectedPath(r.arg) THEN Gated(r, page) ELSE page

\* onNotFound(), for OPTIONS and for what no handler takes
NotFound(r) == Just(Send(r, IF r.route = "OPTIONS" THEN 200 ELSE 404))

Handled(r, kept) ==
  CASE r.route \in StreamRoutes \cup TextRoutes -> GetText(r)
    [] r.route = "POST:/api/seasmart"          -> PostSeasmart(r)
    [] r.route = "GET:/api/login.json"         -> GetLogin(r)
    [] r.route = "GET:/api/fs.json"            -> ListFiles(r)
    [] r.route = "GET:/api/layouts.json"       -> ListLayouts(r)
    [] r.route = "GET:/api/layout.json"        -> GetLayout(r)
    [] r.route \in FsRoutes                    -> PostFs(r, kept)
    [] r.route \in StatusRoutes                -> GetStatus(r)
    [] r.route = "POST:/api/reboot.json"       -> Reboot(r)
    [] r.route = "GET:/config.txt"             -> GetConfig(r)
    [] r.route = "GET:/*"                      -> GetPage(r)
    [] OTHER                                   -> NotFound(r)

----------------------------------------------------------------------------
Serve(r) ==
  /\ \E kept \in KeptCodes(r) :
       LET outcome == Handled(r, kept)
           did     == IF WritesFile(r) THEN "written" ELSE outcome.did
       IN  /\ served' = [request |-> r, answers |-> outcome.answers, did |-> did]
           /\ webFiles' = CASE did = "deleted" -> webFiles \ {r.arg}
                            [] did = "written" -> webFiles \cup {r.arg}
                            [] OTHER           -> webFiles
  /\ UNCHANGED <<mounted, busOpen>>

\* What other parts write, and the switch of CAN on the console.
Elsewhere ==
  /\ \/ mounted /\ (\E path \in WebPaths \ {Climbing, NotAbsolute} : webFiles' = webFiles \cup {path})
        /\ UNCHANGED busOpen
     \/ busOpen' = ~busOpen /\ UNCHANGED webFiles
  /\ served' = [request |-> NotServed, answers |-> <<>>, did |-> "nothing"]
  /\ UNCHANGED mounted

WebStep == Elsewhere \/ \E r \in WebRequests : Serve(r)

WebInit ==
  /\ mounted \in BOOLEAN /\ webFiles = {} /\ busOpen \in BOOLEAN
  /\ served = [request |-> NotServed, answers |-> <<>>, did |-> "nothing"]

----------------------------------------------------------------------------
\* Each request gets one answer - but a page that is not there and an operation that does
\* not exist, which get none - and the answer tells what was done: nothing but what was
\* answered 200, and that only for the administrator, as is the contents of a protected
\* file; "sent" was sent unless CAN is off, and "deleted" is gone.  Of an upload only the
\* answer of success is the administrator's: the file is written before the handler has
\* looked who sends it, config.txt too, although httpserver.cpp:41 has an authenticated
\* admin upload that.  A file that is answered with success is there - unless nothing is
\* mounted, when it is answered with success all the same.  A page of another origin can
\* read every answer but config.txt.
AnswersTrue ==
  served.request # NotServed =>
    LET r      == served.request
        silent == \/ r.route = "GET:/*" /\ r.arg \notin webFiles
                  \/ r.route = "POST:/api/fs.json" /\ r.arg = "unknown"
        code   == served.answers[1].code
        ok     == Len(served.answers) = 1 /\ code = 200
    IN  /\ Len(served.answers) = 1 \/ (served.answers = <<>> /\ silent)
        /\ served.did \notin {"nothing", "written"} => ok /\ r.admin
        /\ r.route = "POST:/api/fs.json?upload" /\ code \in {200, 201} =>
             r.admin /\ (r.arg \in webFiles \/ ~mounted)
        /\ served.did = "deleted" => r.arg \notin webFiles /\ r.arg # "/config.txt"
        /\ ok /\ r.route = "POST:/api/seasmart" => served.did = "sent" \/ ~busOpen
        /\ ok /\ (r.route = "GET:/config.txt" \/ isProtectedPath(r.arg)) => r.admin
        /\ r.origin => \A i \in DOMAIN served.answers :
                          served.answers[i].cors \/ (r.route = "GET:/config.txt" /\ r.admin)
==============================================================================
