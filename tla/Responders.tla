----------------------------- MODULE Responders -----------------------------
(***************************************************************************)
(* The two servers that answer on their own: the names of the captive      *)
(* portal (AsyncDNSServer) and the echo (echoserver), both by callbacks of *)
(* the network task.  When they run is in Network.  They share nothing, so *)
(* one is used at a time here.                                             *)
(*                                                                         *)
(* A name is what is left of it without capitals; a query is its header's  *)
(* counts and, if it has one question, the question.                       *)
(***************************************************************************)
EXTENDS Integers, Sequences, SequencesExt

CONSTANTS
  DomainNames,     \* "boatsystems.local,boatsystems"
  NamesWithin,     \* other names that occur somewhere in that text: "local", "boat", the root
  NamesElsewhere,
  MaxEcho          \* bytes sent to the echo server (bound)

ASSUME RespondersAssumption ==
  MaxEcho \in Nat /\ NamesElsewhere \cap (DomainNames \cup NamesWithin) = {}

VARIABLES
  asking,     \* the query that came and the reply to it
  echo        \* a connection: sent, queued and echoed bytes, seconds since the last, open

respondersVars == <<asking, echo>>

Names == [www : BOOLEAN, rest : DomainNames \cup NamesWithin \cup NamesElsewhere]
Query == [response : BOOLEAN, opcode : {"query", "other"}, whole : BOOLEAN, questions : 0 .. 2,
          records : 0 .. 1,     \* in the answer, authority and additional sections
          name : Names, type : {"A", "AAAA"}]
NoReply == [code |-> "none"]
NoQuery == [name |-> "none"]

LineEnd == "lf"
EchoBytes == {"x", "y", LineEnd}
RxTimeout == 3
NewEcho == [is |-> "open", sent |-> <<>>, queued |-> <<>>, echoed |-> <<>>, idle |-> 0]

----------------------------------------------------------------------------
\* requestIncludesOnlyOneQuestion(): one with an additional record, as most resolvers send
\* today, is not one.
RequestIncludesOnlyOneQuestion(q) == q.questions = 1 /\ q.records = 0

\* Mutant of Matches: the www. is not taken off.
MatchesWww(name) == ~name.www /\ name.rest \in DomainNames \cup NamesWithin
\* getDomainNameWithoutWwwPrefix() and indexOf(): a name that occurs in the configured text
Matches(name) == name.rest \in DomainNames \cup NamesWithin

\* replyWithIP(): an address whatever type was asked for
ReplyWithIP(q) ==
  [code |-> "NoError", questions |-> q.questions, answers |-> q.questions, records |-> 0,
   body |-> <<"question", "A">>]
\* replyWithCustomCode(): a header only, whose other counts are those of the query
ReplyWithCustomCode(q) ==
  [code |-> "NonExistentDomain", questions |-> 0, answers |-> 0, records |-> q.records,
   body |-> <<>>]

\* _handleUDP()
Reply(q) ==
  CASE q.response -> NoReply
    [] ~q.response /\ RequestIncludesOnlyOneQuestion(q) /\ ~q.whole -> NoReply
    [] ~q.response /\ RequestIncludesOnlyOneQuestion(q) /\ q.whole /\ q.opcode = "query"
         /\ Matches(q.name) -> ReplyWithIP(q)
    [] OTHER -> ReplyWithCustomCode(q)

\* One query of each kind: nothing is kept from one to the next.
HandleUDP ==
  /\ asking.query = NoQuery
  /\ \E q \in Query : asking' = [query |-> q, reply |-> Reply(q)]
  /\ UNCHANGED echo

----------------------------------------------------------------------------
FirstLineEnd(text, i) == text[i] = LineEnd /\ \A j \in 1 .. i - 1 : text[j] # LineEnd

\* Mutant of EchoedLine: what comes after the line end is sent as well.
EchoedAll(e, segment, end) ==
  [e EXCEPT !.is = "closed", !.queued = <<>>, !.echoed = @ \o e.queued \o segment]
\* add() as far as the line end, send() and close(): a closed client takes no more.
EchoedLine(e, segment, end) ==
  [e EXCEPT !.is = "closed", !.queued = <<>>, !.echoed = @ \o e.queued \o SubSeq(segment, 1, end)]

\* onData()
OnEchoData(segment) ==
  LET e == [echo EXCEPT !.sent = @ \o segment, !.idle = 0]
  IN  \/ /\ \A i \in DOMAIN segment : segment[i] # LineEnd
         /\ echo' = [e EXCEPT !.queued = @ \o segment]
      \/ \E end \in DOMAIN segment :
           FirstLineEnd(segment, end) /\ echo' = EchoedLine(e, segment, end)

EchoSegment ==
  /\ echo.is = "open" /\ Len(echo.sent) < MaxEcho
  /\ \E n \in 1 .. MaxEcho - Len(echo.sent) :
       \E segment \in [1 .. n -> EchoBytes] : OnEchoData(segment)
  /\ UNCHANGED asking

\* What is queued goes out sooner or later without send() too.
EchoDrains ==
  /\ echo.is = "open" /\ echo.queued # <<>>
  /\ echo' = [echo EXCEPT !.echoed = @ \o echo.queued, !.queued = <<>>]
  /\ UNCHANGED asking

\* setRxTimeout()
EchoTick ==
  /\ echo.is = "open"
  /\ echo' = IF echo.idle = RxTimeout THEN [echo EXCEPT !.is = "closed"]
             ELSE [echo EXCEPT !.idle = @ + 1]
  /\ UNCHANGED asking

EchoAgain == echo.is = "closed" /\ echo' = NewEcho /\ UNCHANGED asking

EchoStep == EchoSegment \/ EchoDrains \/ EchoTick \/ EchoAgain

RespondersInit == asking = [query |-> NoQuery, reply |-> NoReply] /\ echo = NewEcho

----------------------------------------------------------------------------
\* A plain query for a name of the boat is answered with its address, with or without www, and
\* none for a name that is no part of them; names that occur somewhere in their text, as "local"
\* does, and the root, are answered as well, although AsyncDNSServer.cpp:111 has the domain match.
\* A query with additional records gets an error, for the boat's own names too, which announces
\* records it does not hold; every other reply holds what it announces.  The echo gives back what
\* it was sent, in order and not twice, as far as the first line end, and all of that if it came
\* to one.
RespondersAnswer ==
  LET q == asking.query
      reply == asking.reply
  IN
  /\ q # NoQuery =>
       /\ reply.code = "NoError" => q.name.rest \notin NamesElsewhere
       /\ reply.code # "none" => ~q.response
       /\ (/\ ~q.response /\ q.whole /\ q.opcode = "query" /\ q.questions = 1 /\ q.records = 0
           /\ q.name.rest \in DomainNames) => reply.code = "NoError" /\ reply.body[2] = "A"
       /\ reply.code # "none" /\ q.records = 0 =>
            Len(reply.body) = reply.questions + reply.answers + reply.records
  /\ IsPrefix(echo.echoed \o echo.queued, echo.sent)
  /\ \A line \in DOMAIN echo.sent :
       FirstLineEnd(echo.sent, line) =>
         echo.is = "closed" /\ echo.echoed = SubSeq(echo.sent, 1, line)
=============================================================================
