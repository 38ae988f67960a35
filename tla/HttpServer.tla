----------------------------- MODULE HttpServer -----------------------------
(***************************************************************************)
(* HttpServer::handleClient over HttpSession: the requests of one client,  *)
(* sent one behind the other and read in any pieces.  As in HttpConnection *)
(* a head is two symbols, cut inside its length header; the second half of *)
(* a head and the bytes of a body do not look like a request's beginning.  *)
(***************************************************************************)
EXTENDS Stream, SequencesExt

CONSTANTS
  Symbols,       \* what its requests are made of
  Conversations, \* what the client sends: sequences of [head, end, body]
  buff_size,     \* the buffer, in symbols
  MaxTimeouts    \* bound: reads that time out while a body is read
SessionAssumption ==
  /\ buff_size \in Nat \ {0} /\ MaxTimeouts \in Nat
  /\ \A q \in Conversations :
       /\ q \in Seq([head: Symbols, end: Symbols, body: Seq(Symbols)])
       /\ \A i, j \in DOMAIN q :
            /\ q[i].head = q[j].head => i = j
            /\ q[i].head # q[j].end /\ q[i].head \notin ToSet(q[j].body)

VARIABLES
  requests,      \* the client's requests
  m_isKeepalive,
  pos, sent,     \* how much of them was read, and will be sent
  client,        \* "open", "fin" or "rst"
  pc,            \* "head", "fix", "handle", "respond", "done" or "spin"
  half,          \* the request whose head's first half execute() has taken
  req,           \* the request recvRequest has built: [i, at, left, body]
  isClose,       \* req->isClose()
  answers,       \* the responses sent: [i, body, close]
  misses,        \* reads of a body that timed out
  clean          \* history: has every read ended where it should?
vars == <<requests, m_isKeepalive, pos, sent, client, pc, half, req, isClose,
          answers, misses, clean>>
readVars == <<requests, m_isKeepalive, sent, client>>

Text(r) == <<r.head, r.end>> \o r.body
Wire    == FlattenSeq([i \in DOMAIN requests |-> Text(requests[i])])
None    == [i |-> 0, at |-> 0, left |-> 0, body |-> <<>>]

Init ==
  /\ requests \in Conversations /\ m_isKeepalive \in BOOLEAN
  /\ pos = 0 /\ sent = Len(Wire) /\ client = "open"
  /\ pc = "head" /\ half = 0 /\ req = None /\ isClose = TRUE
  /\ answers = <<>> /\ misses = 0 /\ clean = TRUE

ClientCloses(how) ==
  /\ client = "open" /\ client' = how /\ sent' \in pos .. Len(Wire)
  /\ UNCHANGED <<requests, m_isKeepalive, pos, pc, half, req, isClose, answers,
                 misses, clean>>

Take(n) == SubSeq(Wire, pos + 1, pos + n)
Reads(n, room) ==
  n \in 1 .. room /\ pos + n <= sent /\ pos' = pos + n /\ UNCHANGED readVars
EndOf(i) == Len(FlattenSeq([j \in 1 .. i |-> Text(requests[j])]))

(* recvRequest has the whole head of request i, and `rest' behind it in    *)
(* its buffer.  The parser does not look at the Connection header: m_close *)
(* stays as the constructor has set it.                                    *)
Headed(i, rest) ==
  LET length == IF half = 0 THEN Len(requests[i].body) ELSE 0
      b == Resized(length, rest) IN
  /\ req' = [i |-> i, at |-> b.at, left |-> b.left, body |-> b.body]
  /\ isClose' = TRUE /\ half' = 0
  /\ pc' = IF b.left > 0 THEN "fix" ELSE "handle"
ReadHead(n) ==
  LET take == Take(n)
      Starts == {i \in DOMAIN requests :
                   IF half = 0 THEN take[1] = requests[i].head ELSE i = half} IN
  /\ pc = "head" /\ Reads(n, buff_size)
  /\ IF Starts = {} THEN pc' = "done" /\ UNCHANGED <<half, req, isClose, clean>>
     ELSE LET i == CHOOSE i \in Starts : TRUE
              stop == IF half = 0 THEN 2 ELSE 1 IN
          IF n < stop
          THEN /\ half' = i /\ clean' = (clean /\ requests[i].body = <<>>)
               /\ UNCHANGED <<pc, req, isClose>>
          ELSE /\ Headed(i, SubSeq(take, stop + 1, n))
               /\ clean' = (clean /\ pos + n <= EndOf(i))
  /\ UNCHANGED <<answers, misses>>

(* The rest of the body.                                                   *)
ReadFix(n) ==
  LET f == Filled(req, Take(n)) IN
  /\ pc = "fix" /\ Reads(n, req.left)
  /\ IF Underruns(req) THEN pc' = "done" /\ UNCHANGED req
     ELSE /\ req' = [req EXCEPT !.at = f.at, !.left = f.left, !.body = f.body]
          /\ pc' = IF f.left = 0 THEN "handle" ELSE "fix"
  /\ UNCHANGED <<half, isClose, answers, misses, clean>>
MissFix ==
  /\ pc = "fix" /\ misses < MaxTimeouts /\ misses' = misses + 1
  /\ req' = Missed(req) /\ pc' = IF req'.left = 0 THEN "handle" ELSE "fix"
  /\ UNCHANGED <<readVars, pos, half, isClose, answers, clean>>
(* A timeout in a head, or the end of the stream: the session is closed.   *)
Fail ==
  /\ pc = "head" \/ (pc = "fix" /\ client # "open" /\ pos = sent)
  /\ pc' = "done"
  /\ UNCHANGED <<readVars, pos, half, req, isClose, answers, misses, clean>>

(* The response is made, and says "close" or not, before a servlet runs    *)
(* that may call req->setClose(false).                                     *)
Handle(keep) ==
  /\ pc = "handle" /\ pc' = "respond" /\ isClose' = ~ keep
  /\ answers' = Append(answers, [i |-> req.i, body |-> req.body,
                                 close |-> isClose \/ ~ m_isKeepalive])
  /\ UNCHANGED <<readVars, pos, half, req, misses, clean>>
(* sendResponse, whose result nobody looks at; then the loop goes on, with *)
(* a new parser and a new buffer, or the session is closed.                *)
Respond ==
  /\ pc = "respond"
  /\ pc' = CASE client = "rst" -> "spin"
             [] ~ m_isKeepalive \/ isClose -> "done"
             [] OTHER -> "head"
  /\ UNCHANGED <<readVars, pos, half, req, isClose, answers, misses, clean>>

Serve ==
  \/ \E n \in 1 .. Len(Wire) : ReadHead(n) \/ ReadFix(n)
  \/ MissFix \/ Fail \/ Respond
  \/ \E keep \in BOOLEAN : Handle(keep)
Next == Serve \/ \E how \in {"fin", "rst"} : ClientCloses(how)
Fairness == WF_vars(Serve)
Spec == Init /\ [][Next]_vars /\ Fairness
-----------------------------------------------------------------------------
(* The variables have their types.                                         *)
TypeOK ==
  /\ pos \in 0 .. sent /\ sent <= Len(Wire) /\ client \in {"open", "fin", "rst"}
  /\ pc \in {"head", "fix", "handle", "respond", "done", "spin"}
  /\ half \in 0 .. Len(requests) /\ req.i \in 0 .. Len(requests)
  /\ req.left \in Nat /\ isClose \in BOOLEAN /\ clean \in BOOLEAN
  /\ misses \in 0 .. MaxTimeouts

(* AnswersExact: the requests are answered in the order sent, none twice;  *)
(* what a servlet is given has its own body or, when a read ended inside   *)
(* the length header, none (a timeout inside a body makes the loop take    *)
(* bytes of the next request for it).  If no read went past the end of its *)
(* request either, the first ones are answered, none left out; bytes read  *)
(* past it are thrown away with the buffer.  Every response says that the  *)
(* connection will be closed, and so it is unless a servlet asked for more *)
(* on a server that keeps connections.                                     *)
AnswersExact ==
  /\ \A j \in DOMAIN answers :
       /\ j > 1 => answers[j - 1].i < answers[j].i
       /\ misses = 0 => answers[j].body \in {requests[answers[j].i].body, <<>>}
       /\ clean /\ misses = 0 =>
            answers[j].i = j /\ answers[j].body = requests[j].body
       /\ answers[j].close
  /\ Len(answers) > 1 => m_isKeepalive

(* Returns: handleClient ends, unless a timeout fell inside a body or the  *)
(* client broke the connection in front of a response.                     *)
Returns == <>(pc \in {"done", "spin"} \/ misses > 0)
=============================================================================
