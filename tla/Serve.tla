------------------------------- MODULE Serve -------------------------------
(***************************************************************************)
(* The server of src/src/mod/ext/serve: one thread that polls, accepts     *)
(* connections and command files into a Queue of requests, and passes over *)
(* the requests whose socket is ready, running the steps of their routes   *)
(* (req.c, http_req.c, http_req_tls.c, http_static.c, serveneka.c).        *)
(*                                                                         *)
(* A route is a Span used as a stack.  Queue and route are the operators   *)
(* of Queue and SpanIter, so that what the server gets wrong about either  *)
(* shows here.  A request is the text a client sends in pieces; what it    *)
(* asks for decides what the steps find.                                   *)
(***************************************************************************)
EXTENDS Integers, FiniteSets, Sequences

CONSTANTS
  Conns,       (* connections clients may open, each with its own arena    *)
  Files,       (* command files, queued before the first pass              *)
  Ports,       (* the listening endpoints: a sequence of sets of Conns     *)
  TlsConns,    (* the connections to TLS endpoints                         *)
  Asks,        (* what clients ask for                                     *)
  Leaving,     (* clients may go away at any time                          *)
  Returning,   (* those that come back when their request was freed        *)
  ACCEPT_MAX,  (* connections accepted from an endpoint per poll (16)      *)
  MAX_COMMANDS,(* bound: what is written to a command file                 *)
  ROUTE_SIZE,  (* SPAN_STRIDE, for the Span of a route                     *)
  INCREMENTS, MAX_DIMS, NULL

VARIABLES
  it, critIt, availableIt, selected, pass, seen, (* srv->q: see Queue      *)
  req,   (* the Req of each connection and file                            *)
  peer,  (* the client, or the writer of the command file (external)       *)
  srv    (* where ServeTcp_AcceptPoll stands                               *)

qvars == <<it, critIt, availableIt, selected, pass, seen>>
vars  == <<qvars, req, peer, srv>>

Reqs == Conns \union Files

Q == INSTANCE Queue WITH Items <- Reqs, AlwaysReady <- {}, RemoveBetween <- FALSE
R == INSTANCE SpanIter WITH MAX_DIMS <- 0,
       INCREMENTS <- [d \in {0, 1} |-> IF d = 0 THEN 1 ELSE ROUTE_SIZE]

Steps == {"cmd", "write", "prepare", "read", "accept", "retrieve", "stats"}

ASSUME ServeAssumption ==
  /\ Conns \intersect Files = {} /\ TlsConns \subseteq Conns
  /\ Asks \subseteq {"file", "missing", "cached", "post", "malformed",
                     "oversize", "stats", "unreadable", "slow", "cut", "stalled"}
  /\ Leaving \in BOOLEAN /\ Returning \subseteq Conns
  /\ ACCEPT_MAX \in Nat \ {0} /\ ROUTE_SIZE \in Nat /\ ROUTE_SIZE >= 4
  /\ NULL \notin Reqs \union Steps
  /\ Q!TablesAssumption
-----------------------------------------------------------------------------
(* The client's text comes in pieces: over TLS the handshake; the head, in *)
(* one or cut in two; a body.                                              *)
Handshake(c) == IF c \in TlsConns THEN 1 ELSE 0
HeadAt(c) == Handshake(c) + IF peer[c].ask \in {"cut", "stalled"} THEN 2 ELSE 1
Pieces(c) == HeadAt(c) + IF peer[c].ask = "post" THEN 1 ELSE 0

(* RECV_FLAGS, SEND_FLAGS, BIDIR_FLAGS, INTERNAL_FLAGS.                    *)
StepFlags(step) ==
  CASE step \in {"read", "cmd"} -> {"in"}
    [] step = "write"           -> {"out"}
    [] step = "accept"          -> {"in", "out"}
    [] OTHER                    -> {}

Route(r) ==
  LET write   == R!Iter_Add(R!Span_Make, "write")
      prepare == R!Iter_Add(write, "prepare")
      read    == R!Iter_Add(prepare, "read")
  IN  CASE r \in Files    -> R!Iter_Add(R!Span_Make, "cmd")
        [] r \in TlsConns -> R!Iter_Add(read, "accept")
        [] OTHER          -> read

Req_Make(r) ==
  [live |-> TRUE, idx |-> 0, flags |-> {}, events |-> {},
   route |-> Route(r),
   read |-> 0, parser |-> "ready", sent |-> <<>>, file |-> "none", logged |-> NULL]

(* A 404 is NOOP and ERROR, a 304 NOOP alone, a 500 ERROR alone.           *)
Status(flags) ==
  CASE {"NOOP", "ERROR"} \subseteq flags -> 404
    [] flags \intersect {"NOOP", "ERROR"} = {"NOOP"} -> 304
    [] flags \intersect {"NOOP", "ERROR"} = {"ERROR"} -> 500
    [] OTHER -> 200

(* ReqCrit_Func for the Req q of r; a socket without events to wait for   *)
(* counts as ready.                                                        *)
ReqCrit_Func(r, q, writable) ==
  LET readable == peer[r].arrived > q.read
  IN  IF r \in Files THEN readable
      ELSE \/ q.events = {}
           \/ "in" \in q.events /\ readable
           \/ "out" \in q.events /\ writable
           \/ peer[r].at = "gone"
-----------------------------------------------------------------------------
(* What the functions of a step do to the Req q.                           *)
Req_StepHandled(q) ==
  LET top == R!Iter_Prev(R!Iter_Remove(q.route))
  IN  [q EXCEPT !.route = top,
                !.flags = @ \union {"SUCCESS"} \union IF top.end THEN {"END"} ELSE {}]

Req_SetRoute(q, step) ==
  [q EXCEPT !.route = R!Iter_Add(@, step), !.flags = @ \union {"MORE"}]

(* Faults for the runs to find, each in front of the operator it replaces: *)
(* the request is not marked as failed.                                    *)
HttpReq_Error_Silent(q) ==
  [q EXCEPT !.flags = @ \union {"MORE"},
            !.route = [R!Iter_Add(R!Span_Make, "write") EXCEPT !.processing = TRUE]]

(* Error() finds HttpReq_Error through the owner of the request's arena.   *)
(* The sections go without a file among them being closed.                 *)
HttpReq_Error(q) ==
  LET wiped == [q.route EXCEPT !.slots = [i \in DOMAIN @ |-> NULL],
                               !.nvalues = 0, !.max_idx = -1]
  IN  [q EXCEPT !.flags = (@ \ {"NOOP"}) \union {"ERROR", "MORE"},
                !.route = R!Iter_Add(wiped, "write")]

CloseFile_Not(q) == q

CloseFile(q) == [q EXCEPT !.file = IF @ = "open" THEN "closed" ELSE @]

(* The end of a step: the events to wait for become those of the next      *)
(* step, and Req_Handle goes on at once when there is MORE to do and the   *)
(* socket allows it.                                                       *)
Ran(q, writable) ==
  LET p == IF "SUCCESS" \in q.flags /\ "END" \notin q.flags
           THEN [q EXCEPT !.events = StepFlags(q.route.value)] ELSE q
      again == "MORE" \in p.flags /\ ReqCrit_Func(srv.cur, p, writable)
  IN  /\ req' = [req EXCEPT ![srv.cur] = p]
      /\ srv' = [srv EXCEPT !.pc = IF again THEN "step" ELSE "after"]
      /\ UNCHANGED <<qvars, peer>>

(* The step to run, the flags of the last one cleared.                     *)
Running(step) == srv.pc = "step" /\ req[srv.cur].route.value = step
Current == [req[srv.cur] EXCEPT !.flags = @ \ {"MORE", "SUCCESS"}]
Asked == peer[srv.cur].ask

(* The process ends.                                                       *)
Halt == srv' = [srv EXCEPT !.pc = "halted"] /\ UNCHANGED <<qvars, req, peer>>
-----------------------------------------------------------------------------
CmdFile_HandleInput ==
  /\ Running("cmd")
  /\ Ran([Current EXCEPT !.read = peer[srv.cur].arrived], TRUE)

(* The handshake is through when the client's part of it has arrived.      *)
HttpReq_TlsAccept ==
  /\ Running("accept")
  /\ IF peer[srv.cur].arrived = 0 THEN Ran(Current, TRUE)
     ELSE Ran(Req_StepHandled([Current EXCEPT !.read = 1]), TRUE)

(* The body is not waited for.                                             *)
HttpReq_ParseBody_NoWait(q) == Ran(Req_StepHandled(q), TRUE)

(* HttpReq_ParseBody, which reads in a loop of its own until the body is   *)
(* there.  A Content-Length that no read may ask for is an Error, after    *)
(* which the step is handled all the same.                                 *)
HttpReq_ParseBody(q) ==
  IF Asked = "oversize" THEN Ran(Req_StepHandled(HttpReq_Error(q)), TRUE)
  ELSE IF q.read = Pieces(srv.cur) THEN Ran(Req_StepHandled(q), TRUE)
  ELSE /\ req' = [req EXCEPT ![srv.cur] = q]
       /\ srv' = [srv EXCEPT !.pc = "body"]
       /\ UNCHANGED <<qvars, peer>>

(* HttpReq_ReadToRbl and HttpReq_TlsReadToRbl: read what there is, run the *)
(* parser unless nothing came (over TLS, always), and go on when it has    *)
(* the head.  A parser that met the end of what was read has its cursor at *)
(* END for good: nothing tells the cursor of what is read later.           *)
HttpReq_ReadToRbl ==
  /\ Running("read")
  /\ \E n \in Current.read .. peer[srv.cur].arrived :
       LET q   == [Current EXCEPT !.read = n]
           ran == n > Current.read \/ srv.cur \in TlsConns
       IN  /\ n > Current.read \/ n = peer[srv.cur].arrived
           /\ IF ~ran \/ q.parser = "ended" THEN Ran(q, TRUE)
              ELSE IF n < HeadAt(srv.cur) THEN Ran([q EXCEPT !.parser = "ended"], TRUE)
              ELSE IF Asked = "malformed"
              THEN Ran([q EXCEPT !.flags = @ \union {"ERROR"}], TRUE)
              ELSE HttpReq_ParseBody(q)

BodyArrives ==
  /\ srv.pc = "body"
  /\ peer[srv.cur].arrived = Pieces(srv.cur)
  /\ HttpReq_ParseBody([Current EXCEPT !.read = peer[srv.cur].arrived])

Serveneka_Prepare ==
  /\ Running("prepare")
  /\ Ran(Req_SetRoute(Req_StepHandled(Current),
                      IF Asked = "stats" THEN "stats" ELSE "retrieve"), TRUE)

(* HttpReq_Stats does not say that it is done.                             *)
HttpReq_Stats == Running("stats") /\ Ran(Current, TRUE)

(* A missing file is not reported as handled.                              *)
HttpStatic_RetrieveFile_Stays ==
  /\ Running("retrieve")
  /\ Ran(IF Asked = "missing"
         THEN [Current EXCEPT !.flags = @ \union {"NOOP", "ERROR"}]
         ELSE Req_StepHandled([Current EXCEPT !.file = "open"]), TRUE)

(* HttpStatic_RetrieveFile.  A path that opens but cannot be read (a       *)
(* directory) is an Error on the way to the etag, and the function goes on *)
(* to add the open file to the sections.                                   *)
HttpStatic_RetrieveFile ==
  /\ Running("retrieve")
  /\ Ran(CASE Asked = "missing" ->
              Req_StepHandled([Current EXCEPT !.flags = @ \union {"NOOP", "ERROR"}])
           [] Asked = "cached" ->
              Req_StepHandled([Current EXCEPT !.flags = @ \union {"NOOP"},
                                              !.file = "closed"])
           [] Asked = "unreadable" ->
              Req_StepHandled([HttpReq_Error(Current) EXCEPT !.file = "open"])
           [] OTHER -> Req_StepHandled([Current EXCEPT !.file = "open"]), TRUE)

(* HttpReq_Write and HttpReq_TlsWrite.  A response the socket has no room  *)
(* for is an Error in the middle of the body; the client may make room     *)
(* before the socket is polled again.  Writing to a client that left may   *)
(* raise SIGPIPE, whose handler ends the process.                          *)
HttpReq_Write ==
  /\ Running("write")
  /\ LET told == [Current EXCEPT !.sent = Append(@, Status(Current.flags))]
     IN  \/ /\ Asked # "slow"
            /\ Ran(Req_StepHandled(CloseFile(told)), TRUE)
         \/ /\ Asked = "slow"
            /\ \E writable \in BOOLEAN :
                 Ran(Req_StepHandled(CloseFile(HttpReq_Error(told))), writable)
         \/ peer[srv.cur].at = "gone" /\ Halt

(* Req_Handle takes the step from an empty route.                          *)
NullStep == Running(NULL) /\ Halt
-----------------------------------------------------------------------------
(* The index is taken to be the end of the Span.                           *)
MadeReq_AtEnd(r) == [Req_Make(r) EXCEPT !.idx = it.max_idx + 1]

(* Queue_Add returns the index that Queue_Remove will be called with.      *)
MadeReq(r) ==
  [Req_Make(r) EXCEPT !.idx = IF selected >= 0 THEN Q!ShelfTop ELSE it.max_idx + 1]

(* A command file is not counted as fixed.                                 *)
Serve_AddEndpoint_NotFixed(f) ==
  /\ srv.pc = "setup" /\ ~req[f].live
  /\ Q!Queue_Add(f)
  /\ req' = [req EXCEPT ![f] = MadeReq(f)]
  /\ UNCHANGED <<peer, srv>>

(* Serve_AddEndpoint for a command file.                                   *)
Serve_AddEndpoint(f) ==
  /\ srv.pc = "setup" /\ ~req[f].live
  /\ Q!Queue_Add(f)
  /\ req' = [req EXCEPT ![f] = MadeReq(f)]
  /\ srv' = [srv EXCEPT !.fixed = @ + 1]
  /\ UNCHANGED peer

Listen ==
  /\ srv.pc = "setup"
  /\ \A f \in Files : req[f].live
  /\ srv' = [srv EXCEPT !.pc = "poll"]
  /\ UNCHANGED <<qvars, req, peer>>

(* The head of ServeTcp_AcceptPoll: poll() waits for five seconds when     *)
(* only the fixed requests are queued.  A regular file always polls        *)
(* readable, so a command file makes every poll an available one.          *)
Backlog(p) == {c \in Ports[p] : peer[c].at = "backlog"}

Poll ==
  /\ srv.pc = "poll"
  /\ IF Files # {} \/ \E p \in DOMAIN Ports : Backlog(p) # {}
     THEN srv' = [srv EXCEPT !.pc = "accept", !.port = 1, !.left = ACCEPT_MAX]
     ELSE srv' = [srv EXCEPT !.pc = "pass"]
  /\ UNCHANGED <<qvars, req, peer>>

Accept(c) ==
  /\ srv.pc = "accept" /\ srv.left > 0
  /\ c \in Backlog(srv.port)
  /\ Q!Queue_Add(c)
  /\ req' = [req EXCEPT ![c] = MadeReq(c)]
  /\ peer' = [peer EXCEPT ![c].at = "open"]
  /\ srv' = [srv EXCEPT !.left = @ - 1]

NextPort ==
  /\ srv.pc = "accept"
  /\ srv.left = 0 \/ Backlog(srv.port) = {}
  /\ srv' = IF srv.port < Len(Ports)
            THEN [srv EXCEPT !.port = @ + 1, !.left = ACCEPT_MAX]
            ELSE [srv EXCEPT !.pc = "pass"]
  /\ UNCHANGED <<qvars, req, peer>>

(* Queue_Next, and the head of Req_Handle, which leaves a request alone    *)
(* that has an ERROR other than a 404.                                     *)
Pass ==
  /\ srv.pc = "pass"
  /\ Q!NextAmong({r \in Q!Queued : ReqCrit_Func(r, req[r], TRUE)})
  /\ srv' = IF it'.end THEN [srv EXCEPT !.pc = "poll"]
            ELSE LET r == it'.value
                     failed == req[r].flags \intersect {"ERROR", "NOOP"} = {"ERROR"}
                 IN  [srv EXCEPT !.cur = r, !.pc = IF failed THEN "after" ELSE "step"]
  /\ UNCHANGED <<req, peer>>

(* After Req_Handle: a request at the END of its route is finalized,       *)
(* removed from the queue and freed with its arena.                        *)
Keep ==
  /\ srv.pc = "after" /\ "END" \notin req[srv.cur].flags
  /\ srv' = [srv EXCEPT !.pc = "pass"]
  /\ UNCHANGED <<qvars, req, peer>>

(* The last request is removed instead of the current one.                 *)
Finalize_Last ==
  /\ srv.pc = "after" /\ "END" \in req[srv.cur].flags
  /\ Q!Queue_Remove(it.max_idx)
  /\ req' = [req EXCEPT ![srv.cur].live = FALSE]
  /\ srv' = [srv EXCEPT !.pc = "pass"]
  /\ UNCHANGED peer

Finalize ==
  /\ srv.pc = "after" /\ "END" \in req[srv.cur].flags
  /\ Q!Queue_Remove(req[srv.cur].idx)
  /\ req' = [req EXCEPT ![srv.cur].live = FALSE,
                        ![srv.cur].logged = Status(req[srv.cur].flags)]
  /\ srv' = [srv EXCEPT !.pc = "pass"]
  /\ UNCHANGED peer

Step == \/ CmdFile_HandleInput \/ HttpReq_TlsAccept \/ HttpReq_ReadToRbl
        \/ BodyArrives \/ Serveneka_Prepare \/ HttpReq_Stats
        \/ HttpStatic_RetrieveFile \/ HttpReq_Write \/ NullStep

Server == \/ \E f \in Files : Serve_AddEndpoint(f)
          \/ Listen \/ Poll \/ (\E c \in Conns : Accept(c)) \/ NextPort
          \/ Pass \/ Step \/ Keep \/ Finalize
-----------------------------------------------------------------------------
(* The other ends.  A client whose connection was freed may come back with *)
(* a connection, and an arena, of its own.                                 *)
Connect(c) ==
  /\ peer[c].at = "away" \/ (c \in Returning /\ req[c].logged # NULL)
  /\ \E ask \in Asks :
       peer' = [peer EXCEPT ![c] = [at |-> "backlog", ask |-> ask, arrived |-> 0]]
  /\ req' = [req EXCEPT ![c] = [Req_Make(c) EXCEPT !.live = FALSE]]
  /\ UNCHANGED <<qvars, srv>>

Send(c) ==
  /\ peer[c].at \in {"backlog", "open"} /\ peer[c].arrived < Pieces(c)
  /\ peer[c].ask = "stalled" => peer[c].arrived + 1 < HeadAt(c)
  /\ c \in TlsConns /\ peer[c].arrived > 0 => req[c].read > 0
  /\ peer' = [peer EXCEPT ![c].arrived = @ + 1]
  /\ UNCHANGED <<qvars, req, srv>>

Leave(c) ==
  /\ Leaving /\ peer[c].at = "open"
  /\ peer' = [peer EXCEPT ![c].at = "gone"]
  /\ UNCHANGED <<qvars, req, srv>>

Command(f) ==
  /\ peer[f].arrived < MAX_COMMANDS
  /\ peer' = [peer EXCEPT ![f].arrived = @ + 1]
  /\ UNCHANGED <<qvars, req, srv>>

Init ==
  /\ Q!Init
  /\ req = [r \in Reqs |-> [Req_Make(r) EXCEPT !.live = FALSE]]
  /\ peer = [r \in Reqs |-> [at |-> IF r \in Files THEN "open" ELSE "away",
                              ask |-> "file", arrived |-> 0]]
  /\ srv = [pc |-> "setup", cur |-> NULL, port |-> 1, left |-> 0, fixed |-> 0]

Next ==
  \/ Server
  \/ \E c \in Conns : Connect(c) \/ Send(c) \/ Leave(c)
  \/ \E f \in Files : Command(f)

(* The thread of the server never waits for good, except for a body; a     *)
(* client that does not leave or stall sends all of its request.           *)
Fairness == WF_vars(Server) /\ \A c \in Conns : WF_vars(Send(c))

Spec == Init /\ [][Next]_vars /\ Fairness
-----------------------------------------------------------------------------
TypeOK ==
  /\ \A r \in Reqs :
       /\ req[r].flags \subseteq {"SUCCESS", "MORE", "ERROR", "NOOP", "END"}
       /\ req[r].route.value \in Steps \union {NULL}
       /\ req[r].events \subseteq {"in", "out"}
       /\ req[r].read \in 0 .. peer[r].arrived
       /\ req[r].file \in {"none", "open", "closed"}
       /\ req[r].parser \in {"ready", "ended"}
       /\ peer[r].at \in {"away", "backlog", "open", "gone"}
  /\ srv.pc \in {"setup", "poll", "accept", "pass", "step", "body", "after", "halted"}
  /\ srv.cur \in Reqs \union {NULL} /\ srv.left \in 0 .. ACCEPT_MAX

Live == {r \in Reqs : req[r].live}

(* The queue holds the requests that have not been freed, each at the      *)
(* index it was told, whatever was removed and reused in between.          *)
QueueExact ==
  /\ Q!Queued = Live
  /\ \A r \in Live : it.slots[req[r].idx] = r

(* The server waits in poll() exactly when no connection is being served.  *)
WaitsWhenIdle == it.nvalues <= srv.fixed <=> Live \subseteq Files

(* A request that had an Error, or could not be parsed.                    *)
Failed(r) == "ERROR" \in req[r].flags /\ "NOOP" \notin req[r].flags

(* Nothing is sent before the whole request, body included, has been read, *)
(* and never a second status line.                                         *)
AnswersWhole ==
  \A c \in Conns : req[c].sent # <<>> =>
                      req[c].read = Pieces(c) /\ Len(req[c].sent) = 1

(* What is freed was answered once, with the status the log shows, and its *)
(* file has been closed, unless it failed.                                 *)
FreedAnswered ==
  \A c \in Conns : req[c].logged # NULL /\ ~Failed(c) =>
                      req[c].sent = <<req[c].logged>> /\ req[c].file # "open"

(* Only an Error leaves a request with an empty route to run.              *)
EmptyAfterError ==
  srv.pc = "step" /\ req[srv.cur].route.value = NULL => Failed(srv.cur)

(* The server uses the queue as Queue expects of its client.               *)
QueueProtocol == Q!Spec

(* Every connection whose request the server understands, with a head that *)
(* comes in one read, is answered and freed, whatever others send, leave   *)
(* out, or never get an answer to.                                         *)
Understood == {"file", "missing", "cached", "post"}

Served ==
  \A c \in Conns : peer[c].at = "backlog" /\ peer[c].ask \in Understood
                      ~> req[c].logged # NULL
=============================================================================
