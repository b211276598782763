------------------------------ MODULE LspClient ------------------------------
(* The language-server client: callers on one event loop share one server    *)
(* process, started when it is needed, and one lock for their requests. A    *)
(* request is written under the lock, and its caller then reads the server's *)
(* output until it meets the answer, its time is over, or the output is no   *)
(* longer framed. The server answers in any order, or never, sends requests  *)
(* of its own, and may exit. Document notifications are modelled as far as   *)
(* they start the server; the versions of documents are not. A start that    *)
(* fails within another start closes once here, and twice in the code.       *)
EXTENDS Naturals, Sequences

CONSTANTS Callers, None, MaxId, MaxProcesses, MaxOutput

VARIABLES
  process,  \* _process: the number of the current server process, 0 for none
  alive,    \* the processes that run
  output,   \* what each process wrote and nobody has read
  torn,     \* the processes whose output was left in the middle of a message
  asked,    \* the requests a process has received and not answered
  next_id,
  lock,     \* the holder of the request lock
  call,     \* where each caller is
  questions, \* history: how many questions were written to servers
  answers    \* history: which question was asked, and which was answered

vars == <<process, alive, output, torn, asked, next_id, lock, call, questions, answers>>

Processes == 1 .. Len(output)
Message == [kind : {"response", "request"}, id : 1 .. MaxId, to : 0 .. MaxId]
Idle == [phase |-> "idle", job |-> "none", init |-> FALSE, id |-> 0, question |-> 0,
         reads |-> 0, ends |-> 0]
Call == [phase : {"idle", "launch", "lock", "read", "close"}, job : {"none", "query", "notify", "close"},
         init : BOOLEAN, id : 0 .. MaxId, question : 0 .. MaxId,
         reads : 0 .. MaxProcesses, ends : 0 .. MaxProcesses]

TypeOK ==
  /\ process \in 0 .. Len(output) /\ alive \cup torn \subseteq Processes
  /\ output \in Seq(Seq(Message)) /\ DOMAIN asked = Processes
  /\ next_id \in 1 .. MaxId + 1 /\ lock \in Callers \cup {None}
  /\ call \in [Callers -> Call]

Init ==
  /\ process = 0 /\ alive = {} /\ output = <<>> /\ torn = {} /\ asked = <<>>
  /\ next_id = 1 /\ lock = None
  /\ call = [c \in Callers |-> Idle] /\ questions = 0 /\ answers = {}

RunningNow == process \in alive
At(c, phase) == call[c].phase = phase
Goes(c, to) == call' = [call EXCEPT ![c] = to]

-----------------------------------------------------------------------------
(* What callers begin.                                                       *)

\* request starts a server when there is none; when the last one has exited, the
\* write below raises.
Request(c) ==
  /\ At(c, "idle")
  /\ Goes(c, [Idle EXCEPT !.phase = IF process = 0 THEN "launch" ELSE "lock", !.job = "query"])
  /\ UNCHANGED <<process, alive, output, torn, asked, next_id, lock, questions, answers>>

\* notify starts a server whenever none runs.
Notify(c) ==
  /\ At(c, "idle") /\ ~RunningNow
  /\ Goes(c, [Idle EXCEPT !.phase = "launch", !.job = "notify"])
  /\ UNCHANGED <<process, alive, output, torn, asked, next_id, lock, questions, answers>>

\* close asks the server to shut down when it runs, and then ends the process that
\* it began with.
Ends(g) == [Idle EXCEPT !.phase = "close", !.ends = g]

Close(c) ==
  /\ At(c, "idle") /\ process # 0
  /\ Goes(c, IF RunningNow THEN [Idle EXCEPT !.phase = "lock", !.job = "close", !.ends = process]
             ELSE Ends(process))
  /\ UNCHANGED <<process, alive, output, torn, asked, next_id, lock, questions, answers>>

\* The end of close, which has waited for its process to exit: there is no current
\* process any more, whichever it was by then.
CloseEnds(c) ==
  /\ At(c, "close")
  /\ process' = 0 /\ alive' = alive \ {call[c].ends} /\ Goes(c, Idle)
  /\ UNCHANGED <<output, torn, asked, next_id, lock, questions, answers>>

\* start, once the process exists: it is the current one, whichever was before.
Launch(c) ==
  /\ At(c, "launch") /\ Len(output) < MaxProcesses
  /\ process' = Len(output) + 1 /\ alive' = alive \cup {process'}
  /\ output' = Append(output, <<>>) /\ asked' = Append(asked, {})
  /\ Goes(c, [call[c] EXCEPT !.phase = "lock", !.init = TRUE])
  /\ UNCHANGED <<torn, next_id, lock, questions, answers>>

\* The process cannot be made.
LaunchFails(c) ==
  /\ At(c, "launch") /\ process' = 0 /\ Goes(c, Idle)
  /\ UNCHANGED <<alive, output, torn, asked, next_id, lock, questions, answers>>

-----------------------------------------------------------------------------
(* A request under the lock.                                                 *)

Unlocked(c) == IF lock = c THEN None ELSE lock

\* A request that raises. A start that fails closes the current process by force.
Raises(c) ==
  /\ lock' = Unlocked(c) /\ UNCHANGED <<process, alive>>
  /\ Goes(c, IF call[c].init /\ process # 0 THEN Ends(process)
             ELSE IF call[c].job = "close" THEN Ends(call[c].ends)
             ELSE Idle)

Send(c) ==
  /\ At(c, "lock") /\ lock = None /\ next_id <= MaxId
  /\ next_id' = next_id + 1
  /\ IF RunningNow
     THEN /\ questions' = questions + 1
          /\ asked' = [asked EXCEPT ![process] = @ \cup {[id |-> next_id, to |-> questions']}]
          /\ Goes(c, [call[c] EXCEPT !.phase = "read", !.id = next_id, !.question = questions', !.reads = process])
          /\ lock' = c /\ UNCHANGED <<process, alive>>
     ELSE Raises(c) /\ UNCHANGED <<asked, questions>>
  /\ UNCHANGED <<output, torn, answers>>

\* Mutant: any response is taken.
AnyResponse(m, id) == m.kind = "response"
IsAnswer(m, id) == m.kind = "response" /\ m.id = id

\* An answered start tells the server so (which starts another if it has gone), and
\* goes on to what it was for.
Answered(c) ==
  /\ lock' = None /\ UNCHANGED <<process, alive>>
  /\ \/ /\ call[c].init
        /\ \/ ~RunningNow /\ Goes(c, [call[c] EXCEPT !.phase = "launch"])
           \/ RunningNow /\ call[c].job = "query" /\ Goes(c, [call[c] EXCEPT !.phase = "lock", !.init = FALSE])
           \/ RunningNow /\ call[c].job = "notify" /\ Goes(c, Idle)
     \/ ~call[c].init /\ call[c].job = "close" /\ Goes(c, Ends(call[c].ends))
     \/ ~call[c].init /\ call[c].job = "query" /\ Goes(c, Idle)

\* A message is read: the answer, which may be an error, a request of the server, which
\* is answered, or something that is passed over.
Read(c) ==
  /\ At(c, "read") /\ call[c].reads \notin torn /\ output[call[c].reads] # <<>>
  /\ LET g == call[c].reads
         m == Head(output[g])
     IN /\ output' = [output EXCEPT ![g] = Tail(@)]
        /\ \/ /\ IsAnswer(m, call[c].id) /\ (Answered(c) \/ Raises(c))
              /\ answers' = answers \cup {[asked |-> call[c].question, answered |-> m.to]}
           \/ /\ ~IsAnswer(m, call[c].id) /\ process # 0 /\ (m.kind = "request" => RunningNow)
              /\ Goes(c, [call[c] EXCEPT !.reads = process])
              /\ UNCHANGED <<process, alive, lock, answers>>
           \/ /\ ~IsAnswer(m, call[c].id) /\ (process = 0 \/ (m.kind = "request" /\ ~RunningNow))
              /\ Raises(c) /\ UNCHANGED answers
  /\ UNCHANGED <<torn, asked, next_id, questions>>

\* Where the output is not framed, what is read next raises, and so do the messages
\* after it; and so does the end of the output.
ReadFails(c) ==
  /\ At(c, "read")
  /\ LET g == call[c].reads IN
     \/ g \in torn /\ output[g] # <<>> /\ output' = [output EXCEPT ![g] = Tail(@)]
     \/ output[g] = <<>> /\ g \notin alive /\ UNCHANGED output
  /\ Raises(c)
  /\ UNCHANGED <<torn, asked, next_id, questions, answers>>

\* The time is over, perhaps with the header of a message read and not its body.
TimesOut(c) ==
  /\ At(c, "read")
  /\ LET g == call[c].reads IN
     \/ UNCHANGED <<output, torn>>
     \/ /\ output[g] # <<>> /\ g \notin torn
        /\ output' = [output EXCEPT ![g] = Tail(@)] /\ torn' = torn \cup {g}
  /\ Raises(c)
  /\ UNCHANGED <<asked, next_id, questions, answers>>

-----------------------------------------------------------------------------
(* The server.                                                               *)

Writes(g, m) == Len(output[g]) < MaxOutput /\ output' = [output EXCEPT ![g] = Append(@, m)]

ServerAnswers(g, q) ==
  /\ g \in alive /\ Writes(g, [kind |-> "response", id |-> q.id, to |-> q.to])
  /\ asked' = [asked EXCEPT ![g] = @ \ {q}]
  /\ UNCHANGED <<process, alive, torn, next_id, lock, call, questions, answers>>

\* Its ids are its own, and may be equal to the client's.
ServerRequests(g, id) ==
  /\ g \in alive /\ Writes(g, [kind |-> "request", id |-> id, to |-> 0])
  /\ UNCHANGED <<process, alive, torn, asked, next_id, lock, call, questions, answers>>

ServerExits(g) ==
  /\ g \in alive /\ alive' = alive \ {g}
  /\ UNCHANGED <<process, output, torn, asked, next_id, lock, call, questions, answers>>

Next ==
  \/ \E c \in Callers : Request(c) \/ Notify(c) \/ Close(c)
  \/ \E c \in Callers : CloseEnds(c) \/ Launch(c) \/ LaunchFails(c)
  \/ \E c \in Callers : Send(c) \/ Read(c) \/ ReadFails(c) \/ TimesOut(c)
  \/ \E g \in Processes : \E q \in asked[g] : ServerAnswers(g, q)
  \/ \E g \in Processes, id \in 1 .. MaxId : ServerRequests(g, id)
  \/ \E g \in Processes : ServerExits(g)

Spec == Init /\ [][Next]_vars

-----------------------------------------------------------------------------
\* A caller is given the answer to its own question: not a late answer to one that
\* timed out, nor one to another caller, nor a request of the server
\* (lsp_runtime.py, request).
AnswersOwnQuestion == \A a \in answers : a.asked = a.answered

=============================================================================
