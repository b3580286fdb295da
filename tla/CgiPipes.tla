------------------------------ MODULE CgiPipes ------------------------------
(***************************************************************************)
(* How a worker of the plain web server runs a CGI program                 *)
(* (http/request_handler.c:251-452): two pipes and a child, which is fed   *)
(* the body of the request first and whose answer is copied afterwards.    *)
(* Several workers do so at a time, and a child inherits every descriptor  *)
(* that the server has open when it is forked, the other workers' pipes    *)
(* among them.  A pipe has an end, for who reads it, when nobody at all    *)
(* has its other side any more.                                            *)
(*                                                                         *)
(* Bodies and answers are counted in chunks.  A request is served once.    *)
(***************************************************************************)
EXTENDS Naturals, FiniteSets

CONSTANTS Calls,  \* the requests, each with a worker of its own
          Bodies, \* pairs: the announced length, what the program takes of it
          MaxOut, \* bound: the length of an answer
          PipeCap \* what a pipe holds

ASSUME PipesAssumption ==
  /\ Bodies \subseteq Nat \X Nat /\ \A b \in Bodies : b[2] <= b[1]
  /\ MaxOut \in Nat /\ PipeCap \in Nat \ {0}

VARIABLES
  toFeed,   \* what the worker has still to feed of each body
  toRead,   \* what the program still wants of it
  wpc,      \* what the worker does next
  server,   \* the ends of a request's pipes that the server has open
  late,     \* auxiliary: requests whose body was not waited for
  inPipe, outPipe, \* what is in the pipes
  cpc,      \* what the child does next
  held,     \* the ends that the child has open, also those of other requests
  toWrite   \* what it has still to write

worker == <<wpc, server, late, toFeed>>
child  == <<cpc, held, toRead, toWrite>>
pipes  == <<inPipe, outPipe>>
pipesVars == <<worker, child, pipes>>

InRead == "input_pipe[0]"
InWrite == "input_pipe[1]"
OutRead == "output_pipe[0]"
OutWrite == "output_pipe[1]"
Ends == {InRead, InWrite, OutRead, OutWrite}

PipesInit ==
  /\ \E body \in [Calls -> Bodies] :
       /\ toFeed = [r \in Calls |-> body[r][1]]
       /\ toRead = [r \in Calls |-> body[r][2]]
  /\ wpc = [r \in Calls |-> "start"]
  /\ server = [r \in Calls |-> {}] /\ late = {}
  /\ inPipe = [r \in Calls |-> 0] /\ outPipe = [r \in Calls |-> 0]
  /\ cpc = [r \in Calls |-> "none"] /\ held = [r \in Calls |-> {}]
  /\ toWrite = [r \in Calls |-> 0]

(* Somebody has this end of the request's pipes open. *)
IsOpen(r, end) == end \in server[r] \/ \E q \in Calls : <<r, end>> \in held[q]

(* write waits for room as long as anybody can read the pipe; when nobody    *)
(* can, it fails, which is not looked at.                                    *)
CanWrite(r, pipe, reader) == pipe[r] < PipeCap \/ ~IsOpen(r, reader)
Written(r, pipe, reader) == [pipe EXCEPT ![r] = IF IsOpen(r, reader) THEN @ + 1 ELSE @]

-----------------------------------------------------------------------------
(* The worker. *)

WorkerGoto(r, from, to) == wpc[r] = from /\ wpc' = [wpc EXCEPT ![r] = to]
Opens(r, ends) == server' = [server EXCEPT ![r] = ends]
Close(r, ends) == server' = [server EXCEPT ![r] = @ \ ends]

(* pipe, twice.  If the first or the second fails, "500" is sent and that is *)
(* all: what was opened stays open.                                          *)
Pipe(r) ==
  /\ \/ WorkerGoto(r, "start", "fork") /\ Opens(r, Ends)
     \/ WorkerGoto(r, "start", "done") /\ Opens(r, {})
     \/ WorkerGoto(r, "start", "done") /\ Opens(r, {InRead, InWrite})
  /\ UNCHANGED <<late, toFeed, child, pipes>>

(* fork.  The child closes the two ends of its own pipes that are not its.   *)
Inherited(r) == (UNION {{q} \X server[q] : q \in Calls}) \ {<<r, InWrite>>, <<r, OutRead>>}

Fork(r) ==
  /\ WorkerGoto(r, "fork", "close")
  /\ cpc' = [cpc EXCEPT ![r] = "read"]
  /\ held' = [held EXCEPT ![r] = Inherited(r)]
  /\ UNCHANGED <<server, late, toFeed, toRead, toWrite, pipes>>

ForkFails(r) ==
  /\ WorkerGoto(r, "fork", "done")
  /\ UNCHANGED <<server, late, toFeed, child, pipes>>

CloseChildEnds(r) ==
  /\ WorkerGoto(r, "close", "feed")
  /\ Close(r, {InRead, OutWrite})
  /\ UNCHANGED <<late, toFeed, child, pipes>>

(* The part of the body that came with the request, or one recv, and the     *)
(* write of it.                                                              *)
Feed(r) ==
  /\ WorkerGoto(r, "feed", "feed")
  /\ toFeed[r] > 0 /\ CanWrite(r, inPipe, InRead)
  /\ toFeed' = [toFeed EXCEPT ![r] = @ - 1]
  /\ inPipe' = Written(r, inPipe, InRead)
  /\ UNCHANGED <<server, late, outPipe, child>>

(* Mutant: a body that is not waited for any longer is not ended. *)
EndBodyLate(r) ==
  /\ WorkerGoto(r, "feed", "copy")
  /\ Close(r, IF toFeed[r] > 0 THEN {} ELSE {InWrite})
  /\ late' = IF toFeed[r] > 0 THEN late \cup {r} ELSE late
  /\ UNCHANGED <<toFeed, child, pipes>>

(* The body is complete; or nothing came for two seconds, or the client is   *)
(* gone: that is the end of the body, too.                                   *)
EndBody(r) ==
  /\ WorkerGoto(r, "feed", "copy")
  /\ Close(r, {InWrite})
  /\ late' = IF toFeed[r] > 0 THEN late \cup {r} ELSE late
  /\ UNCHANGED <<toFeed, child, pipes>>

(* One read and one send, which fails if the client is gone.  The socket has *)
(* been made to wait (request_handler.c:660): the step is over when the      *)
(* client has made room for the bytes.                                       *)
Copy(r) ==
  /\ wpc[r] = "copy" /\ outPipe[r] > 0
  /\ outPipe' = [outPipe EXCEPT ![r] = @ - 1]
  /\ \/ UNCHANGED <<wpc, server>>
     \/ WorkerGoto(r, "copy", "wait") /\ Close(r, {OutRead})
  /\ UNCHANGED <<late, toFeed, inPipe, child>>

EndCopy(r) ==
  /\ WorkerGoto(r, "copy", "wait")
  /\ outPipe[r] = 0 /\ ~IsOpen(r, OutWrite)
  /\ Close(r, {OutRead})
  /\ UNCHANGED <<late, toFeed, child, pipes>>

(* waitpid. *)
Reap(r) ==
  /\ WorkerGoto(r, "wait", "done")
  /\ cpc[r] = "exit"
  /\ UNCHANGED <<server, late, toFeed, child, pipes>>

WorkerStep(r) ==
  \/ Pipe(r) \/ Fork(r) \/ ForkFails(r) \/ CloseChildEnds(r)
  \/ Feed(r) \/ EndBody(r) \/ Copy(r) \/ EndCopy(r) \/ Reap(r)

-----------------------------------------------------------------------------
(* The child: the programs read what they have room for of what was          *)
(* announced, then do their work, then write.                                *)

ChildGoto(r, from, to) == cpc[r] = from /\ cpc' = [cpc EXCEPT ![r] = to]

Read(r) ==
  /\ ChildGoto(r, "read", "read")
  /\ toRead[r] > 0 /\ inPipe[r] > 0
  /\ inPipe' = [inPipe EXCEPT ![r] = @ - 1]
  /\ toRead' = [toRead EXCEPT ![r] = @ - 1]
  /\ UNCHANGED <<worker, outPipe, held, toWrite>>

(* Mutant: a pipe that is empty for now is taken for ended. *)
HasReadEarly(r) == toRead[r] = 0 \/ inPipe[r] = 0

HasRead(r) == toRead[r] = 0 \/ (inPipe[r] = 0 /\ ~IsOpen(r, InWrite))

EndRead(r) ==
  /\ ChildGoto(r, "read", "run")
  /\ HasRead(r)
  /\ UNCHANGED <<worker, pipes, held, toRead, toWrite>>

Run(r) ==
  /\ ChildGoto(r, "run", "write")
  /\ \E n \in 0..MaxOut : toWrite' = [toWrite EXCEPT ![r] = n]
  /\ UNCHANGED <<worker, pipes, held, toRead>>

WriteOut(r) ==
  /\ ChildGoto(r, "write", "write")
  /\ toWrite[r] > 0 /\ CanWrite(r, outPipe, OutRead)
  /\ toWrite' = [toWrite EXCEPT ![r] = @ - 1]
  /\ outPipe' = Written(r, outPipe, OutRead)
  /\ UNCHANGED <<worker, inPipe, held, toRead>>

Exit(r) ==
  /\ ChildGoto(r, "write", "exit")
  /\ toWrite[r] = 0
  /\ held' = [held EXCEPT ![r] = {}]
  /\ UNCHANGED <<worker, pipes, toRead, toWrite>>

ChildStep(r) == Read(r) \/ EndRead(r) \/ Run(r) \/ WriteOut(r) \/ Exit(r)

-----------------------------------------------------------------------------
PipesNext == \E r \in Calls : WorkerStep(r) \/ ChildStep(r)

PipesSpec == PipesInit /\ [][PipesNext]_pipesVars

(* Workers and children go on when they can; the client reads its answer, or *)
(* is gone, so that no send waits for ever.                                  *)
Fairness == \A r \in Calls : WF_pipesVars(WorkerStep(r)) /\ WF_pipesVars(ChildStep(r))

FairPipes == PipesSpec /\ Fairness

-----------------------------------------------------------------------------
(* A program that goes on with less than it has room for, does so because    *)
(* the body was not waited for any longer: never because the pipe ended too  *)
(* early.                                                                    *)
ShortOnlyIfLate ==
  \A r \in Calls : cpc[r] \in {"run", "write", "exit"} => toRead[r] = 0 \/ r \in late

(* The child of r cannot go on before the child of q has exited: it waits    *)
(* for the end of a body that q could still write to, or for an answer to be *)
(* read that only q could read.                                              *)
WaitsFor(r, q) ==
  \/ /\ cpc[r] = "read" /\ ~HasRead(r) /\ inPipe[r] = 0
     /\ InWrite \notin server[r] /\ <<r, InWrite>> \in held[q]
  \/ /\ cpc[r] = "write" /\ toWrite[r] > 0 /\ ~CanWrite(r, outPipe, OutRead)
     /\ OutRead \notin server[r] /\ <<r, OutRead>> \in held[q]

Ring == \E ring \in (SUBSET Calls) \ {{}} :
          \A r \in ring : \E q \in ring \ {r} : WaitsFor(r, q)

(* The worker waits for the program to read, and the program for the worker. *)
BothFull == \E r \in Calls :
  /\ wpc[r] = "feed" /\ toFeed[r] > 0 /\ ~CanWrite(r, inPipe, InRead)
  /\ cpc[r] = "write" /\ toWrite[r] > 0 /\ ~CanWrite(r, outPipe, OutRead)

(* Every request comes to an end, however much of the body its client sends; *)
(* but for children that have each other's pipes open, and for a program     *)
(* that answers at length before it has read all of a long body.             *)
RequestsEnd ==
  \A r \in Calls : wpc[r] # "start" ~> (wpc[r] = "done" \/ Ring \/ BothFull)

=============================================================================
