------------------------------- MODULE Ranges -------------------------------
(***************************************************************************)
(* The part of a file that is sent, and what the answer says of it         *)
(* (serve_static_file: http/request_handler.c:193-246, and                 *)
(* https/request_handler.c:251-330, https/server.c:54-83 and 592-627).     *)
(*                                                                         *)
(* A Range header is a record: "whole" for none, "both" of its numbers,    *)
(* "first" for "bytes=a-", "last" for "bytes=-b".                          *)
(***************************************************************************)
EXTENDS Integers, FiniteSets

CONSTANT BUFFER_SIZE \* 4096 in the code

ASSUME RangesAssumption == BUFFER_SIZE \in Nat \ {0}

(* The two calls of sscanf.  "bytes=-b" has its sign read as that of the     *)
(* first number.                                                             *)
StartByte(range) ==
  CASE range.kind = "whole" -> 0
    [] range.kind = "last"  -> 0 - range.last
    [] range.kind \in {"first", "both"} -> range.first

EndByte(range, size) == IF range.kind = "both" THEN range.last ELSE size - 1

(* Mutant: the last byte is not counted. *)
ContentLengthShort(range, size) == EndByte(range, size) - StartByte(range)

ContentLength(range, size) == EndByte(range, size) - StartByte(range) + 1

(* fseek, which fails for a negative number. *)
Position(range) == IF StartByte(range) < 0 THEN 0 ELSE StartByte(range)

Smaller(m, n) == IF m < n THEN m ELSE n

(* How many bytes the file has from there on. *)
There(range, size) == IF Position(range) > size THEN 0 ELSE size - Position(range)

(* The plain server: how many bytes are read and sent, one buffer at a time, *)
(* when limit are wanted; a negative one is a huge size_t.                   *)
Sent(range, size, limit) ==
  LET there == There(range, size)
      wanted == IF limit < 0 THEN there + BUFFER_SIZE ELSE limit
      loop[round \in 0..(there + 1)] ==
        IF round = 0 THEN 0
        ELSE loop[round - 1]
             + Smaller(there - loop[round - 1], Smaller(BUFFER_SIZE, wanted - loop[round - 1]))
  IN loop[there + 1]

SentPlain(range, size) == Sent(range, size, ContentLength(range, size))

(* The TLS server reads to the end of the file, whatever it announces.  A    *)
(* write (the header is number 0, then come the buffers) finds room; or it   *)
(* has to wait, and is sent at an EPOLLOUT; or it has to wait, and its       *)
(* second try is refused, which closes the connection.                       *)
Outcomes == {"room", "waits", "refused"}

(* Who writes on after a write: the worker's loop, as long as there is room; *)
(* from then on the EPOLLOUT that flushes the write before, which takes one  *)
(* buffer more; nobody, if that found room at once, since the flush has told *)
(* epoll to wait for input alone.                                            *)
After(mode, outcome) ==
  IF outcome = "waits" /\ mode # "left" THEN "events"
  ELSE IF outcome = "room" /\ mode = "loop" THEN "loop" ELSE "left"

SentTls(there, outcomes) ==
  LET mode[round \in 0..there] ==
        After(IF round = 0 THEN "loop" ELSE mode[round - 1], outcomes[round])
      loop[round \in 0..there] ==
        IF round = 0 THEN 0
        ELSE IF mode[round - 1] = "left" \/ outcomes[round] = "refused" THEN loop[round - 1]
        ELSE loop[round - 1] + Smaller(there - loop[round - 1], BUFFER_SIZE)
  IN loop[there]

-----------------------------------------------------------------------------
(* Bound: the sizes and numbers. *)
Bound == 6
RangeKinds == {"whole", "first", "last", "both"}
RangeHeaders == [kind : RangeKinds, first : 0..Bound, last : 0..Bound]

(* A range that is inside the file, as a browser that seeks asks for it.     *)
Inside(range, size) ==
  CASE range.kind = "whole" -> TRUE
    [] range.kind = "first" -> range.first < size
    [] range.kind = "both"  -> range.first <= range.last /\ range.last < size
    [] range.kind = "last"  -> FALSE

FirstAsked(range) == IF range.kind = "whole" THEN 0 ELSE range.first
LastAsked(range, size) == IF range.kind = "both" THEN range.last ELSE size - 1

(* Of any range, inside the file or not, the plain server sends as many      *)
(* bytes as it announces if and only if the file has as many from where it   *)
(* starts; so it does for every range inside the file, which is announced as *)
(* it was asked for.  The last n bytes ("bytes=-n") are never answered so:   *)
(* the whole file is sent, and n bytes more than that are announced.         *)
RangeHonoured(range, size) ==
  LET announced == ContentLength(range, size)
  IN /\ SentPlain(range, size) = announced <=> announced \in 0..There(range, size)
     /\ Inside(range, size) =>
          /\ Position(range) = FirstAsked(range)
          /\ announced = Cardinality(FirstAsked(range)..LastAsked(range, size))
          /\ announced <= There(range, size)
     /\ range.kind = "last" /\ range.last > 0 =>
          announced = SentPlain(range, size) + range.last

(* The writes after which the TLS server leaves the rest of a file unsent:   *)
(* one that is refused, and one that finds room after one that had to wait.  *)
LastWrites(there, outcomes) ==
  {j \in 0..there : \/ outcomes[j] = "refused"
                    \/ outcomes[j] = "room" /\ \E i \in 0..j : outcomes[i] = "waits"}

(* The TLS server sends the file from where it starts to its end, and no     *)
(* less, if there is no such write; otherwise it sends exactly the buffers   *)
(* up to the first such write, whatever it has announced.                    *)
FileEnds(there, outcomes) ==
  LET ends == LastWrites(there, outcomes)
  IN /\ ends = {} => SentTls(there, outcomes) = there
     /\ \A j \in ends :
          (\A i \in ends : j <= i) =>
            SentTls(there, outcomes)
              = Smaller(there, BUFFER_SIZE * (IF outcomes[j] = "refused" /\ j > 0 THEN j - 1 ELSE j))

RangesRight ==
  /\ \A size \in 0..Bound, range \in RangeHeaders : RangeHonoured(range, size)
  /\ \A there \in 0..Bound : \A outcomes \in [0..there -> Outcomes] : FileEnds(there, outcomes)

=============================================================================
