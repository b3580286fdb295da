------------------------------- MODULE Frames -------------------------------
(***************************************************************************)
(* The WebSocket frames of the bridge: the loop that takes the frames of a *)
(* browser out of what one recv returned (bridge.c:390-451), and the frame *)
(* that the bytes of the chat server are put in (bridge.c:454-490).        *)
(*                                                                         *)
(* A frame is its length code, whether it is masked, and the length of its *)
(* payload.  What a browser sends is a sequence of them; it is received    *)
(* recv after recv, each of which may end anywhere.                        *)
(***************************************************************************)
EXTENDS Naturals, Sequences

CONSTANT SizeMod  \* what a size_t is modulo of: 2^64

ASSUME FramesAssumption == SizeMod \in Nat /\ SizeMod >= 4 * 65536

BUFFER_SIZE == 8192

(* What a browser, and the standard, mean by a length code.                  *)
Code(length) == CASE length < 126                   -> length
                  [] length >= 126 /\ length < 65536 -> 126
                  [] length >= 65536                 -> 127
ExtraBytes(code) == CASE code = 126 -> 2 [] code = 127 -> 8 [] OTHER -> 0

Frame(length, masked) == [code |-> Code(length), masked |-> masked, length |-> length]
SizeOf(frame) == 2 + ExtraBytes(frame.code) + (IF frame.masked THEN 4 ELSE 0) + frame.length

(* Where each frame of a sequence ends. *)
EndOf(frames) ==
  LET end[i \in 0..Len(frames)] == IF i = 0 THEN 0 ELSE end[i - 1] + SizeOf(frames[i])
  IN end

-----------------------------------------------------------------------------
(* The loop. *)

(* Mutant: the extended length is not counted with the header.               *)
HeaderLenShort(frame) == IF frame.code = 127 THEN 10 ELSE 2

HeaderLen(frame) == CASE frame.code = 126 -> 4 [] frame.code = 127 -> 10 [] OTHER -> 2

TotalFrameSize(frame) ==
  (HeaderLen(frame) + (IF frame.masked THEN 4 ELSE 0) + frame.length) % SizeMod

(* What the loop does with the n bytes that recv returned, if they begin     *)
(* with these frames: it stops at a header, or a frame, that is not there as *)
(* a whole, and what was received of that is dropped.                        *)
Loop(frames, n) ==
  LET loop[i \in 0..Len(frames)] ==
        IF i = 0 THEN [processed |-> 0, passed |-> 0, on |-> TRUE]
        ELSE LET before == loop[i - 1]
                 remaining == n - before.processed
             IN IF /\ before.on /\ remaining >= 2
                   /\ remaining >= HeaderLen(frames[i])
                   /\ remaining >= TotalFrameSize(frames[i])
                THEN [processed |-> before.processed + TotalFrameSize(frames[i]),
                      passed |-> i, on |-> TRUE]
                ELSE [before EXCEPT !.on = FALSE]
  IN loop[Len(frames)]

(* One recv after another, each up to one of the cuts.  Where something was  *)
(* dropped, the bridge is out of step: the next recv begins inside a frame,  *)
(* whose bytes are taken for a header.  What is passed on from there is      *)
(* nothing that was sent, and is not counted.                                *)
Begun == [received |-> 0, passed |-> 0, inStep |-> TRUE]

RecvNext(frames, before, cut) ==
  LET n == cut - before.received
      loop == Loop(SubSeq(frames, before.passed + 1, Len(frames)), n)
  IN IF before.inStep
       THEN [received |-> cut, passed |-> before.passed + loop.passed,
             inStep |-> loop.processed = n]
       ELSE [before EXCEPT !.received = cut]

Stream(frames, cuts) ==
  LET state[i \in 0..Len(cuts)] ==
        IF i = 0 THEN Begun ELSE RecvNext(frames, state[i - 1], cuts[i])
  IN state

(* forward_target_to_client: n bytes in one frame, without a mask.  For a    *)
(* code of 127 the length itself is not written.                             *)
TargetFrame(n) ==
  CASE n <= 125              -> [code |-> n, masked |-> FALSE, length |-> n]
    [] n > 125 /\ n <= 65535 -> [code |-> 126, masked |-> FALSE, length |-> n]
    [] n > 65535             -> [code |-> 127, masked |-> FALSE, length |-> 0]

-----------------------------------------------------------------------------
(* Bound: the lengths about the changes of the code. *)
Lengths == {0, 1, 125, 126, 4000, 65536}

(* Bound: one recv or two, that end about the ends of the frames.            *)
Cuts(frames) ==
  LET end == EndOf(frames)
      k == Len(frames)
  IN {end[i] + d : i \in 0..k, d \in 0..5} \cup {end[i] - 1 : i \in 1..k}

Recvs(frames) ==
  {cuts \in UNION {[1..m -> Cuts(frames)] : m \in 1..2} :
     \A j \in 1..Len(cuts) :
       LET from == IF j = 1 THEN 0 ELSE cuts[j - 1]
       IN cuts[j] \in (from + 1)..(from + BUFFER_SIZE)}

(* As long as the recvs before have ended where a frame ends, each passes on *)
(* what has come as a whole.                                                 *)
AtEnd(frames, cut) == \E i \in 0..Len(frames) : EndOf(frames)[i] = cut

StreamWhole(frames, cuts) ==
  LET state == Stream(frames, cuts)
      end   == EndOf(frames)
  IN \A j \in 1..Len(cuts) :
       (\A m \in 1..(j - 1) : AtEnd(frames, cuts[m])) =>
         \A i \in 0..Len(frames) : state[j].passed >= i <=> end[i] <= cuts[j]

TargetWhole(n) ==
  TargetFrame(n) = Frame(n, FALSE) /\ SizeOf(TargetFrame(n)) <= BUFFER_SIZE

(* However the bytes of a browser's frames are cut, what the bridge has      *)
(* passed on is exactly the frames that have come as a whole, up to and with *)
(* the first recv that ends inside a frame (bridge.c:392-451): that frame is *)
(* dropped, and of what follows nothing is said.  And what the chat server   *)
(* sends at a time goes out as one frame that says how long it is and fits   *)
(* the buffer, up to the most that recv may return (bridge.c:456-490).       *)
FramesRight ==
  /\ \A k \in 1..3 : \A lengths \in [1..k -> Lengths], masked \in BOOLEAN :
       LET frames == [i \in 1..k |-> Frame(lengths[i], masked)]
       IN \A cuts \in Recvs(frames) : StreamWhole(frames, cuts)
  /\ \A n \in 1..(BUFFER_SIZE - 10) : TargetWhole(n)

=============================================================================
