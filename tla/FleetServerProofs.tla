------------------------- MODULE FleetServerProofs --------------------------
(***************************************************************************)
(* What FleetServer promises for every PHASE_MOD, FrameLen, SockBuf and    *)
(* Backlog: no socket is left open, and every client gets whole frames.    *)
(***************************************************************************)
EXTENDS FleetServer, TLAPS

(***************************************************************************)
(* Which calls the server can be at, and what is open there.               *)
(***************************************************************************)
FdInv ==
    /\ pc \in Serving \cup {"socket", "bind", "listen", "accept", "shut", "exited"}
    /\ fds \in {0, 1}
    /\ pc = "socket" => srv = "closed"
    /\ NoFdLeak

Phase == 0 .. PHASE_MOD - 1

\* Where the next byte belongs: after the last one of the frame before ...
AtFrame(next) ==
    chunk = NoChunk \/ /\ chunk.to = FrameLen[chunk.frame]
                       /\ next = (chunk.frame + 1) % PHASE_MOD

\* ... or after the byte last written.
InFrame == chunk.frame = frame /\ chunk.to = off

(***************************************************************************)
(* How the history variable chunk, the last bytes written, goes together   *)
(* with the frame being written and the position in it.  StreamOfWhole-    *)
(* Frames alone says nothing of the states between two writes.             *)
(***************************************************************************)
StreamInv ==
    /\ phase \in Phase /\ frame \in Phase /\ off \in Int
    /\ chunk \in [frame : Phase, from : Nat, to : Nat]
    /\ chunk # NoChunk => chunk.to > 0
    /\ pc \in {"frame", "sleep"} => AtFrame(phase)
    /\ pc = "write" =>
          /\ phase = (frame + 1) % PHASE_MOD
          /\ off \in 0 .. FrameLen[frame] - 1
          /\ off = 0 => AtFrame(frame)
          /\ off > 0 => InFrame

-----------------------------------------------------------------------------
LEMMA FdStart == Init => FdInv
  BY DEF Init, FdInv, NoFdLeak, Serving

LEMMA FdStep == FdInv /\ [Next]_vars => FdInv'
<1>. SUFFICES ASSUME FdInv, [Next]_vars PROVE FdInv'
  OBVIOUS
<1>. USE DEF FdInv, NoFdLeak, Serving
<1>1. CASE make_server
  BY <1>1 DEF make_server, Idle
<1>2. CASE Shut
  BY <1>2 DEF Shut, Idle
<1>3. CASE Accept
  BY <1>3 DEF Accept
<1>4. CASE AcceptFails
  BY <1>4 DEF AcceptFails, Idle
<1>5. CASE NextFrame
  BY <1>5 DEF NextFrame
<1>6. CASE \E w \in Room : WriteSome(w)
  BY <1>6 DEF WriteSome, Wrote, Room
<1>7. CASE WriteFails
  BY <1>7 DEF WriteFails
<1>8. CASE Sleep
  BY <1>8 DEF Sleep, Idle
<1>9. CASE Close
  BY <1>9 DEF Close
<1>10. CASE Connect \/ Leave \/ Receive \/ Rst
  BY <1>10 DEF Connect, Leave, Receive, Rst, Others, server
<1>11. CASE UNCHANGED vars
  BY <1>11 DEF vars, server
<1>12. CASE WriteErrs
  BY <1>12 DEF WriteErrs
<1>. QED
  BY <1>1, <1>2, <1>3, <1>4, <1>5, <1>6, <1>7, <1>8, <1>9, <1>10, <1>11, <1>12
  DEF Next, Server

\* The descriptors: however a client's stream or the program ends, what was
\* opened is closed, once.
THEOREM NothingLeftOpen == Spec => []NoFdLeak
<1>1. FdInv => NoFdLeak
  BY DEF FdInv
<1>. QED
  BY <1>1, FdStart, FdStep, PTL DEF Spec

-----------------------------------------------------------------------------
\* phase++ stays a phase.
LEMMA Successor == \A p \in Phase : (p + 1) % PHASE_MOD \in Phase
  BY FleetAssumption DEF Phase

\* A frame has a byte at least.
LEMMA FrameHasBytes == \A p \in Phase : FrameLen[p] \in Nat \ {0}
  BY FleetAssumption DEF Phase

\* write: the bytes it takes are the next ones, and the server stays where
\* StreamInv says.
LEMMA WriteContinues ==
  ASSUME StreamInv, NEW w \in Room, WriteSome(w)
  PROVE  StreamInv' /\ Follows(chunk, chunk')
<1>1. /\ pc = "write" /\ w \in 1 .. FrameLen[frame] - off
      /\ chunk' = [frame |-> frame, from |-> off + 1, to |-> off + w]
      /\ off' = off + w /\ frame' = frame /\ phase' = phase
      /\ pc' = IF off' = FrameLen[frame] THEN "sleep" ELSE "write"
  BY DEF WriteSome, Wrote, Room
<1>2. frame \in Phase /\ FrameLen[frame] \in Nat \ {0} /\ off \in 0 .. FrameLen[frame] - 1
  BY <1>1, FrameHasBytes DEF StreamInv
<1>3. chunk' # NoChunk /\ chunk'.frame = frame /\ chunk'.from = off + 1 /\ chunk'.to = off + w
  BY <1>1, <1>2 DEF NoChunk
<1>4. StreamInv'
  <2>1. chunk' \in [frame : Phase, from : Nat, to : Nat] /\ chunk'.to > 0
    BY <1>1, <1>2
  <2>2. CASE off' = FrameLen[frame]
    <3>1. pc' = "sleep" /\ chunk'.to = FrameLen[chunk'.frame]
      BY <1>1, <1>3, <2>2
    <3>2. phase' = (chunk'.frame + 1) % PHASE_MOD
      BY <1>1, <1>3 DEF StreamInv
    <3>. QED
      BY <1>1, <1>2, <2>1, <3>1, <3>2 DEF StreamInv, AtFrame
  <2>3. CASE off' # FrameLen[frame]
    <3>1. pc' = "write" /\ off' \in 1 .. FrameLen[frame] - 1
      BY <1>1, <1>2, <2>3
    <3>. QED
      BY <1>1, <1>2, <1>3, <2>1, <3>1 DEF StreamInv, InFrame
  <2>. QED
    BY <2>2, <2>3
<1>5. Follows(chunk, chunk')
  <2>1. CASE off = 0
    BY <1>1, <1>3, <2>1 DEF StreamInv, AtFrame, Follows
  <2>2. CASE off > 0
    <3>1. chunk.to = off /\ chunk.frame = frame
      BY <1>1, <2>2 DEF StreamInv, InFrame
    <3>2. chunk # NoChunk
      BY <2>2, <3>1 DEF NoChunk
    <3>. QED
      BY <1>3, <3>1, <3>2 DEF Follows
  <2>. QED
    BY <1>2, <2>1, <2>2
<1>. QED
  BY <1>4, <1>5

\* Every other step keeps StreamInv and writes nothing.
LEMMA OthersWriteNothing ==
  ASSUME StreamInv, [Next]_vars, ~ \E w \in Room : WriteSome(w)
  PROVE  StreamInv' /\ chunk' \in {chunk, NoChunk}
<1>. USE DEF StreamInv, AtFrame, InFrame
<1>1. CASE make_server
  BY <1>1 DEF make_server, Idle
<1>2. CASE Shut \/ AcceptFails \/ Sleep
  BY <1>2 DEF Shut, AcceptFails, Sleep, Idle
<1>3. CASE Accept
  <2>1. 0 \in Phase
    BY FleetAssumption DEF Phase
  <2>. QED
    BY <1>3, <2>1 DEF Accept, NoChunk
<1>4. CASE NextFrame
  <2>1. phase' \in Phase /\ phase' = (frame' + 1) % PHASE_MOD /\ frame' \in Phase
    BY <1>4, Successor DEF NextFrame
  <2>2. off' \in 0 .. FrameLen[frame'] - 1 /\ off' = 0
    BY <1>4, <2>1, FrameHasBytes DEF NextFrame
  <2>3. frame' = phase /\ AtFrame(phase) /\ chunk' = chunk
    BY <1>4 DEF NextFrame
  <2>. QED
    BY <1>4, <2>1, <2>2, <2>3 DEF NextFrame
<1>5. CASE WriteFails \/ WriteErrs
  BY <1>5 DEF WriteFails, WriteErrs
<1>6. CASE Close
  BY <1>6 DEF Close
<1>7. CASE Connect \/ Leave \/ Receive \/ Rst
  BY <1>7 DEF Connect, Leave, Receive, Rst, Others, server
<1>8. CASE UNCHANGED vars
  BY <1>8 DEF vars, server
<1>. QED
  BY <1>1, <1>2, <1>3, <1>4, <1>5, <1>6, <1>7, <1>8 DEF Next, Server

\* Every client gets whole frames, in order and without a gap, from the first
\* byte of one on.
THEOREM StreamsAreWhole == Spec => StreamOfWholeFrames
<1>1. Init => StreamInv
  BY FleetAssumption DEF Init, StreamInv, Phase, NoChunk
<1>2. StreamInv /\ [Next]_vars => StreamInv'
  BY WriteContinues, OthersWriteNothing
<1>3. StreamInv /\ [Next]_vars =>
        [chunk' \notin {chunk, NoChunk} => Follows(chunk, chunk')]_vars
  BY WriteContinues, OthersWriteNothing
<1>. QED
  BY <1>1, <1>2, <1>3, PTL DEF Spec, StreamOfWholeFrames

-----------------------------------------------------------------------------
\* What accept and Leave do to the queue.
LEMMA QueueOps ==
  ASSUME NEW q \in Seq({"here", "left"})
  PROVE  /\ Len(q) \in Nat
         /\ q # <<>> => /\ Head(q) \in {"here", "left"} /\ Tail(q) \in Seq({"here", "left"})
                        /\ Len(Tail(q)) = Len(q) - 1
         /\ Append(q, "here") \in Seq({"here", "left"}) /\ Len(Append(q, "here")) = Len(q) + 1
         /\ \A n \in DOMAIN q : /\ [q EXCEPT ![n] = "left"] \in Seq({"here", "left"})
                                /\ Len([q EXCEPT ![n] = "left"]) = Len(q)
  OBVIOUS

LEMMA TypeStep == FdInv /\ TypeOK /\ [Next]_vars => TypeOK'
<1>. SUFFICES ASSUME FdInv, TypeOK, [Next]_vars PROVE TypeOK'
  OBVIOUS
<1>0. /\ SockBuf \in Nat /\ Backlog \in Nat /\ 0 \in Phase
      /\ FrameLen[frame] \in Nat
  BY FleetAssumption, FrameHasBytes DEF TypeOK, Phase
<1>. USE <1>0, FleetAssumption DEF TypeOK
<1>1. CASE make_server
  BY <1>1 DEF make_server, Idle, Serving
<1>2. CASE Shut
  BY <1>2 DEF Shut, Idle
<1>3. CASE Accept
  <2>1. Head(queue) \in {"here", "left"} /\ Tail(queue) \in Seq({"here", "left"})
        /\ Len(Tail(queue)) <= Backlog
    BY <1>3, QueueOps DEF Accept
  <2>2. fds' = 1
    BY <1>3 DEF Accept, FdInv, NoFdLeak, Serving
  <2>. QED
    BY <1>3, <2>1, <2>2 DEF Accept, Serving
<1>4. CASE AcceptFails
  BY <1>4 DEF AcceptFails, Idle
<1>5. CASE NextFrame
  <2>1. phase' \in Phase /\ frame' = phase /\ off' = 0 /\ FrameLen[phase] \in Nat
    BY <1>5, Successor, FrameHasBytes DEF NextFrame, Phase
  <2>. QED
    BY <1>5, <2>1 DEF NextFrame, Serving, Phase
<1>6. ASSUME NEW w \in Room, WriteSome(w)
      PROVE  TypeOK'
  <2>1. w \in 1 .. FrameLen[frame] - off /\ unread + w <= SockBuf
    BY DEF Room
  <2>2. off' \in -1 .. FrameLen[frame] /\ unread' \in 0 .. SockBuf
    BY <1>6, <2>1 DEF WriteSome, Wrote
  <2>. QED
    BY <1>6, <2>2 DEF WriteSome, Wrote, Serving
<1>7. CASE WriteFails \/ WriteErrs
  <2>1. /\ pc' = "close" /\ off' = -1 /\ frame' = frame
        /\ UNCHANGED <<srv, fds, phase, queue, client, unread, turn>>
    BY <1>7 DEF WriteFails, WriteErrs
  <2>2. off' \in -1 .. FrameLen[frame']
    BY <2>1
  <2>. QED
    BY <2>1, <2>2 DEF Serving
<1>8. CASE Sleep
  BY <1>8 DEF Sleep, Idle, Serving
<1>9. CASE Close
  <2>1. fds' = 0
    BY <1>9 DEF Close, FdInv, NoFdLeak, Serving
  <2>. QED
    BY <1>9, <2>1 DEF Close
<1>10. CASE Connect
  BY <1>10, QueueOps DEF Connect, Others, server
<1>11. CASE Leave
  <2>1. queue' \in Seq({"here", "left"}) /\ Len(queue') = Len(queue)
    BY <1>11, QueueOps DEF Leave
  <2>. QED
    BY <1>11, <2>1 DEF Leave, Others, server
<1>12. CASE Receive \/ Rst
  <2>1. unread' \in 0 .. SockBuf /\ client' \in {"none", "here", "left", "reset"}
    BY <1>12 DEF Receive, Rst
  <2>2. UNCHANGED <<server, queue, chunk, turn>>
    BY <1>12 DEF Receive, Rst, Others
  <2>. QED
    BY <2>1, <2>2 DEF server
<1>13. CASE UNCHANGED vars
  BY <1>13 DEF vars, server
<1>. QED
  BY <1>1, <1>2, <1>3, <1>4, <1>5, <1>6, <1>7, <1>8, <1>9, <1>10, <1>11, <1>12, <1>13
  DEF Next, Server

\* The sockets, the queue and the connection stay within their bounds.
THEOREM ServerTypeCorrect == Spec => []TypeOK
<1>1. Init => TypeOK
  <2>1. 0 \in Phase /\ FrameLen[0] \in Nat /\ SockBuf \in Nat /\ Backlog \in Nat
    BY FleetAssumption, FrameHasBytes DEF Phase
  <2>. QED
    BY <2>1 DEF Init, TypeOK, Serving, Phase
<1>. QED
  BY <1>1, FdStart, FdStep, TypeStep, PTL DEF Spec
=============================================================================
