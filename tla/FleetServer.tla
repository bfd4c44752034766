----------------------------- MODULE FleetServer ----------------------------
(***************************************************************************)
(* sim/fleet_main.c: a TCP server that streams the frames of one simulated *)
(* node to one client at a time, while others wait in the backlog.  The    *)
(* clients and the kernel are external: write takes any part of what it is *)
(* offered that fits the connection's buffer and blocks while there is no  *)
(* room, a client leaves at any moment, before it is accepted too, and the *)
(* server learns of it from a failed write, some writes later.             *)
(*                                                                         *)
(* The sample and its sequence number are functions of phase, so a frame   *)
(* is named by its phase; its bytes are numbered from 1.                   *)
(***************************************************************************)
EXTENDS Integers, Sequences

CONSTANTS
    PHASE_MOD,      \* 2^32 in the code: phase is a uint32_t
    FrameLen,       \* length of the frame of each phase (stuffing varies it)
    SockBuf,        \* bytes a connection holds that its client has not read
    Backlog         \* clients that may wait: listen(fd, 1)

ASSUME FleetAssumption ==
    /\ PHASE_MOD \in Nat \ {0}
    /\ FrameLen \in [0 .. PHASE_MOD - 1 -> Nat \ {0}]
    /\ SockBuf \in Nat \ {0} /\ Backlog \in Nat \ {0}

VARIABLES
    pc,             \* the next call of the server
    srv,            \* the listening socket: "closed", "open" or "listening"
    fds,            \* client sockets open
    phase,          \* main's counter, post-incremented
    frame, off,     \* the frame being written and the bytes written of it
    queue,          \* who waits to be accepted: "here" or already "left"
    client,         \* who is served: also "none", or "reset" (its RST has come)
    unread,         \* bytes in the connection
    chunk, turn     \* history: the bytes last written to this client, and the
                    \* parity of the number of clients accepted

server == <<pc, srv, fds, phase, frame, off>>
vars == <<server, queue, client, unread, chunk, turn>>

NoChunk == [frame |-> 0, from |-> 0, to |-> 0]

Init ==
    /\ pc = "socket" /\ srv = "closed" /\ fds = 0
    /\ phase = 0 /\ frame = 0 /\ off = 0
    /\ queue = <<>> /\ client = "none" /\ unread = 0
    /\ chunk = NoChunk /\ turn = 0

Idle == UNCHANGED <<fds, phase, frame, off, client, unread, chunk, turn>>

\* Mutant: a socket that cannot be bound stays open.
make_server_NoClose ==
    /\ Idle /\ UNCHANGED queue
    /\ \/ pc = "socket" /\ pc' = "bind" /\ srv' = "open"
       \/ pc = "bind" /\ pc' \in {"listen", "exited"} /\ UNCHANGED srv
       \/ pc = "listen" /\ pc' = "accept" /\ srv' = "listening"
       \/ pc = "socket" /\ pc' = "exited" /\ UNCHANGED srv
       \/ pc = "listen" /\ pc' = "exited" /\ UNCHANGED srv

\* make_server, call by call; each can fail and ends the program then.
make_server ==
    /\ Idle /\ UNCHANGED queue
    /\ \/ pc = "socket" /\ pc' = "bind" /\ srv' = "open"
       \/ pc = "bind" /\ pc' \in {"listen", "shut"} /\ UNCHANGED srv
       \/ pc = "listen" /\ pc' = "accept" /\ srv' = "listening"
       \/ pc = "socket" /\ pc' = "exited" /\ UNCHANGED srv
       \/ pc = "listen" /\ pc' = "shut" /\ UNCHANGED srv

\* close(fd) or close(srv), and return.
Shut ==
    /\ pc = "shut"
    /\ pc' = "exited" /\ srv' = "closed" /\ queue' = <<>>
    /\ Idle

\* accept returns the client that has waited longest; EINTR only tries again.
Accept ==
    /\ pc = "accept" /\ queue # <<>>
    /\ pc' = "frame" /\ fds' = fds + 1
    /\ client' = Head(queue) /\ queue' = Tail(queue)
    /\ unread' = 0 /\ chunk' = NoChunk /\ turn' = 1 - turn
    /\ UNCHANGED <<srv, phase, frame, off>>

\* Any other error of accept ends the program.
AcceptFails == pc = "accept" /\ pc' = "shut" /\ Idle /\ UNCHANGED <<srv, queue>>

\* fleet_sample(phase++) and fleet_build_frame, whose failure ends the
\* client's stream.
NextFrame ==
    /\ pc = "frame"
    /\ frame' = phase /\ phase' = (phase + 1) % PHASE_MOD /\ off' = 0
    /\ pc' \in {"write", "close"}
    /\ UNCHANGED <<srv, fds, queue, client, unread, chunk, turn>>

Room == IF pc = "write" /\ client # "reset"
        THEN {w \in 1 .. FrameLen[frame] - off : unread + w <= SockBuf}
        ELSE {}

Wrote(w) ==
    /\ w \in Room
    /\ chunk' = [frame |-> frame, from |-> off + 1, to |-> off + w]
    /\ unread' = unread + w
    /\ UNCHANGED <<srv, fds, phase, frame, queue, client, turn>>

\* Mutants: one byte too many is counted; a partial write counts as the
\* whole frame; the frame is written at once or not at all.
WriteSome_OneMore(w) ==
    /\ Wrote(w) /\ off' = off + w + 1
    /\ pc' = IF off' >= FrameLen[frame] THEN "sleep" ELSE "write"
WriteSome_IgnoresPartial(w) == Wrote(w) /\ off' = off + w /\ pc' = "sleep"
WriteSome_AllOrNothing(w) ==
    /\ Wrote(w) /\ off' = off + w /\ off' = FrameLen[frame]
    /\ pc' = "sleep"

\* write takes w bytes; the last one ends the loop.
WriteSome(w) ==
    /\ Wrote(w) /\ off' = off + w
    /\ pc' = IF off' = FrameLen[frame] THEN "sleep" ELSE "write"

\* Mutants: the socket is not closed; the failed write is tried again.
WriteFails_NoClose ==
    /\ pc = "write" /\ client = "reset"
    /\ off' = -1 /\ pc' = "accept" /\ client' = "none"
    /\ UNCHANGED <<srv, fds, phase, frame, queue, unread, chunk, turn>>
WriteFails_Retries == pc = "write" /\ client = "reset" /\ UNCHANGED vars

\* write fails because the client has left, one that was blocked too;
\* SIGPIPE is ignored.
WriteFails ==
    /\ pc = "write" /\ client = "reset"
    /\ off' = -1 /\ pc' = "close"
    /\ UNCHANGED <<srv, fds, phase, frame, queue, client, unread, chunk, turn>>

\* write fails for another reason; the code tells none from another.
WriteErrs ==
    /\ pc = "write" /\ client # "reset"
    /\ off' = -1 /\ pc' = "close"
    /\ UNCHANGED <<srv, fds, phase, frame, queue, client, unread, chunk, turn>>

Sleep == pc = "sleep" /\ pc' = "frame" /\ Idle /\ UNCHANGED <<srv, queue>>

Close ==
    /\ pc = "close" /\ pc' = "accept"
    /\ fds' = fds - 1 /\ client' = "none" /\ unread' = 0
    /\ UNCHANGED <<srv, phase, frame, off, queue, chunk, turn>>

-----------------------------------------------------------------------------
(* The clients and the kernel. *)

Others == UNCHANGED <<server, chunk, turn>>

Connect ==
    /\ srv = "listening" /\ Len(queue) < Backlog
    /\ queue' = Append(queue, "here")
    /\ UNCHANGED <<client, unread>> /\ Others

\* A client leaves, served or waiting.
Leave ==
    /\ \/ client = "here" /\ client' = "left" /\ UNCHANGED queue
       \/ /\ \E i \in DOMAIN queue : queue[i] = "here" /\ queue' = [queue EXCEPT ![i] = "left"]
          /\ UNCHANGED client
    /\ UNCHANGED unread /\ Others

Receive ==
    /\ client = "here" /\ unread > 0 /\ unread' = unread - 1
    /\ UNCHANGED <<queue, client>> /\ Others

Rst ==
    /\ client = "left" /\ client' = "reset"
    /\ UNCHANGED <<queue, unread>> /\ Others

Server == \/ make_server \/ Shut \/ Accept
          \/ NextFrame \/ (\E w \in Room : WriteSome(w)) \/ WriteFails \/ Sleep \/ Close

Next == Server \/ AcceptFails \/ WriteErrs \/ Connect \/ Leave \/ Receive \/ Rst

\* The server runs and the kernel delivers the RST of a client that left;
\* no client has to come, to read or to leave, and no call has to fail.
Spec == Init /\ [][Next]_vars /\ WF_vars(Server) /\ WF_vars(Rst)

-----------------------------------------------------------------------------
Serving == {"frame", "write", "sleep", "close"}

TypeOK ==
    /\ pc \in Serving \cup {"socket", "bind", "listen", "accept", "shut", "exited"}
    /\ srv \in {"closed", "open", "listening"}
    /\ fds \in {0, 1}
    /\ phase \in 0 .. PHASE_MOD - 1 /\ frame \in 0 .. PHASE_MOD - 1
    /\ off \in -1 .. FrameLen[frame]
    /\ queue \in Seq({"here", "left"}) /\ Len(queue) <= Backlog
    /\ client \in {"none", "here", "left", "reset"}
    /\ unread \in 0 .. SockBuf
    /\ turn \in {0, 1}

(***************************************************************************)
(* The one client socket is open exactly while a client is served: however *)
(* a client's stream ends, nothing is left open when the next accept is    *)
(* called ("no fd leak", fleet_main.c:101), and none is closed twice.  The *)
(* program exits with the listening socket closed, whichever call failed.  *)
(***************************************************************************)
NoFdLeak ==
    /\ (fds = 1) = (pc \in Serving)
    /\ pc \in Serving \cup {"accept"} => srv = "listening"
    /\ pc = "exited" => srv = "closed"

(***************************************************************************)
(* Every client's stream starts with a whole frame and goes on without a   *)
(* gap, a repetition or a torn frame, however write splits the frames,     *)
(* however long it blocks and wherever the client before it left: partial  *)
(* writes resume at the right byte, and while a client is served phase++   *)
(* happens once per frame, wraps and is not reset.                         *)
(***************************************************************************)
Follows(c, d) ==
    \/ c = NoChunk /\ d.from = 1
    \/ c # NoChunk /\ d.frame = c.frame /\ d.from = c.to + 1
    \/ /\ c # NoChunk /\ c.to = FrameLen[c.frame]
       /\ d.frame = (c.frame + 1) % PHASE_MOD /\ d.from = 1

StreamOfWholeFrames ==
    [][chunk' \notin {chunk, NoChunk} => Follows(chunk, chunk')]_vars

(***************************************************************************)
(* A client that leaves is noticed, also by a server that is blocked in    *)
(* write because that client had stopped reading, and whoever waits is     *)
(* accepted next (unless accept fails and the program ends).               *)
(***************************************************************************)
LeavingIsNoticed ==
    \A t \in {0, 1} :
        client = "left" /\ turn = t ~>
            turn # t \/ (pc = "accept" /\ queue = <<>>) \/ pc = "exited"

(***************************************************************************)
(* A client that stays and reads what is there to read gets frame after    *)
(* frame, through the wrap of phase, also when a frame is longer than the  *)
(* room its connection has.                                                *)
(***************************************************************************)
ReaderIsFed ==
    WF_vars(Receive) /\ <>[](client = "here") => []<>(frame = PHASE_MOD - 1)
=============================================================================
