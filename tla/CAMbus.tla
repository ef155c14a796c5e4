------------------------------- MODULE CAMbus -------------------------------
(***************************************************************************)
(* CAMbus (src/migi/cambus.py) between senders and one node: each send_tcp *)
(* opens a connection of its own, pushes one frame and closes; each        *)
(* receive_one_tcp accepts one connection, reads one frame and hands its   *)
(* event to process_muef_event, as tests/test_cambus_replay.py does. There *)
(* is no acknowledgement and no retry: whether to send again is the        *)
(* client's choice, and it may send what has already arrived.              *)
(*                                                                         *)
(* A frame is HeaderLen units and then PayloadLen units, which the network *)
(* carries over one by one; recv returns any number of those that have     *)
(* arrived. What process_muef_event does inside is GenesisNode's subject;  *)
(* here it stores the event under its id, and it takes effect, or is held, *)
(* denied or broken off and has none. An event's place in the fold is its  *)
(* sender's occurred_at, the moment it takes effect is the receiver's:     *)
(* whoever replays in between sees a prefix of the arrivals, not of the    *)
(* order.                                                                  *)
(***************************************************************************)
EXTENDS Replay, Sequences

CONSTANTS
    Send,           \* the calls of send_tcp
    Receive,        \* the calls of receive_one_tcp
    HeaderLen,      \* the length prefix, in units (4 bytes in the code)
    PayloadLen,     \* the packet, in units
    Scenarios,      \* which events come over the bus, with which patches
    NoSend, NoEvent

ASSUME FrameAssumption == HeaderLen \in Nat \ {0} /\ PayloadLen \in Nat \ {0}
ASSUME NoSendAssumption == NoSend \notin Send

FrameLen == HeaderLen + PayloadLen

VARIABLES
    patch,          \* the payload.state_patch of each event, fixed by its sender
    applied,        \* the events with an executed receipt so far
    remote,         \* the events that only the bus can bring to this node
    conn,           \* the sending end: its event, progress, units pushed
    arrived,        \* the units of each that have come out at the other end
    reset,          \* the connections that broke down between the ends
    backlog,        \* established connections that nobody has accepted yet
    recv,           \* the receiving end: its connection, progress, units got
    stored          \* the events in the node's store

busVars == <<conn, arrived, reset, backlog, recv>>
camVars == <<patch, applied, remote, stored, conn, arrived, reset, backlog, recv>>

CamInit ==
    /\ patch \in [Event -> Patch]
    /\ remote \in SUBSET Event
    /\ [remote |-> remote, patch |-> patch] \in Scenarios
    /\ conn = [s \in Send |-> [at |-> "new", event |-> NoEvent, pushed |-> 0]]
    /\ recv = [r \in Receive |-> [at |-> "new", conn |-> NoSend, got |-> 0]]
    /\ arrived = [s \in Send |-> 0]
    /\ reset = {}
    /\ backlog = <<>>
    /\ stored = {} /\ applied = {}

-----------------------------------------------------------------------------
(* The sending end. *)

(* Mutant of Encodable: the packet goes through json.dumps alone. *)
EncodableAny(e) == TRUE

(* encode_packet: canonical_json_bytes refuses floats anywhere. *)
Encodable(e) == Hashable(patch[e])

(* send_tcp: create_connection comes before encode_packet, so what cannot  *)
(* be encoded leaves a connection that is closed without a byte.           *)
SendTcp(s, e) ==
    /\ conn[s].at = "new"
    /\ e \in remote
    /\ conn' = [conn EXCEPT ![s].event = e,
                  ![s].at = IF Encodable(e) THEN "sending" ELSE "unencodable"]
    /\ backlog' = Append(backlog, s)
    /\ UNCHANGED <<patch, applied, remote, stored, arrived, reset, recv>>

(* sendall goes on; after the last unit it returns and the socket closes,  *)
(* whether or not anybody reads.                                           *)
PushUnit(s) ==
    /\ conn[s].at = "sending"
    /\ s \notin reset
    /\ LET pushed == conn[s].pushed + 1
       IN  conn' = [conn EXCEPT ![s].pushed = pushed,
                      ![s].at = IF pushed = FrameLen THEN "sent" ELSE "sending"]
    /\ UNCHANGED <<patch, applied, remote, stored, arrived, reset, backlog, recv>>

(* sendall raises half-way: its timeout, a reset, or the sender dies.      *)
FailToSend(s) ==
    /\ conn[s].at = "sending"
    /\ conn' = [conn EXCEPT ![s].at = "failed"]
    /\ UNCHANGED <<patch, applied, remote, stored, arrived, reset, backlog, recv>>

(* The connection breaks down; what was pushed and not yet read is lost,   *)
(* and a sender that has returned does not hear of it.                     *)
Reset(s) ==
    /\ conn[s].at \in {"sending", "sent"}
    /\ s \notin reset
    /\ reset' = reset \cup {s}
    /\ UNCHANGED <<patch, applied, remote, stored, conn, arrived, backlog, recv>>

(* The network carries a unit over, in its own time: what sendall has      *)
(* pushed may be under way long after the sender has closed.               *)
Deliver(s) ==
    /\ s \notin reset
    /\ arrived[s] < conn[s].pushed
    /\ arrived' = [arrived EXCEPT ![s] = @ + 1]
    /\ UNCHANGED <<patch, applied, remote, stored, conn, reset, backlog, recv>>

-----------------------------------------------------------------------------
(* The receiving end. *)

Move(r, from, to) ==
    /\ recv[r].at = from
    /\ recv' = [recv EXCEPT ![r].at = to]
    /\ UNCHANGED <<patch, remote, conn, arrived, reset>>

(* Clients receive only where somebody may send (a bound on the model).    *)
BeginReceive(r) ==
    /\ remote # {}
    /\ Move(r, "new", "accepting")
    /\ UNCHANGED <<applied, stored, backlog>>

Accept(r) ==
    /\ recv[r].at = "accepting"
    /\ backlog # <<>>
    /\ recv' = [recv EXCEPT ![r].at = "reading", ![r].conn = Head(backlog)]
    /\ backlog' = Tail(backlog)
    /\ UNCHANGED <<patch, applied, remote, stored, conn, arrived, reset>>

AcceptTimesOut(r) ==
    /\ backlog = <<>>
    /\ Move(r, "accepting", "raised")
    /\ UNCHANGED <<applied, stored, backlog>>

Sender(r) == recv[r].conn
Broken(r) == Sender(r) \in reset
Available(r) == arrived[Sender(r)] - recv[r].got
Closed(r) == conn[Sender(r)].at # "sending"

(* What _recv_exact still wants: of the header first, then of the payload. *)
Remaining(r) ==
    IF recv[r].got < HeaderLen THEN HeaderLen - recv[r].got ELSE FrameLen - recv[r].got

TakeChunk(r, n, complete) ==
    /\ recv[r].at = "reading"
    /\ ~Broken(r)
    /\ n <= Available(r) /\ n <= Remaining(r)
    /\ recv' = [recv EXCEPT ![r].got = @ + n,
                  ![r].at = IF complete THEN "returned" ELSE "reading"]
    /\ UNCHANGED <<patch, applied, remote, stored, conn, arrived, reset, backlog>>

(* Mutant of RecvChunk: one recv for the payload, however short it comes. *)
RecvChunkShort(r, n) == TakeChunk(r, n, recv[r].got + n > HeaderLen)

(* sock.recv(remaining); the packet is decoded once all of it is there.    *)
RecvChunk(r, n) == TakeChunk(r, n, recv[r].got + n = FrameLen)

(* recv returns b"" behind the last unit (ConnectionError), or raises      *)
(* ConnectionResetError.                                                   *)
StreamEnds(r) ==
    /\ recv[r].at = "reading"
    /\ Broken(r) \/ (Closed(r) /\ recv[r].got = conn[Sender(r)].pushed)
    /\ Move(r, "reading", "raised")
    /\ UNCHANGED <<applied, stored, backlog>>

(* Mutant of RecvTimesOut: the accepted socket has no timeout of its own. *)
RecvTimesOutNever(r) == FALSE /\ UNCHANGED camVars

(* Mutant of RecvTimesOut: the timeout is a deadline for the whole frame. *)
RecvTimesOutAnyway(r) ==
    /\ Move(r, "reading", "raised")
    /\ UNCHANGED <<applied, stored, backlog>>

(* recv waits for the next unit, or for the end of the stream, and nothing *)
(* comes in time: the sender is slow or silent, or has long sent all of it *)
(* and the network is slow.                                                *)
RecvTimesOut(r) ==
    /\ recv[r].at = "reading"
    /\ Available(r) = 0
    /\ Move(r, "reading", "raised")
    /\ UNCHANGED <<applied, stored, backlog>>

EventAt(r) == conn[Sender(r)].event

(* process_muef_event: the event takes effect ... *)
ProcessApplies(r) ==
    /\ Move(r, "returned", "processed")
    /\ EventAt(r) \notin stored
    /\ stored' = stored \cup {EventAt(r)}
    /\ applied' = applied \cup {EventAt(r)}
    /\ UNCHANGED backlog

(* ... or is stored and held or denied, or its handler ends too early ... *)
ProcessStoresOnly(r) ==
    /\ Move(r, "returned", "processed")
    /\ EventAt(r) \notin stored
    /\ stored' = stored \cup {EventAt(r)}
    /\ UNCHANGED <<applied, backlog>>

(* ... or its id is taken (IntegrityError). *)
ProcessRefuses(r) ==
    /\ Move(r, "returned", "duplicate")
    /\ EventAt(r) \in stored
    /\ UNCHANGED <<applied, stored, backlog>>

ReceiveStep(r) ==
    \/ Accept(r) \/ AcceptTimesOut(r)
    \/ \E n \in 1 .. FrameLen : RecvChunk(r, n)
    \/ StreamEnds(r) \/ RecvTimesOut(r)
    \/ ProcessApplies(r) \/ ProcessStoresOnly(r) \/ ProcessRefuses(r)

(* An event that a client on this node hands in itself. *)
ArriveLocally(e) ==
    /\ e \notin remote \cup stored
    /\ stored' = stored \cup {e}
    /\ applied' = applied \cup {e}
    /\ UNCHANGED <<patch, remote, busVars>>

CamNext ==
    \/ \E s \in Send, e \in Event : SendTcp(s, e)
    \/ \E s \in Send : PushUnit(s) \/ FailToSend(s) \/ Reset(s) \/ Deliver(s)
    \/ \E r \in Receive : BeginReceive(r) \/ ReceiveStep(r)
    \/ \E e \in Event : ArriveLocally(e)

CamSpec == CamInit /\ [][CamNext]_camVars

(* A receiving thread keeps running and its timeouts expire; senders and   *)
(* the network owe nothing.                                                *)
FairCamSpec == CamSpec /\ \A r \in Receive : WF_camVars(ReceiveStep(r))

-----------------------------------------------------------------------------
Writers(k) == {e \in applied : k \in DOMAIN patch[e]}

Replayed == Materialize(patch, applied)

(* What replay promises (docs/architecture/cambus-replay-v0.2.md:65): the  *)
(* fold gives each key the value of the last applied event that names it,  *)
(* and no value when that event deletes it or none exists. Last is last in *)
(* list_kind's text order of (occurred_at, event_id). That the order of    *)
(* arrival plays no part is so by construction: the fold reads the set of  *)
(* the applied events.                                                     *)
LastWriterWins ==
    /\ Replayed \in State
    /\ \A k \in Key :
          LET last == CHOOSE e \in Writers(k) : \A d \in Writers(k) : d <= e
          IN  IF Writers(k) = {} \/ patch[last][k] = Null
              THEN k \notin DOMAIN Replayed
              ELSE k \in DOMAIN Replayed /\ Replayed[k] = patch[last][k]

(* The only answer a sender ever gets is an exception, and it may rely on  *)
(* that: a send_tcp that raised has delivered nothing to any receiver, so  *)
(* to send again does not repeat anything. (One that returned may or may   *)
(* not have delivered.)                                                    *)
FailureIsDefinite ==
    \A s \in Send, r \in Receive :
        conn[s].at \in {"failed", "unencodable"} /\ Sender(r) = s =>
            recv[r].at \in {"reading", "raised"}

(* Floats cannot cross the bus: as long as everything applied has come     *)
(* over it, however it was resent, reordered or broken off, replay can     *)
(* hash the state.                                                         *)
RemoteStateHashes == applied \subseteq remote => Hashable(Replayed)

(* A receive that has begun returns or raises, whatever senders and the    *)
(* network do or leave undone.                                             *)
EveryReceiveEnds ==
    \A r \in Receive :
        recv[r].at \in {"accepting", "reading", "returned"}
            ~> recv[r].at \in {"processed", "duplicate", "raised"}

(* A frame that has come out whole at the receiving end while its receiver *)
(* is still reading is processed unless the connection breaks down: no     *)
(* deadline of the whole frame and no early end of file gets in its way,   *)
(* however slowly the units came. (A frame that was SENT whole may be lost *)
(* without anyone hearing of it: see RecvTimesOut.)                        *)
ArrivedFramesAreProcessed ==
    \A r \in Receive :
        recv[r].at = "reading" /\ arrived[Sender(r)] = FrameLen
            ~> recv[r].at \in {"processed", "duplicate"} \/ Broken(r)
=============================================================================
