---------------------------- MODULE CAMbusProofs ----------------------------
(***************************************************************************)
(* What holds of CAMbus for every number of senders and receivers and      *)
(* every length of header and payload.                                     *)
(***************************************************************************)
EXTENDS CAMbus, TLAPS, FiniteSetTheorems, WellFoundedInduction

ConnStage == {"new", "sending", "sent", "failed", "unencodable"}
RecvStage ==
    {"new", "accepting", "reading", "returned", "processed", "duplicate", "raised"}

(* The two ends' variables. *)
EndsTypeOK ==
    /\ conn \in [Send -> [at : ConnStage, event : Event \cup {NoEvent}, pushed : 0 .. FrameLen]]
    /\ recv \in [Receive -> [at : RecvStage, conn : Send \cup {NoSend}, got : 0 .. FrameLen]]
    /\ backlog \in Seq(Send)
    /\ arrived \in [Send -> Nat]

(* A connection is "sent" from its last unit on. *)
SentIsWhole == \A s \in Send : conn[s].at = "sent" <=> conn[s].pushed = FrameLen

(* No more arrives than was pushed. *)
ArrivedIsPushed == \A s \in Send : arrived[s] <= conn[s].pushed

(* A receiver without a connection has nothing, one with a connection has  *)
(* no more than was pushed, and one that goes on to process has it all.    *)
GotIsPushed ==
    \A r \in Receive :
        /\ Sender(r) = NoSend =>
              recv[r].got = 0 /\ recv[r].at \in {"new", "accepting", "raised"}
        /\ recv[r].at \in {"new", "accepting"} => Sender(r) = NoSend
        /\ Sender(r) # NoSend => recv[r].got <= conn[Sender(r)].pushed
        /\ recv[r].at \in {"returned", "processed", "duplicate"} => recv[r].got = FrameLen

EndsInv == EndsTypeOK /\ SentIsWhole /\ ArrivedIsPushed /\ GotIsPushed

LEMMA FrameLength == FrameLen \in Nat /\ FrameLen > HeaderLen /\ FrameLen > 0
BY FrameAssumption DEF FrameLen

LEMMA EndsInvInit == ASSUME CamInit PROVE EndsInv
BY FrameLength DEF CamInit, EndsInv, EndsTypeOK, SentIsWhole, ArrivedIsPushed,
                   GotIsPushed, ConnStage, RecvStage, Sender

(* The sending end never takes back what it has pushed. *)
LEMMA SenderStep ==
    ASSUME EndsInv, NEW s \in Send,
           (\E e \in Event : SendTcp(s, e)) \/ PushUnit(s) \/ FailToSend(s) \/ Reset(s)
    PROVE  EndsInv'
<1>0. /\ conn \in [Send -> [at : ConnStage, event : Event \cup {NoEvent}, pushed : 0 .. FrameLen]]
      /\ \A t \in Send : conn[t].pushed \in 0 .. FrameLen /\ conn[t].pushed \in Nat
      /\ conn[s].at = "sending" => conn[s].pushed + 1 \in 0 .. FrameLen
      /\ conn[s] \in [at : ConnStage, event : Event \cup {NoEvent}, pushed : 0 .. FrameLen]
  <2>1. conn[s].pushed \in 0 .. FrameLen
    BY DEF EndsInv, EndsTypeOK
  <2> QED
    BY <2>1, FrameLength DEF EndsInv, EndsTypeOK, SentIsWhole
<1> DEFINE Forward ==
      /\ conn' \in [Send -> [at : ConnStage, event : Event \cup {NoEvent}, pushed : 0 .. FrameLen]]
      /\ \A t \in Send : conn'[t].pushed >= conn[t].pushed
      /\ \A t \in Send : conn'[t].at = "sent" <=> conn'[t].pushed = FrameLen
<1>1. Forward
  <2>1. ASSUME NEW at \in ConnStage, NEW event \in Event \cup {NoEvent},
               NEW pushed \in 0 .. FrameLen, pushed >= conn[s].pushed,
               at = "sent" <=> pushed = FrameLen,
               conn'[s] = [at |-> at, event |-> event, pushed |-> pushed],
               conn' = [conn EXCEPT ![s] = conn'[s]]
        PROVE  Forward
    <3>1. conn'[s] = [at |-> at, event |-> event, pushed |-> pushed]
      BY <2>1
    <3>2. \A t \in Send \ {s} : conn'[t] = conn[t]
      BY <1>0, <2>1
    <3>3. \A t \in Send \ {s} : conn'[t].at = "sent" <=> conn'[t].pushed = FrameLen
      BY <3>2 DEF EndsInv, SentIsWhole
    <3>4. \A t \in Send \ {s} : conn'[t].pushed >= conn[t].pushed
      BY <1>0, <3>2
    <3> QED
      BY <1>0, <2>1, <3>1, <3>3, <3>4
  <2>2. CASE \E e \in Event : SendTcp(s, e)
    <3>1. PICK e \in Event : SendTcp(s, e)
      BY <2>2
    <3>2. PICK at \in {"sending", "unencodable"} :
             /\ conn'[s] = [at |-> at, event |-> e, pushed |-> conn[s].pushed]
             /\ conn' = [conn EXCEPT ![s] = conn'[s]]
      BY <1>0, <3>1 DEF SendTcp
    <3>3. conn[s].pushed # FrameLen
      BY <3>1 DEF SendTcp, EndsInv, SentIsWhole
    <3> QED
      BY <1>0, <2>1, <3>2, <3>3 DEF ConnStage
  <2>3. CASE PushUnit(s)
    <3>1. PICK at \in {"sending", "sent"} :
             /\ conn'[s] = [at |-> at, event |-> conn[s].event, pushed |-> conn[s].pushed + 1]
             /\ conn' = [conn EXCEPT ![s] = conn'[s]]
             /\ at = "sent" <=> conn[s].pushed + 1 = FrameLen
      BY <1>0, <2>3 DEF PushUnit
    <3>2. conn[s].at = "sending" /\ conn[s].event \in Event \cup {NoEvent}
      BY <1>0, <2>3 DEF PushUnit
    <3>3. /\ conn[s].pushed + 1 \in 0 .. FrameLen
          /\ conn[s].pushed + 1 >= conn[s].pushed
          /\ at \in ConnStage
      BY <1>0, <3>2 DEF ConnStage
    <3> HIDE DEF Forward
    <3> QED
      BY <2>1, <3>1, <3>2, <3>3
  <2>4. CASE FailToSend(s)
    <3>1. /\ conn'[s] = [at |-> "failed", event |-> conn[s].event, pushed |-> conn[s].pushed]
          /\ conn' = [conn EXCEPT ![s] = conn'[s]]
      BY <1>0, <2>4 DEF FailToSend
    <3>2. conn[s].pushed # FrameLen
      BY <2>4 DEF FailToSend, EndsInv, SentIsWhole
    <3> QED
      BY <1>0, <2>1, <3>1, <3>2 DEF ConnStage
  <2>5. CASE Reset(s)
    BY <1>0, <2>5 DEF Reset, EndsInv, SentIsWhole
  <2> QED
    BY <2>2, <2>3, <2>4, <2>5
<1>2. backlog' \in Seq(Send) /\ recv' = recv /\ arrived' = arrived
  <2>1. backlog \in Seq(Send) /\ Append(backlog, s) \in Seq(Send)
    BY DEF EndsInv, EndsTypeOK
  <2>2. /\ backlog' \in {backlog, Append(backlog, s)}
        /\ recv' = recv /\ arrived' = arrived
    BY DEF SendTcp, PushUnit, FailToSend, Reset
  <2> QED
    BY <2>1, <2>2
<1>3. GotIsPushed'
  <2> SUFFICES ASSUME NEW r \in Receive, Sender(r) # NoSend
               PROVE  recv[r].got <= conn'[Sender(r)].pushed
    BY <1>2 DEF EndsInv, GotIsPushed, Sender
  <2>1. Sender(r) \in Send /\ recv[r].got \in 0 .. FrameLen
    BY DEF EndsInv, EndsTypeOK, Sender
  <2>2. conn[Sender(r)].pushed \in Nat /\ conn'[Sender(r)].pushed \in 0 .. FrameLen
    BY <1>0, <1>1, <2>1
  <2>3. recv[r].got <= conn[Sender(r)].pushed
    BY DEF EndsInv, GotIsPushed
  <2> QED
    BY <1>1, <2>1, <2>2, <2>3, FrameLength
<1>4. ArrivedIsPushed'
  <2> SUFFICES ASSUME NEW t \in Send PROVE arrived[t] <= conn'[t].pushed
    BY <1>2 DEF ArrivedIsPushed
  <2>1. /\ arrived[t] \in Nat /\ conn[t].pushed \in Nat
        /\ arrived[t] <= conn[t].pushed
    BY <1>0 DEF EndsInv, EndsTypeOK, ArrivedIsPushed
  <2>2. conn'[t].pushed \in 0 .. FrameLen /\ conn'[t].pushed >= conn[t].pushed
    BY <1>1
  <2> QED
    BY <2>1, <2>2, FrameLength
<1> QED
  BY <1>1, <1>2, <1>3, <1>4 DEF EndsInv, EndsTypeOK, SentIsWhole

(* What the network carries over has been pushed. *)
LEMMA NetworkStep ==
    ASSUME EndsInv, NEW s \in Send, Deliver(s)
    PROVE  EndsInv'
<1>1. /\ arrived[s] \in Nat /\ conn[s].pushed \in 0 .. FrameLen
      /\ arrived[s] < conn[s].pushed
      /\ arrived' = [arrived EXCEPT ![s] = @ + 1]
      /\ UNCHANGED <<conn, recv, backlog>>
  BY DEF EndsInv, EndsTypeOK, Deliver
<1>2. arrived[s] + 1 \in Nat /\ arrived[s] + 1 <= conn[s].pushed
  BY <1>1, FrameLength
<1>3. arrived' \in [Send -> Nat] /\ ArrivedIsPushed'
  BY <1>1, <1>2 DEF EndsInv, EndsTypeOK, ArrivedIsPushed
<1> QED
  BY <1>1, <1>3 DEF EndsInv, EndsTypeOK, SentIsWhole, GotIsPushed, Sender

(* A receiver's steps keep what holds of it, and touch no other end. *)
LEMMA ReceiverStep ==
    ASSUME EndsInv, NEW r \in Receive, BeginReceive(r) \/ ReceiveStep(r)
    PROVE  EndsInv'
<1>0. /\ recv \in [Receive -> [at : RecvStage, conn : Send \cup {NoSend}, got : 0 .. FrameLen]]
      /\ recv[r].got \in 0 .. FrameLen /\ Sender(r) \in Send \cup {NoSend}
      /\ \A s \in Send : conn[s].pushed \in 0 .. FrameLen
  BY DEF EndsInv, EndsTypeOK, Sender
<1>1. ASSUME NEW at \in RecvStage, NEW sender \in Send \cup {NoSend}, NEW got \in 0 .. FrameLen,
             recv'[r] = [at |-> at, conn |-> sender, got |-> got],
             recv' = [recv EXCEPT ![r] = recv'[r]],
             sender = NoSend => got = 0 /\ at \in {"new", "accepting", "raised"},
             at \in {"new", "accepting"} => sender = NoSend,
             sender # NoSend => got <= conn[sender].pushed,
             at \in {"returned", "processed", "duplicate"} => got = FrameLen,
             conn' = conn, arrived' = arrived, backlog' \in Seq(Send)
      PROVE  EndsInv'
  <2>1. recv'[r] = [at |-> at, conn |-> sender, got |-> got]
    BY <1>1
  <2>2. \A q \in Receive \ {r} : recv'[q] = recv[q]
    BY <1>0, <1>1
  <2>3. recv' \in [Receive -> [at : RecvStage, conn : Send \cup {NoSend}, got : 0 .. FrameLen]]
    BY <1>0, <1>1
  <2>4. GotIsPushed'
    BY <1>1, <2>1, <2>2 DEF EndsInv, GotIsPushed, Sender
  <2> QED
    BY <1>1, <2>3, <2>4 DEF EndsInv, EndsTypeOK, SentIsWhole, ArrivedIsPushed
<1>2. ASSUME NEW from \in RecvStage, NEW to \in RecvStage, Move(r, from, to),
             backlog' = backlog,
             to \in {"accepting", "raised"} \/ from = "returned",
             to = "accepting" => from = "new",
             from = "returned" => to \in {"processed", "duplicate"}
      PROVE  EndsInv'
  <2>1. /\ recv'[r] = [at |-> to, conn |-> Sender(r), got |-> recv[r].got]
        /\ recv' = [recv EXCEPT ![r] = recv'[r]]
    BY <1>0, <1>2 DEF Move, Sender
  <2>2. /\ Sender(r) = NoSend => recv[r].got = 0 /\ from \in {"new", "accepting", "raised"}
        /\ from = "new" => Sender(r) = NoSend
        /\ Sender(r) # NoSend => recv[r].got <= conn[Sender(r)].pushed
        /\ from = "returned" => recv[r].got = FrameLen
    BY <1>2 DEF Move, EndsInv, GotIsPushed
  <2>3. conn' = conn /\ arrived' = arrived /\ backlog' \in Seq(Send)
    BY <1>2 DEF Move, EndsInv, EndsTypeOK
  <2> QED
    BY <1>0, <1>1, <1>2, <2>1, <2>2, <2>3
<1>3. CASE BeginReceive(r)
  BY <1>2, <1>3 DEF BeginReceive, RecvStage
<1>4. CASE Accept(r)
  <2>1. Head(backlog) \in Send /\ Tail(backlog) \in Seq(Send)
    BY <1>4 DEF Accept, EndsInv, EndsTypeOK
  <2>2. Sender(r) = NoSend /\ recv[r].got = 0
    BY <1>4 DEF Accept, EndsInv, GotIsPushed
  <2>3. /\ recv'[r] = [at |-> "reading", conn |-> Head(backlog), got |-> 0]
        /\ recv' = [recv EXCEPT ![r] = recv'[r]]
    BY <1>0, <1>4, <2>2 DEF Accept
  <2>4. conn' = conn /\ arrived' = arrived /\ 0 <= conn[Head(backlog)].pushed /\ 0 \in 0 .. FrameLen
    BY <1>0, <1>4, <2>1, FrameLength DEF Accept
  <2>5. backlog' \in Seq(Send)
    BY <1>4, <2>1 DEF Accept
  <2> QED
    BY <1>1, <2>1, <2>3, <2>4, <2>5, NoSendAssumption DEF RecvStage
<1>5. CASE \E n \in 1 .. FrameLen : RecvChunk(r, n)
  <2>1. PICK n \in 1 .. FrameLen : RecvChunk(r, n)
    BY <1>5
  <2>2. Sender(r) \in Send
    BY <1>0, <2>1 DEF RecvChunk, TakeChunk, EndsInv, GotIsPushed
  <2>3. /\ recv[r].got + n <= conn[Sender(r)].pushed
        /\ recv[r].got + n \in 0 .. FrameLen
    <3>1. arrived[Sender(r)] \in Nat /\ arrived[Sender(r)] <= conn[Sender(r)].pushed
      BY <2>2 DEF EndsInv, EndsTypeOK, ArrivedIsPushed
    <3> QED
      BY <1>0, <2>1, <2>2, <3>1, FrameLength DEF RecvChunk, TakeChunk, Available
  <2>4. PICK at \in {"returned", "reading"} :
           /\ recv'[r] = [at |-> at, conn |-> Sender(r), got |-> recv[r].got + n]
           /\ recv' = [recv EXCEPT ![r] = recv'[r]]
           /\ at = "returned" => recv[r].got + n = FrameLen
    BY <1>0, <2>1 DEF RecvChunk, TakeChunk, Sender
  <2>5. conn' = conn /\ arrived' = arrived /\ backlog' \in Seq(Send)
    BY <2>1 DEF RecvChunk, TakeChunk, EndsInv, EndsTypeOK
  <2> QED
    BY <1>1, <2>2, <2>3, <2>4, <2>5, NoSendAssumption DEF RecvStage
<1>6. CASE AcceptTimesOut(r) \/ StreamEnds(r) \/ RecvTimesOut(r)
  BY <1>2, <1>6 DEF AcceptTimesOut, StreamEnds, RecvTimesOut, RecvStage
<1>7. CASE ProcessApplies(r) \/ ProcessStoresOnly(r) \/ ProcessRefuses(r)
  BY <1>2, <1>7 DEF ProcessApplies, ProcessStoresOnly, ProcessRefuses, RecvStage
<1> QED
  BY <1>3, <1>4, <1>5, <1>6, <1>7 DEF ReceiveStep

LEMMA EndsAreKept == CamSpec => []EndsInv
<1>1. CamInit => EndsInv
  BY EndsInvInit
<1>2. EndsInv /\ [CamNext]_camVars => EndsInv'
  <2> SUFFICES ASSUME EndsInv, [CamNext]_camVars PROVE EndsInv'
    OBVIOUS
  <2>1. CASE \E s \in Send, e \in Event : SendTcp(s, e)
    BY <2>1, SenderStep
  <2>2. CASE \E s \in Send : PushUnit(s) \/ FailToSend(s) \/ Reset(s) \/ Deliver(s)
    BY <2>2, SenderStep, NetworkStep
  <2>3. CASE \E r \in Receive : BeginReceive(r) \/ ReceiveStep(r)
    BY <2>3, ReceiverStep
  <2>4. CASE (\E e \in Event : ArriveLocally(e)) \/ UNCHANGED camVars
    BY <2>4 DEF ArriveLocally, camVars, busVars, EndsInv, EndsTypeOK,
                SentIsWhole, ArrivedIsPushed, GotIsPushed, Sender
  <2> QED
    BY <2>1, <2>2, <2>3, <2>4 DEF CamNext
<1> QED
  BY <1>1, <1>2, PTL DEF CamSpec

(* A send_tcp that raised, or closed without a byte, has delivered its     *)
(* event to nobody, whatever the network did: a receiver of its connection *)
(* is still reading or has raised, so to send again does not repeat it.    *)
THEOREM FailedSendsDeliverNothing == CamSpec => []FailureIsDefinite
<1>1. EndsInv => FailureIsDefinite
  <2> SUFFICES ASSUME EndsInv, NEW s \in Send, NEW r \in Receive,
                      conn[s].at \in {"failed", "unencodable"}, Sender(r) = s
               PROVE  recv[r].at \in {"reading", "raised"}
    BY DEF FailureIsDefinite
  <2>1. /\ conn[s].pushed \in 0 .. FrameLen /\ conn[s].pushed # FrameLen
        /\ recv[r].got \in 0 .. FrameLen /\ recv[r].at \in RecvStage
    BY DEF EndsInv, EndsTypeOK, SentIsWhole
  <2>2. recv[r].got <= conn[s].pushed /\ recv[r].at \notin {"new", "accepting"}
    BY NoSendAssumption DEF EndsInv, GotIsPushed
  <2>3. recv[r].got # FrameLen
    BY <2>1, <2>2, FrameLength
  <2> QED
    BY <2>1, <2>2, <2>3 DEF EndsInv, GotIsPushed, RecvStage
<1> QED
  BY <1>1, EndsAreKept, PTL

-----------------------------------------------------------------------------
(* What replay computes. StateBefore is a recursive function: that it has  *)
(* a value at every place, and what this value is, follows by looking at   *)
(* the least place where it would not.                                     *)

(* A set of natural numbers has a least element. *)
LEMMA LeastElement ==
    ASSUME NEW T, T \subseteq Nat, T # {}
    PROVE  \E i \in T : \A j \in T : i <= j
<1>1. PICK i \in T : \A j \in T : <<j, i>> \notin OpToRel(<, Nat)
  BY NatLessThanWellFounded, WFMin
<1>2. \A j \in T : ~(j < i)
  BY <1>1 DEF OpToRel
<1> QED
  BY <1>2

(* Of the subsets without a largest element, one of least size has none    *)
(* to remove.                                                              *)
LEMMA LargestElement ==
    ASSUME NEW T, T \subseteq Nat, IsFiniteSet(T), T # {}
    PROVE  \E i \in T : \A j \in T : j <= i
<1> DEFINE Bad == {U \in SUBSET T : U # {} /\ ~\E i \in U : \A j \in U : j <= i}
           Sizes == {Cardinality(U) : U \in Bad}
<1>1. ASSUME Bad # {} PROVE FALSE
  <2>1. \A U \in Bad : IsFiniteSet(U) /\ Cardinality(U) \in Nat
    BY FS_Subset, FS_CardinalityType
  <2>2. Sizes \subseteq Nat /\ Sizes # {}
    BY <1>1, <2>1
  <2>3. PICK least \in Sizes : \A n \in Sizes : least <= n
    <3> HIDE DEF Sizes
    <3> QED
      BY <2>2, LeastElement
  <2>4. PICK U \in Bad : \A V \in Bad : Cardinality(U) <= Cardinality(V)
    BY <2>3
  <2>5. PICK x \in U : TRUE
    BY <2>4
  <2>6. /\ IsFiniteSet(U \ {x}) /\ Cardinality(U \ {x}) = Cardinality(U) - 1
    BY <2>1, <2>5, FS_RemoveElement
  <2>7. U \ {x} \notin Bad
    <3>1. Cardinality(U) \in Nat /\ ~(Cardinality(U) <= Cardinality(U) - 1)
      BY <2>1, <2>4
    <3> HIDE DEF Bad
    <3> QED
      BY <2>4, <2>6, <3>1
  <2>8. U \subseteq Nat /\ ~\E i \in U : \A j \in U : j <= i
    BY <2>4
  <2>9. U \ {x} # {}
    BY <2>5, <2>8
  <2>10. PICK i \in U \ {x} : \A j \in U \ {x} : j <= i
    BY <2>4, <2>7, <2>9
  <2> QED
    BY <2>5, <2>8, <2>10
<1> QED
  BY <1>1

(* What one place in the order adds to the state. *)
After(p, done, n, state) ==
    IF n \in done THEN ApplyPatch(state, p[n]) ELSE state

(* A key that the patch names has what the patch says of it, any other    *)
(* key what it had.                                                        *)
LEMMA PatchApplied ==
    ASSUME NEW state \in State, NEW p \in Patch,
           NEW result, result = ApplyPatch(state, p)
    PROVE  /\ result \in State
           /\ \A k \in DOMAIN p :
                 IF p[k] = Null THEN k \notin DOMAIN result
                 ELSE k \in DOMAIN result /\ result[k] = p[k]
           /\ \A k \in Key \ DOMAIN p :
                 /\ k \in DOMAIN result <=> k \in DOMAIN state
                 /\ k \in DOMAIN state => result[k] = state[k]
<1> DEFINE deleted == {k \in DOMAIN p : p[k] = Null}
           written == DOMAIN p \ deleted
           keys == (DOMAIN state \ deleted) \cup written
<1>1. /\ DOMAIN state \subseteq Key /\ \A k \in DOMAIN state : state[k] \in Value
      /\ DOMAIN p \subseteq Key /\ \A k \in DOMAIN p : p[k] \in Value \cup {Null}
  BY DEF State, Patch
<1>2. result = [k \in keys |-> IF k \in written THEN p[k] ELSE state[k]]
  BY DEF ApplyPatch
<1>3. \A k \in keys : (IF k \in written THEN p[k] ELSE state[k]) \in Value
  BY <1>1
<1>4. keys \in SUBSET Key
  BY <1>1
<1>5. result \in [keys -> Value]
  <2> HIDE DEF keys, written, deleted
  <2> QED
    BY <1>2, <1>3
<1>6. result \in State
  <2> HIDE DEF keys, written, deleted
  <2> QED
    BY <1>4, <1>5 DEF State
<1>7. DOMAIN result = keys
  BY <1>2
<1> QED
  BY <1>1, <1>2, <1>6, <1>7

LEMMA EmptyIsState == EmptyState \in State /\ DOMAIN EmptyState = {}
<1>1. EmptyState \in [{} -> Value] /\ {} \in SUBSET Key
  BY DEF EmptyState
<1> QED
  BY <1>1 DEF State, EmptyState

LEMMA AfterIsState ==
    ASSUME NEW p \in [Event -> Patch], NEW done \in SUBSET Event
    PROVE  \A n \in Nat, state \in State : After(p, done, n, state) \in State
BY PatchApplied DEF After

(* The states before the places up to n, if the fold is defined that far. *)
Folds(p, done, n) ==
    {f \in [0 .. n -> State] :
        /\ f[0] = EmptyState
        /\ \A i \in 0 .. n : i # 0 => f[i] = After(p, done, i - 1, f[i - 1])}

LEMMA FoldsAgree ==
    ASSUME NEW p, NEW done, NEW m \in Nat, NEW n \in Nat,
           NEW f \in Folds(p, done, m), NEW g \in Folds(p, done, n)
    PROVE  \A i \in Nat : i <= m /\ i <= n => f[i] = g[i]
<1> DEFINE Differ == {i \in Nat : i <= m /\ i <= n /\ f[i] # g[i]}
<1>1. ASSUME Differ # {} PROVE FALSE
  <2>1. PICK i \in Differ : \A j \in Differ : i <= j
    <3>1. Differ \subseteq Nat
      OBVIOUS
    <3> HIDE DEF Differ
    <3> QED
      BY <1>1, <3>1, LeastElement
  <2>2. i # 0
    BY <2>1 DEF Folds
  <2>3. i - 1 \in Nat /\ i - 1 <= m /\ i - 1 <= n /\ i - 1 \notin Differ
    BY <2>1, <2>2
  <2>4. f[i - 1] = g[i - 1]
    BY <2>3
  <2>5. /\ f[i] = After(p, done, i - 1, f[i - 1])
        /\ g[i] = After(p, done, i - 1, g[i - 1])
    BY <2>1, <2>2 DEF Folds
  <2> QED
    BY <2>1, <2>4, <2>5
<1> QED
  BY <1>1

LEMMA FoldsExist ==
    ASSUME NEW p \in [Event -> Patch], NEW done \in SUBSET Event
    PROVE  \A n \in Nat : Folds(p, done, n) # {}
<1> DEFINE Missing == {n \in Nat : Folds(p, done, n) = {}}
<1>1. ASSUME Missing # {} PROVE FALSE
  <2>1. PICK n \in Missing : \A m \in Missing : n <= m
    <3>1. Missing \subseteq Nat
      OBVIOUS
    <3> HIDE DEF Missing
    <3> QED
      BY <1>1, <3>1, LeastElement
  <2>2. n # 0
    <3>1. [i \in 0 .. 0 |-> EmptyState] \in Folds(p, done, 0)
      BY EmptyIsState DEF Folds
    <3> QED
      BY <2>1, <3>1
  <2>3. n - 1 \in Nat /\ n - 1 \notin Missing
    BY <2>1, <2>2
  <2>4. PICK f \in Folds(p, done, n - 1) : TRUE
    BY <2>3
  <2>5. f \in [0 .. n - 1 -> State] /\ f[n - 1] \in State
    BY <2>3, <2>4 DEF Folds
  <2> DEFINE last == After(p, done, n - 1, f[n - 1])
             g == [i \in 0 .. n |-> IF i = n THEN last ELSE f[i]]
  <2>6. last \in State
    BY <2>3, <2>5, AfterIsState
  <2>7. g \in [0 .. n -> State] /\ g[0] = EmptyState
    <3> HIDE DEF last
    <3> QED
      BY <2>2, <2>3, <2>4, <2>5, <2>6 DEF Folds
  <2>8. ASSUME NEW i \in 0 .. n, i # 0 PROVE g[i] = After(p, done, i - 1, g[i - 1])
    <3>1. CASE i = n
      <4>1. g[i] = last /\ g[i - 1] = f[n - 1]
        <5> HIDE DEF last
        <5> QED
          BY <2>8, <2>3, <3>1
      <4> QED
        BY <3>1, <4>1
    <3>2. CASE i # n
      <4>1. g[i] = f[i] /\ g[i - 1] = f[i - 1] /\ i \in 0 .. n - 1
        <5> HIDE DEF last
        <5> QED
          BY <2>8, <2>3, <3>2
      <4>2. f[i] = After(p, done, i - 1, f[i - 1])
        BY <2>4, <2>8, <4>1 DEF Folds
      <4> QED
        BY <4>1, <4>2
    <3> QED
      BY <3>1, <3>2
  <2>9. g \in Folds(p, done, n)
    <3> HIDE DEF g
    <3> QED
      BY <2>7, <2>8 DEF Folds
  <2> QED
    BY <2>1, <2>9
<1> QED
  BY <1>1

(* The recursive definition of StateBefore has a solution, the diagonal of *)
(* the folds, so StateBefore satisfies it.                                 *)
LEMMA StateBeforeUnfolds ==
    ASSUME NEW p \in [Event -> Patch], NEW done \in SUBSET Event,
           NEW before, before = StateBefore(p, done)
    PROVE  /\ before[0] = EmptyState
           /\ \A n \in Nat : before[n + 1] = After(p, done, n, before[n])
           /\ \A n \in Nat : before[n] \in State
<1> DEFINE fold(n) == CHOOSE f \in Folds(p, done, n) : TRUE
           F == [n \in Nat |-> fold(n)[n]]
<1>1. \A n \in Nat : fold(n) \in Folds(p, done, n)
  BY FoldsExist
<1>2. \A n \in Nat : F[n] = fold(n)[n] /\ fold(n)[n] \in State
  <2> HIDE DEF fold
  <2>1. \A n \in Nat : fold(n) \in [0 .. n -> State] /\ n \in 0 .. n
    BY <1>1 DEF Folds
  <2> QED
    BY <2>1
<1>3. F[0] = EmptyState
  <2> HIDE DEF fold
  <2>1. fold(0)[0] = EmptyState
    BY <1>1 DEF Folds
  <2> QED
    BY <2>1
<1>4. ASSUME NEW n \in Nat, n # 0 PROVE F[n] = After(p, done, n - 1, F[n - 1])
  <2> HIDE DEF fold
  <2>1. fold(n)[n] = After(p, done, n - 1, fold(n)[n - 1])
    BY <1>1, <1>4 DEF Folds
  <2>2. n - 1 \in Nat
    BY <1>4
  <2>3. fold(n)[n - 1] = fold(n - 1)[n - 1]
    BY <1>1, <2>2, FoldsAgree
  <2> QED
    BY <1>2, <2>1, <2>2, <2>3
<1>5. F = [n \in Nat |->
              IF n = 0 THEN EmptyState
              ELSE IF n - 1 \in done THEN ApplyPatch(F[n - 1], p[n - 1])
              ELSE F[n - 1]]
  <2> HIDE DEF fold
  <2>1. \A n \in Nat :
           F[n] = IF n = 0 THEN EmptyState
                  ELSE IF n - 1 \in done THEN ApplyPatch(F[n - 1], p[n - 1])
                  ELSE F[n - 1]
    BY <1>3, <1>4 DEF After
  <2>2. F = [n \in Nat |-> F[n]]
    OBVIOUS
  <2> HIDE DEF F
  <2> QED
    BY <2>1, <2>2
<1>6. before = [n \in Nat |->
                   IF n = 0 THEN EmptyState
                   ELSE IF n - 1 \in done THEN ApplyPatch(before[n - 1], p[n - 1])
                   ELSE before[n - 1]]
  <2> HIDE DEF F
  <2> QED
    BY <1>5 DEF StateBefore
<1>7. \A n \in Nat :
         before[n] = IF n = 0 THEN EmptyState
                     ELSE IF n - 1 \in done THEN ApplyPatch(before[n - 1], p[n - 1])
                     ELSE before[n - 1]
  BY <1>6
<1>8. before[0] = EmptyState
  BY <1>7
<1>9. ASSUME NEW n \in Nat PROVE before[n + 1] = After(p, done, n, before[n])
  <2>1. n + 1 \in Nat /\ n + 1 # 0 /\ (n + 1) - 1 = n
    OBVIOUS
  <2> QED
    BY <1>7, <2>1 DEF After
<1> DEFINE Strange == {n \in Nat : before[n] \notin State}
<1>10. ASSUME Strange # {} PROVE FALSE
  <2>1. PICK n \in Strange : \A m \in Strange : n <= m
    <3>1. Strange \subseteq Nat
      OBVIOUS
    <3> HIDE DEF Strange
    <3> QED
      BY <1>10, <3>1, LeastElement
  <2>2. n # 0
    BY <1>8, <2>1, EmptyIsState
  <2>3. n - 1 \in Nat /\ n - 1 \notin Strange
    BY <2>1, <2>2
  <2>4. n = (n - 1) + 1 /\ before[n - 1] \in State
    BY <2>1, <2>3
  <2>5. before[n] = After(p, done, n - 1, before[n - 1])
    BY <1>9, <2>3, <2>4
  <2> QED
    BY <2>1, <2>3, <2>4, <2>5, AfterIsState
<1> QED
  BY <1>8, <1>9, <1>10

(* The applied events before place n that name the key k. *)
WritersBefore(p, done, n, k) == {e \in done : e < n /\ k \in DOMAIN p[e]}

(* What the last of them says of the key. *)
ShowsLastWriter(p, done, n, k, state) ==
    LET writers == WritersBefore(p, done, n, k)
    IN  /\ writers = {} => k \notin DOMAIN state
        /\ \A e \in writers :
              (\A d \in writers : d <= e) =>
                  IF p[e][k] = Null THEN k \notin DOMAIN state
                  ELSE k \in DOMAIN state /\ state[k] = p[e][k]

LEMMA NextPlaceShowsLastWriter ==
    ASSUME NEW p \in [Event -> Patch], NEW done \in SUBSET Event, NEW n \in Nat,
           NEW k \in Key, NEW state \in State, ShowsLastWriter(p, done, n, k, state),
           NEW next, next = After(p, done, n, state)
    PROVE  ShowsLastWriter(p, done, n + 1, k, next)
<1> DEFINE old == WritersBefore(p, done, n, k)
           new == WritersBefore(p, done, n + 1, k)
<1>1. done \subseteq Nat
  BY EventAssumption
<1>2. CASE n \in done /\ k \in DOMAIN p[n]
  <2>1. n \in new /\ \A d \in new : d <= n
    BY <1>1, <1>2 DEF WritersBefore
  <2>2. \A e \in new : (\A d \in new : d <= e) => e = n
    BY <1>1, <2>1 DEF WritersBefore
  <2>3. IF p[n][k] = Null THEN k \notin DOMAIN next ELSE k \in DOMAIN next /\ next[k] = p[n][k]
    BY <1>2, PatchApplied DEF After
  <2> HIDE DEF new
  <2> QED
    BY <2>1, <2>2, <2>3 DEF ShowsLastWriter, new
<1>3. CASE ~(n \in done /\ k \in DOMAIN p[n])
  <2>1. \A e \in Nat : e < n + 1 <=> e < n \/ e = n
    OBVIOUS
  <2>2. new = old
    BY <1>1, <1>3, <2>1 DEF WritersBefore
  <2>3. /\ k \in DOMAIN next <=> k \in DOMAIN state
        /\ k \in DOMAIN state => next[k] = state[k]
    BY <1>3, PatchApplied DEF After
  <2>4. /\ old = {} => k \notin DOMAIN state
        /\ \A e \in old :
              (\A d \in old : d <= e) =>
                  IF p[e][k] = Null THEN k \notin DOMAIN state
                  ELSE k \in DOMAIN state /\ state[k] = p[e][k]
    BY DEF ShowsLastWriter
  <2> HIDE DEF old, new
  <2>5. /\ new = {} => k \notin DOMAIN next
        /\ \A e \in new :
              (\A d \in new : d <= e) =>
                  IF p[e][k] = Null THEN k \notin DOMAIN next
                  ELSE k \in DOMAIN next /\ next[k] = p[e][k]
    BY <2>2, <2>3, <2>4
  <2> QED
    BY <2>5 DEF ShowsLastWriter, new
<1> QED
  BY <1>2, <1>3

LEMMA EveryPlaceShowsLastWriter ==
    ASSUME NEW p \in [Event -> Patch], NEW done \in SUBSET Event,
           NEW before, before = StateBefore(p, done), NEW k \in Key
    PROVE  \A n \in Nat : ShowsLastWriter(p, done, n, k, before[n])
<1> DEFINE Wrong == {n \in Nat : ~ShowsLastWriter(p, done, n, k, before[n])}
<1>1. /\ before[0] = EmptyState
      /\ \A n \in Nat : before[n + 1] = After(p, done, n, before[n])
      /\ \A n \in Nat : before[n] \in State
  BY StateBeforeUnfolds
<1>2. ASSUME Wrong # {} PROVE FALSE
  <2>1. PICK n \in Wrong : \A m \in Wrong : n <= m
    <3>1. Wrong \subseteq Nat
      OBVIOUS
    <3> HIDE DEF Wrong
    <3> QED
      BY <1>2, <3>1, LeastElement
  <2>2. n # 0
    <3>1. WritersBefore(p, done, 0, k) = {}
      <4>1. \A e \in done : e \in Nat /\ ~(e < 0)
        BY EventAssumption
      <4> QED
        BY <4>1 DEF WritersBefore
    <3>2. ShowsLastWriter(p, done, 0, k, before[0])
      BY <1>1, <3>1, EmptyIsState DEF ShowsLastWriter
    <3> QED
      BY <2>1, <3>2
  <2>3. n - 1 \in Nat /\ n - 1 \notin Wrong /\ n = (n - 1) + 1
    BY <2>1, <2>2
  <2>4. ShowsLastWriter(p, done, n - 1, k, before[n - 1]) /\ before[n - 1] \in State
    BY <1>1, <2>3
  <2>5. before[(n - 1) + 1] = After(p, done, n - 1, before[n - 1])
    BY <1>1, <2>3
  <2>6. ShowsLastWriter(p, done, (n - 1) + 1, k, before[(n - 1) + 1])
    BY <2>3, <2>4, <2>5, NextPlaceShowsLastWriter
  <2> QED
    BY <2>1, <2>3, <2>6
<1> QED
  BY <1>2

-----------------------------------------------------------------------------
(* What the bus has brought: whatever left a sender has an encodable       *)
(* event, and so has every applied event that only the bus can bring.      *)
ReplayInv ==
    /\ patch \in [Event -> Patch]
    /\ remote \in SUBSET Event
    /\ applied \in SUBSET Event
    /\ \A s \in Send :
          /\ conn[s].at \in {"new", "unencodable"} => conn[s].pushed = 0
          /\ conn[s].at \notin {"new", "unencodable"} =>
                conn[s].event \in Event /\ Encodable(conn[s].event)
    /\ \A e \in applied \cap remote : Encodable(e)

LEMMA ReplayInvStep ==
    ASSUME EndsInv, ReplayInv, [CamNext]_camVars
    PROVE  ReplayInv'
<1>0. /\ \A s \in Send : conn[s].pushed \in Nat /\ conn[s].at \in ConnStage
      /\ conn \in [Send -> [at : ConnStage, event : Event \cup {NoEvent}, pushed : 0 .. FrameLen]]
  BY FrameLength DEF EndsInv, EndsTypeOK
<1>1. ASSUME UNCHANGED <<patch, remote, applied, conn>>
      PROVE  ReplayInv'
  BY <1>1 DEF ReplayInv, Encodable
<1>2. ASSUME NEW s \in Send, NEW e \in Event, SendTcp(s, e)
      PROVE  ReplayInv'
  <2>1. /\ conn'[s].event = e /\ conn'[s].pushed = 0
        /\ conn'[s].at = IF Encodable(e) THEN "sending" ELSE "unencodable"
        /\ \A t \in Send \ {s} : conn'[t] = conn[t]
    BY <1>0, <1>2 DEF SendTcp, ReplayInv
  <2>2. UNCHANGED <<patch, remote, applied>>
    BY <1>2 DEF SendTcp
  <2> QED
    BY <2>1, <2>2 DEF ReplayInv, Encodable
<1>3. ASSUME NEW s \in Send, PushUnit(s) \/ FailToSend(s)
      PROVE  ReplayInv'
  <2>1. /\ conn[s].at = "sending" /\ conn'[s].event = conn[s].event
        /\ conn'[s].at \in {"sending", "sent", "failed"}
        /\ \A t \in Send \ {s} : conn'[t] = conn[t]
    BY <1>0, <1>3 DEF PushUnit, FailToSend
  <2>2. UNCHANGED <<patch, remote, applied>>
    BY <1>3 DEF PushUnit, FailToSend
  <2> QED
    BY <2>1, <2>2 DEF ReplayInv, Encodable
<1>4. ASSUME NEW s \in Send, Reset(s) \/ Deliver(s)
      PROVE  ReplayInv'
  BY <1>1, <1>4 DEF Reset, Deliver
<1>5. ASSUME NEW r \in Receive, ProcessApplies(r)
      PROVE  ReplayInv'
  <2>1. Sender(r) \in Send /\ recv[r].got = FrameLen /\ recv[r].got <= conn[Sender(r)].pushed
    BY <1>5 DEF ProcessApplies, Move, EndsInv, EndsTypeOK, GotIsPushed, Sender
  <2>2. conn[Sender(r)].pushed # 0
    BY <1>0, <2>1, FrameLength
  <2>3. EventAt(r) \in Event /\ Encodable(EventAt(r))
    BY <2>1, <2>2 DEF ReplayInv, EventAt
  <2>4. applied' = applied \cup {EventAt(r)} /\ UNCHANGED <<patch, remote, conn>>
    BY <1>5 DEF ProcessApplies, Move
  <2> QED
    BY <2>3, <2>4 DEF ReplayInv, Encodable
<1>6. ASSUME NEW r \in Receive, BeginReceive(r) \/ ReceiveStep(r), ~ProcessApplies(r)
      PROVE  ReplayInv'
  <2>1. UNCHANGED <<patch, remote, applied, conn>>
    BY <1>6 DEF BeginReceive, ReceiveStep, Accept, AcceptTimesOut, RecvChunk, TakeChunk,
                StreamEnds, RecvTimesOut, ProcessStoresOnly, ProcessRefuses, Move
  <2> QED
    BY <1>1, <2>1
<1>7. ASSUME NEW e \in Event, ArriveLocally(e)
      PROVE  ReplayInv'
  BY <1>7 DEF ArriveLocally, busVars, ReplayInv, Encodable
<1>8. CASE UNCHANGED camVars
  BY <1>1, <1>8 DEF camVars
<1> QED
  BY <1>2, <1>3, <1>4, <1>5, <1>6, <1>7, <1>8 DEF CamNext

LEMMA ReplayIsKept == CamSpec => []ReplayInv
<1>1. CamInit => ReplayInv
  BY DEF CamInit, ReplayInv
<1> QED
  BY <1>1, ReplayInvStep, EndsAreKept, PTL DEF CamSpec

LEMMA ReplayShowsLastWriter == ASSUME ReplayInv PROVE LastWriterWins
<1> DEFINE last == Max(applied \cup {0})
           before == StateBefore(patch, applied)
<1>1. applied \subseteq Nat /\ IsFiniteSet(applied) /\ applied \in SUBSET Event
  BY EventAssumption, FS_Subset DEF ReplayInv
<1>2. last \in Nat /\ \A e \in applied : e < last + 1
  <2>1. IsFiniteSet(applied \cup {0}) /\ applied \cup {0} \subseteq Nat /\ applied \cup {0} # {}
    BY <1>1, FS_AddElement
  <2>2. PICK i \in applied \cup {0} : \A j \in applied \cup {0} : j <= i
    BY <2>1, LargestElement
  <2>3. \A j \in applied \cup {0} : i >= j
    BY <2>1, <2>2
  <2>4. last \in applied \cup {0} /\ \A j \in applied \cup {0} : last >= j
    BY <2>2, <2>3 DEF Max
  <2> HIDE DEF last
  <2> QED
    BY <2>1, <2>4
<1>3. Replayed = before[last + 1]
  BY DEF Replayed, Materialize
<1> HIDE DEF last
<1>4. last + 1 \in Nat
  BY <1>2
<1>5. Replayed \in State
  <2>1. \A n \in Nat : before[n] \in State
    BY <1>1, StateBeforeUnfolds DEF ReplayInv
  <2> HIDE DEF before
  <2> QED
    BY <1>3, <1>4, <2>1
<1>6. ASSUME NEW k \in Key, NEW top, top = CHOOSE e \in Writers(k) : \A d \in Writers(k) : d <= e
      PROVE  IF Writers(k) = {} \/ patch[top][k] = Null
             THEN k \notin DOMAIN Replayed
             ELSE k \in DOMAIN Replayed /\ Replayed[k] = patch[top][k]
  <2>1. \A n \in Nat : ShowsLastWriter(patch, applied, n, k, before[n])
    BY <1>1, EveryPlaceShowsLastWriter DEF ReplayInv
  <2>2. ShowsLastWriter(patch, applied, last + 1, k, Replayed)
    <3> HIDE DEF before
    <3> QED
      BY <1>3, <1>4, <2>1
  <2>3. WritersBefore(patch, applied, last + 1, k) = Writers(k)
    BY <1>2 DEF WritersBefore, Writers
  <2>4. Writers(k) # {} => top \in Writers(k) /\ \A d \in Writers(k) : d <= top
    <3>1. Writers(k) \subseteq Nat /\ IsFiniteSet(Writers(k))
      BY <1>1, FS_Subset DEF Writers
    <3>2. Writers(k) # {} => \E e \in Writers(k) : \A d \in Writers(k) : d <= e
      BY <3>1, LargestElement
    <3> QED
      BY <1>6, <3>2
  <2> QED
    BY <2>2, <2>3, <2>4 DEF ShowsLastWriter
<1> QED
  BY <1>5, <1>6 DEF LastWriterWins

(* Whatever the order in which events arrive, over the bus or by hand,     *)
(* resent or broken off, the replayed state gives each key the value that  *)
(* the last applied event in the order of occurrence gives it: arrival     *)
(* order, losses and repeats never show.                                   *)
THEOREM ReplayForgetsArrivalOrder == CamSpec => []LastWriterWins
BY ReplayIsKept, ReplayShowsLastWriter, PTL

(* As long as only events that came over the bus have been applied, the    *)
(* replayed state holds no float, and its hash can be computed: the        *)
(* sender's canonical encoding has refused every float before that.        *)
THEOREM RemoteStatesCanBeHashed == CamSpec => []RemoteStateHashes
<1>1. ReplayInv => RemoteStateHashes
  <2> SUFFICES ASSUME ReplayInv, applied \subseteq remote, NEW k \in DOMAIN Replayed
               PROVE  Replayed[k] \notin FloatValue
    BY DEF RemoteStateHashes, Hashable
  <2>1. LastWriterWins
    BY ReplayShowsLastWriter
  <2>2. k \in Key
    BY <2>1 DEF LastWriterWins, State
  <2> DEFINE top == CHOOSE e \in Writers(k) : \A d \in Writers(k) : d <= e
  <2>3. Writers(k) # {} /\ Replayed[k] = patch[top][k]
    BY <2>1, <2>2 DEF LastWriterWins
  <2>4. top \in Writers(k)
    <3>1. applied \subseteq Nat /\ IsFiniteSet(applied)
      BY EventAssumption, FS_Subset DEF ReplayInv
    <3>2. Writers(k) \subseteq Nat /\ IsFiniteSet(Writers(k))
      BY <3>1, FS_Subset DEF Writers
    <3>3. \E e \in Writers(k) : \A d \in Writers(k) : d <= e
      BY <2>3, <3>2, LargestElement
    <3> QED
      BY <3>3
  <2> HIDE DEF top
  <2> QED
    BY <2>3, <2>4 DEF Writers, ReplayInv, Encodable, Hashable
<1> QED
  BY <1>1, ReplayIsKept, PTL
=============================================================================
