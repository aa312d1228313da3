--------------------------- MODULE IOServerProofs ---------------------------
(***************************************************************************)
(* Proofs about IOServer, for every set of clients and requests and every  *)
(* bound: its types, and that the descriptors the server watches are the   *)
(* open ones.  The invariant is Inv, the conjunction of the types, of what *)
(* the descriptor table holds, and of what the place in the scan implies.  *)
(***************************************************************************)
EXTENDS IOServer, SequenceTheorems, TLAPS

(* The table: the watched descriptors are the open ones, none is beyond    *)
(* maxfd, and only Sock refers to the listener.                            *)
TableInv ==
    /\ conn = OpenFds
    /\ \A f \in conn : f <= maxfd
    /\ file[Sock] \in {Free, Listener}
    /\ \A f \in Fd \ {Sock} : file[f] # Listener

(* What the scan has not visited yet of its snapshot. *)
Ahead == {f \in rd \cup ex : f > fd \/ (f = fd /\ pc = "scan")}

(* The place: the scan is at a descriptor of the snapshot, what lies ahead *)
(* is open, and a turn is a client's.                                      *)
PlaceInv ==
    /\ pc # "terminated"
    /\ pc = "select" => rd = {} /\ ex = {}
    /\ pc = "scan" => fd \in rd \cup ex
    /\ Ahead \subseteq OpenFds
    /\ pc \in InHandleData => file[fd] \in Client
    /\ pc \in InHandleData \ {"cmd"} => cur \in 1..MaxRequests

Inv == TypeOK /\ TableInv /\ PlaceInv

-----------------------------------------------------------------------------

(* The scan starts at descriptor 0. *)
LEMMA ZeroInFd == 0 \in Fd /\ Fd \subseteq Nat
  BY FdAssumption DEF Fd

(* A request is sent as at least one token. *)
LEMMA TokensType ==
  ASSUME NEW r \in Requests, NEW i \in 1..MaxRequests
  PROVE  Tokens(r, i) \in Seq(Token) /\ Tokens(r, i) # <<>>
<1> DEFINE K == Kinds(r)
           S == {"cmd", "rest", "length", "data"}
<1>1. K \in Seq(S) /\ Len(K) \in 1..4
  <2>1. CASE r.op # "sh"
    BY <2>1 DEF Kinds
  <2>2. CASE r.op = "sh" /\ NBytes(r.nbits) = 0
    BY <2>2 DEF Kinds
  <2>3. CASE r.op = "sh" /\ NBytes(r.nbits) # 0
    BY <2>3 DEF Kinds
  <2> QED
    BY <2>1, <2>2, <2>3
<1>2. DOMAIN K = 1..Len(K) /\ \A k \in 1..Len(K) : K[k] \in S
  BY <1>1
<1>3. Tokens(r, i) = [k \in 1..Len(K) |-> [kind |-> K[k], id |-> i]]
  BY <1>2 DEF Tokens
<1> HIDE DEF K
<1>4. \A k \in 1..Len(K) : [kind |-> K[k], id |-> i] \in Token
  BY <1>2 DEF Token
<1>5. Tokens(r, i) \in Seq(Token) /\ Len(Tokens(r, i)) = Len(K)
  BY <1>1, <1>3, <1>4
<1> QED
  BY <1>1, <1>5

(* The step to the next descriptor: it only goes on, within the snapshot.  *)
LEMMA NextDescriptorStep ==
  ASSUME TypeOK, NextDescriptor
  PROVE  /\ pc' \in {"select", "scan"} /\ fd' \in Fd
         /\ rd' \subseteq Fd /\ ex' \subseteq Fd
         /\ pc' = "select" => rd' = {} /\ ex' = {}
         /\ pc' = "scan" => fd' \in rd' \cup ex'
         /\ Ahead' \subseteq {f \in rd \cup ex : f > fd}
<1> DEFINE rest == {f \in rd \cup ex : f > fd}
<1>1. CASE rest = {}
  BY <1>1, ZeroInFd DEF NextDescriptor, Ahead
<1>2. CASE rest # {}
  <2>1. pc' = "scan" /\ fd' \in Lowest(rest) /\ rd' = rd /\ ex' = ex
    BY <1>2 DEF NextDescriptor
  <2>2. fd' \in rest /\ \A g \in rest : fd' <= g
    BY <2>1 DEF Lowest
  <2>3. Ahead' \subseteq rest
    <3> SUFFICES ASSUME NEW f \in Ahead' PROVE f \in rest
      OBVIOUS
    <3>1. f \in rd \cup ex /\ (f > fd' \/ f = fd')
      BY <2>1 DEF Ahead
    <3>2. fd' > fd /\ f \in Nat /\ fd' \in Nat /\ fd \in Nat
      BY <2>2, <3>1, ZeroInFd DEF TypeOK
    <3> QED
      BY <3>1, <3>2
  <2> QED
    BY <2>1, <2>2, <2>3 DEF TypeOK
<1> QED
  BY <1>1, <1>2

(* The end of a turn, or of a visit, that closes nothing. *)
LEMMA GoOn ==
  ASSUME Inv, NextDescriptor, UNCHANGED <<conn, maxfd, file>>
  PROVE  TableInv' /\ PlaceInv'
<1> USE DEF Inv
<1>1. TableInv'
  BY DEF TableInv, OpenFds
<1>2. Ahead' \subseteq OpenFds'
  BY NextDescriptorStep DEF PlaceInv, Ahead, OpenFds, TypeOK
<1> QED
  BY <1>1, <1>2, NextDescriptorStep DEF PlaceInv, InHandleData

(* The end of one that closes its connection. *)
LEMMA Closed ==
  ASSUME Inv, CloseConnection, fd # Sock
  PROVE  /\ TableInv' /\ PlaceInv'
         /\ pc' \in {"select", "scan"} /\ fd' \in Fd /\ maxfd' \in Fd
         /\ rd' \subseteq Fd /\ ex' \subseteq Fd /\ conn' \subseteq Fd
         /\ cur' \in 0..MaxRequests
         /\ file' \in [Fd -> Client \cup {Free, Listener}]
         /\ backlog' \in Seq(Client)
         /\ cstate' \in [Client -> {"new", "open", "closed"}]
         /\ tosend' \in [Client -> Seq(Token)]
         /\ in' \in [Client -> Seq(Token)]
         /\ urgent' \in [Client -> BOOLEAN]
<1> USE DEF Inv, CloseConnection
<1>1. file' \in [Fd -> Client \cup {Free, Listener}]
  BY DEF TypeOK
<1>2. OpenFds' = OpenFds \ {fd}
  BY DEF TypeOK, OpenFds
<1>3. TableInv'
  BY <1>2, FdAssumption, FileAssumption DEF TableInv, TypeOK, OpenFds
<1>4. Ahead' \subseteq OpenFds'
  <2>1. Ahead' \subseteq {f \in rd \cup ex : f > fd}
    BY NextDescriptorStep
  <2>2. {f \in rd \cup ex : f > fd} \subseteq OpenFds \ {fd}
    BY ZeroInFd DEF PlaceInv, Ahead, TypeOK
  <2> QED
    BY <2>1, <2>2, <1>2
<1>5. PlaceInv'
  BY <1>4, NextDescriptorStep DEF PlaceInv, InHandleData
<1>6. in' \in [Client -> Seq(Token)]
  <2>1. in' = [in EXCEPT ![file[fd]] = <<>>]
    OBVIOUS
  <2>2. in \in [Client -> Seq(Token)] /\ <<>> \in Seq(Token)
    BY DEF TypeOK
  <2> QED
    BY ONLY <2>1, <2>2
<1>7. cur' \in 0..MaxRequests
  BY BoundAssumption
<1>8. urgent' \in [Client -> BOOLEAN]
  BY Zenon DEF TypeOK
<1>9. cstate' \in [Client -> {"new", "open", "closed"}]
  BY DEF TypeOK
<1>10. maxfd' \in Fd /\ conn' \subseteq Fd /\ backlog' \in Seq(Client)
  BY DEF TypeOK
<1>11. tosend' \in [Client -> Seq(Token)]
  BY DEF TypeOK
<1> HIDE DEF CloseConnection
<1>12. NextDescriptor
  BY DEF CloseConnection
<1> QED
  BY <1>1, <1>3, <1>5, <1>6, <1>7, <1>8, <1>9, <1>10, <1>11, <1>12, NextDescriptorStep

-----------------------------------------------------------------------------
(* The scan keeps the invariant.                                           *)

(* select(): it cannot fail, and the scan starts at a descriptor it set. *)
LEMMA SelectKeepsInv == Inv /\ Select => Inv'
<1> SUFFICES ASSUME Inv, Select PROVE Inv'
  OBVIOUS
<1> USE DEF Inv
<1>1. Watched \subseteq OpenFds
  BY DEF Watched, TableInv
<1>2. PICK e \in SUBSET (ExceptFds \cap Watched) :
        /\ rd' = ReadableFds \cap Watched /\ ex' = e
        /\ fd' \in Lowest((ReadableFds \cap Watched) \cup e)
        /\ pc' = "scan"
  BY <1>1 DEF Select
<1>3. rd' \cup ex' \subseteq Watched /\ fd' \in rd' \cup ex'
  BY <1>2 DEF Lowest
<1>4. Watched \subseteq Fd
  BY DEF Watched, TypeOK
<1>5. UNCHANGED <<cur, tableVars, peerVars, logVars>>
  BY DEF Select
<1>6. TypeOK'
  BY <1>2, <1>3, <1>4, <1>5 DEF TypeOK, tableVars, peerVars, logVars, InHandleData
<1>7. TableInv' /\ OpenFds' = OpenFds
  BY <1>5 DEF TableInv, OpenFds, tableVars
<1>8. PlaceInv'
  BY <1>1, <1>2, <1>3, <1>7 DEF PlaceInv, InHandleData, Ahead
<1> QED
  BY <1>6, <1>7, <1>8

(* accept(): the new descriptor was free, and is watched from now on. *)
LEMMA AcceptKeepsInv == Inv /\ Accept => Inv'
<1> SUFFICES ASSUME Inv, Accept PROVE Inv'
  OBVIOUS
<1> USE DEF Inv
<1>1. PICK newfd \in Lowest(FreeFds) :
        /\ file' = [file EXCEPT ![newfd] = Head(backlog)]
        /\ conn' = conn \cup {newfd}
        /\ maxfd' = NewMaxFd(newfd)
  BY DEF Accept
<1>2. newfd \in Fd /\ file[newfd] = Free
  BY <1>1 DEF Lowest, FreeFds
<1>3. Head(backlog) \in Client /\ Tail(backlog) \in Seq(Client)
  BY DEF Accept, TypeOK
<1>4. NextDescriptor /\ UNCHANGED <<cur, peerVars, logVars>> /\ backlog' = Tail(backlog)
  BY DEF Accept
<1>5. maxfd' \in Fd /\ maxfd' >= maxfd /\ maxfd' >= newfd
  BY <1>1, <1>2, ZeroInFd DEF NewMaxFd, TypeOK
<1>6. file' \in [Fd -> Client \cup {Free, Listener}]
  BY <1>1, <1>2, <1>3 DEF TypeOK
<1>7. TypeOK'
  BY <1>1, <1>2, <1>3, <1>4, <1>5, <1>6, NextDescriptorStep DEF TypeOK, peerVars, logVars
<1>8. OpenFds' = OpenFds \cup {newfd}
  BY <1>1, <1>2, <1>3, FileAssumption DEF OpenFds, TypeOK
<1>9. fd = Sock /\ Sock # newfd
  <2>1. fd = Sock /\ Sock \in rd /\ pc = "scan"
    BY DEF Accept
  <2>2. Sock \in OpenFds
    BY <2>1 DEF PlaceInv, Ahead
  <2> QED
    BY <2>1, <2>2, <1>2 DEF OpenFds
<1>10. TableInv'
  <2>1. conn' = OpenFds'
    BY <1>1, <1>8 DEF TableInv
  <2>2. \A f \in conn' : f <= maxfd'
    BY <1>1, <1>2, <1>5, ZeroInFd DEF TableInv, TypeOK
  <2>3. file'[Sock] = file[Sock]
    BY <1>1, <1>9, FdAssumption DEF TypeOK
  <2>4. \A f \in Fd \ {Sock} : file'[f] # Listener
    BY <1>1, <1>3, FileAssumption DEF TableInv, TypeOK
  <2> QED
    BY <2>1, <2>2, <2>3, <2>4 DEF TableInv
<1>11. Ahead' \subseteq OpenFds'
  BY <1>4, <1>8, NextDescriptorStep DEF PlaceInv, Ahead
<1>12. PlaceInv'
  BY <1>4, <1>11, NextDescriptorStep DEF PlaceInv, InHandleData
<1> QED
  BY <1>7, <1>10, <1>12

(* accept() for want of a descriptor. *)
LEMMA AcceptErrorKeepsInv == Inv /\ AcceptError => Inv'
<1> SUFFICES ASSUME Inv, AcceptError PROVE Inv'
  OBVIOUS
<1>1. NextDescriptor /\ UNCHANGED <<cur, tableVars, peerVars, logVars>>
  BY DEF AcceptError
<1>2. TypeOK'
  BY <1>1, NextDescriptorStep DEF Inv, TypeOK, tableVars, peerVars, logVars
<1> QED
  BY <1>1, <1>2, GoOn DEF Inv, tableVars

(* A connection that select() reports failed is closed. *)
LEMMA AbortConnectionKeepsInv == Inv /\ AbortConnection => Inv'
<1> SUFFICES ASSUME Inv, AbortConnection PROVE Inv'
  OBVIOUS
<1>1. CloseConnection /\ fd # Sock /\ UNCHANGED logVars
  BY DEF AbortConnection
<1>2. TypeOK'
  BY <1>1, Closed DEF Inv, TypeOK, logVars
<1> QED
  BY <1>1, <1>2, Closed DEF Inv

(* The listening socket is closed, and the snapshot dropped. *)
LEMMA AbortListenerKeepsInv == Inv /\ AbortListener => Inv'
<1> SUFFICES ASSUME Inv, AbortListener PROVE Inv'
  OBVIOUS
<1> USE DEF Inv
<1>1. /\ pc' = "select" /\ fd' = 0 /\ rd' = {} /\ ex' = {}
      /\ file' = [file EXCEPT ![Sock] = Free] /\ conn' = conn \ {Sock}
      /\ backlog' = <<>>
      /\ UNCHANGED <<cur, maxfd, tosend, in, urgent, logVars>>
  BY DEF AbortListener
<1>2. cstate' \in [Client -> {"new", "open", "closed"}]
  <2> DEFINE queued == ToSet(backlog)
  <2> HIDE DEF queued
  <2>1. cstate' = [c \in Client |-> IF c \in queued THEN "closed" ELSE cstate[c]]
    BY DEF AbortListener, queued
  <2> QED
    BY <2>1 DEF TypeOK
<1>3. file' \in [Fd -> Client \cup {Free, Listener}]
  BY <1>1 DEF TypeOK
<1>4. TypeOK'
  <2>1. backlog' \in Seq(Client)
    BY <1>1
  <2>2. pc' = "select" /\ fd' \in Fd /\ maxfd' \in Fd /\ rd' \subseteq Fd /\ ex' \subseteq Fd
        /\ conn' \subseteq Fd /\ cur' \in 0..MaxRequests
    BY <1>1, ZeroInFd DEF TypeOK
  <2> QED
    BY <1>1, <1>2, <1>3, <2>1, <2>2 DEF TypeOK, logVars
<1>5. OpenFds' = OpenFds \ {Sock}
  BY <1>1 DEF OpenFds, TypeOK
<1>6. TableInv'
  BY <1>1, <1>5, FdAssumption DEF TableInv, TypeOK
<1>7. PlaceInv'
  BY <1>1 DEF PlaceInv, Ahead, InHandleData
<1> QED
  BY <1>4, <1>6, <1>7

(* A turn starts at the descriptor of a connection. *)
LEMMA EnterHandleDataKeepsInv == Inv /\ EnterHandleData => Inv'
<1> SUFFICES ASSUME Inv, EnterHandleData PROVE Inv'
  OBVIOUS
<1> USE DEF Inv
<1>1. /\ pc = "scan" /\ fd # Sock /\ fd \in rd /\ pc' = "cmd"
      /\ UNCHANGED <<fd, rd, ex, cur, tableVars, peerVars, logVars>>
  BY DEF EnterHandleData
<1>2. TypeOK'
  BY <1>1 DEF TypeOK, tableVars, peerVars, logVars, InHandleData
<1>3. TableInv' /\ OpenFds' = OpenFds
  BY <1>1 DEF TableInv, OpenFds, tableVars
<1>4. fd \in OpenFds
  BY <1>1 DEF PlaceInv, Ahead
<1>5. file[fd] \in Client
  BY <1>1, <1>4 DEF TableInv, TypeOK, OpenFds
<1>6. Ahead' \subseteq Ahead
  BY <1>1 DEF Ahead
<1>7. PlaceInv'
  BY <1>1, <1>3, <1>5, <1>6 DEF PlaceInv, InHandleData, tableVars
<1> QED
  BY <1>2, <1>3, <1>7

-----------------------------------------------------------------------------
(* A turn keeps the invariant.                                             *)

(* What a successful sread() does, from a stage to the next one of the     *)
(* turn.                                                                   *)
LEMMA ReceiveKeepsInv ==
  ASSUME Inv, NEW stage \in InHandleData, NEW next \in InHandleData,
         Receive(stage, next)
  PROVE  Inv'
<1> USE DEF Inv
<1>1. /\ pc = stage /\ in[Peer] # <<>> /\ pc' = next
      /\ cur' = Head(in[Peer]).id
      /\ in' = [in EXCEPT ![Peer] = Tail(@)]
      /\ UNCHANGED <<fd, rd, ex, tableVars, cstate, tosend, urgent, logVars>>
  BY DEF Receive
<1>2. Peer \in Client /\ Peer' = Peer
  BY <1>1 DEF PlaceInv, Peer, tableVars
<1>3. in[Peer] \in Seq(Token)
  BY <1>2 DEF TypeOK
<1>4. Head(in[Peer]) \in Token /\ Tail(in[Peer]) \in Seq(Token)
  BY <1>1, <1>3
<1>5. cur' \in 1..MaxRequests
  BY <1>1, <1>4 DEF Token
<1>6. in' \in [Client -> Seq(Token)]
  BY <1>1, <1>2, <1>4 DEF TypeOK
<1>7. TypeOK'
  <2>1. pc' \in InHandleData /\ cur' \in 0..MaxRequests
    BY <1>1, <1>5
  <2> QED
    BY <1>1, <1>6, <2>1 DEF TypeOK, tableVars, logVars
<1>8. TableInv' /\ OpenFds' = OpenFds
  BY <1>1 DEF TableInv, OpenFds, tableVars
<1>9. Ahead' \subseteq Ahead
  BY <1>1 DEF Ahead, InHandleData
<1>10. PlaceInv'
  BY <1>1, <1>2, <1>5, <1>8, <1>9 DEF PlaceInv, InHandleData, Peer, tableVars
<1> QED
  BY <1>7, <1>8, <1>10

(* The four reads of a turn. *)
LEMMA ReadsKeepInv ==
  Inv /\ (ReadCommand \/ ReadRest \/ ReadLength \/ ReadPayload) => Inv'
<1>1. ASSUME Inv, ReadCommand PROVE Inv'
  BY <1>1, ReceiveKeepsInv DEF ReadCommand, InHandleData
<1>2. ASSUME Inv, ReadRest PROVE Inv'
  BY <1>2, ReceiveKeepsInv DEF ReadRest, InHandleData
<1>3. ASSUME Inv, ReadLength PROVE Inv'
  BY <1>3, ReceiveKeepsInv DEF ReadLength, InHandleData
<1>4. ASSUME Inv, ReadPayload PROVE Inv'
  BY <1>4, ReceiveKeepsInv DEF ReadPayload, InHandleData
<1> QED
  BY <1>1, <1>2, <1>3, <1>4

(* Every way a turn has of closing its connection.  A turn is never that   *)
(* of the listening socket.                                                *)
LEMMA TurnIsNotSock == Inv /\ pc \in InHandleData => fd # Sock
  BY FileAssumption DEF Inv, PlaceInv, TableInv

(* The returns of 1 that close the connection. *)
LEMMA HangUpsKeepInv ==
  Inv /\ (InvalidCommand \/ LengthExceeded \/ ReadFailed) => Inv'
<1> SUFFICES ASSUME Inv, InvalidCommand \/ LengthExceeded \/ ReadFailed PROVE Inv'
  OBVIOUS
<1>1. pc \in InHandleData /\ CloseConnection /\ UNCHANGED logVars
  BY DEF InvalidCommand, LengthExceeded, ReadFailed, InHandleData
<1>2. fd # Sock
  BY <1>1, TurnIsNotSock
<1>3. TypeOK'
  BY <1>1, <1>2, Closed DEF Inv, TypeOK, logVars
<1> QED
  BY <1>1, <1>2, <1>3, Closed DEF Inv

(* write() adds one answer to the log of the peer. *)
LEMMA WriteType ==
  ASSUME Inv, pc \in {"answer", "reply"}, NEW ok \in BOOLEAN, Write(ok)
  PROVE  replies' \in [Client -> Seq([id : 1..MaxRequests, ok : BOOLEAN])]
<1> DEFINE R == [id : 1..MaxRequests, ok : BOOLEAN]
           r == [id |-> cur, ok |-> ok]
<1>1. Peer \in Client /\ cur \in 1..MaxRequests
  BY DEF Inv, PlaceInv, Peer, InHandleData
<1>2. r \in R
  BY <1>1
<1>3. replies \in [Client -> Seq(R)]
  BY DEF Inv, TypeOK
<1>4. replies' = [replies EXCEPT ![Peer] = Append(@, r)]
  BY DEF Write
<1> HIDE DEF R, r
<1>5. Append(replies[Peer], r) \in Seq(R)
  BY <1>1, <1>2, <1>3
<1>6. replies' \in [Client -> Seq(R)]
  BY <1>1, <1>3, <1>4, <1>5
<1> QED
  BY <1>6 DEF R

(* The answer to a query, and the end of the turn. *)
LEMMA AnswerKeepsInv == Inv /\ Answer => Inv'
<1> SUFFICES ASSUME Inv, Answer PROVE Inv'
  OBVIOUS
<1>1. PICK ok \in BOOLEAN :
        /\ Write(ok)
        /\ IF ok THEN NextDescriptor /\ cur' = 0 /\ UNCHANGED <<tableVars, peerVars>>
                 ELSE CloseConnection
  BY DEF Answer
<1>2. pc = "answer" /\ UNCHANGED <<sent, jtag>>
  BY DEF Answer
<1>3. replies' \in [Client -> Seq([id : 1..MaxRequests, ok : BOOLEAN])]
  BY <1>1, <1>2, WriteType
<1>4. CASE ok
  <2>1. NextDescriptor /\ cur' = 0 /\ UNCHANGED <<tableVars, peerVars>>
    BY <1>1, <1>4
  <2>2. cur' \in 0..MaxRequests
    BY <2>1, BoundAssumption
  <2>3. pc' \in {"select", "scan"} /\ fd' \in Fd /\ rd' \subseteq Fd /\ ex' \subseteq Fd
    BY <2>1, NextDescriptorStep DEF Inv
  <2>4. TypeOK'
    BY <1>2, <1>3, <2>1, <2>2, <2>3 DEF Inv, TypeOK, tableVars, peerVars
  <2> QED
    BY <2>1, <2>4, GoOn DEF Inv, tableVars
<1>5. CASE ~ok
  <2>1. CloseConnection /\ fd # Sock
    BY <1>1, <1>2, <1>5, TurnIsNotSock DEF InHandleData
  <2>2. TypeOK'
    BY <1>2, <1>3, <2>1, Closed DEF Inv, TypeOK
  <2> QED
    BY <2>1, <2>2, Closed DEF Inv
<1> QED
  BY <1>4, <1>5

(* The steps that stay with their connection and leave the kernel alone.   *)
LEMMA StayKeepsInv ==
  ASSUME Inv, pc \in InHandleData, pc' \in InHandleData, TypeOK',
         pc' = "cmd" \/ (pc # "cmd" /\ cur' = cur),
         UNCHANGED <<fd, rd, ex, tableVars>>
  PROVE  Inv'
<1>1. TableInv' /\ OpenFds' = OpenFds
  BY DEF Inv, TableInv, OpenFds, tableVars
<1>2. Ahead' \subseteq Ahead
  BY DEF Ahead, InHandleData
<1>3. PlaceInv'
  BY <1>1, <1>2 DEF Inv, PlaceInv, InHandleData, tableVars
<1> QED
  BY <1>1, <1>3 DEF Inv

(* A shift of no bits. *)
LEMMA EmptyPayloadKeepsInv == Inv /\ EmptyPayload => Inv'
<1> SUFFICES ASSUME Inv, EmptyPayload PROVE Inv'
  OBVIOUS
<1>1. TypeOK'
  BY DEF EmptyPayload, Inv, TypeOK, InHandleData, tableVars, peerVars, logVars
<1> QED
  BY <1>1, StayKeepsInv DEF EmptyPayload, InHandleData

(* drv->shift() adds one entry to the log of the port. *)
LEMMA ShiftKeepsInv == Inv /\ Shift => Inv'
<1> SUFFICES ASSUME Inv, Shift PROVE Inv'
  OBVIOUS
<1> DEFINE J == [client : Client, id : 1..MaxRequests]
           j == [client |-> Peer, id |-> cur]
<1>1. j \in J
  BY DEF Shift, Inv, PlaceInv, Peer, InHandleData
<1>2. jtag \in Seq(J) /\ jtag' = Append(jtag, j)
  BY DEF Shift, Inv, TypeOK
<1> HIDE DEF J, j
<1>3. jtag' \in Seq(J)
  BY <1>1, <1>2
<1>4. TypeOK'
  BY <1>3 DEF J, Shift, Inv, TypeOK, InHandleData, tableVars, peerVars
<1> QED
  BY <1>4, StayKeepsInv DEF Shift, InHandleData

(* The answer to a shift, after which the turn goes on. *)
LEMMA ReplyKeepsInv == Inv /\ Reply => Inv'
<1> SUFFICES ASSUME Inv, Reply PROVE Inv'
  OBVIOUS
<1>1. replies' \in [Client -> Seq([id : 1..MaxRequests, ok : BOOLEAN])]
  BY WriteType DEF Reply
<1>2. cur' \in 0..MaxRequests /\ pc' \in InHandleData
  BY BoundAssumption DEF Reply, InHandleData
<1>3. UNCHANGED <<fd, rd, ex, tableVars, peerVars, sent, jtag>>
  BY DEF Reply
<1>4. TypeOK'
  BY <1>1, <1>2, <1>3 DEF Inv, TypeOK, tableVars, peerVars
<1> QED
  BY <1>4, StayKeepsInv DEF Reply, InHandleData

-----------------------------------------------------------------------------
(* So do the clients, which touch neither the table nor the thread.        *)

(* The five steps of a client. *)
LEMMA ClientsKeepInv == \A c \in Client : Inv /\ ClientStep(c) => Inv'
<1> SUFFICES ASSUME NEW c \in Client, Inv, ClientStep(c) PROVE Inv'
  OBVIOUS
<1>1. UNCHANGED <<scanVars, cur, conn, maxfd, file>>
  BY DEF ClientStep, Connect, Submit, Send, SendUrgent, Close, tableVars
<1>2. TableInv' /\ PlaceInv'
  BY <1>1 DEF Inv, TableInv, PlaceInv, Ahead, OpenFds, scanVars
<1>3. TypeOK'
  <2> USE DEF Inv, TypeOK, tableVars, scanVars, logVars
  <2>1. CASE Connect(c)
    <3>1. backlog' \in Seq(Client)
      BY <2>1 DEF Connect
    <3>2. cstate' \in [Client -> {"new", "open", "closed"}]
      BY <2>1 DEF Connect
    <3> QED
      BY <2>1, <3>1, <3>2 DEF Connect
  <2>2. CASE Submit(c)
    <3>1. PICK r \in Requests :
            LET t == Tokens(r, Len(sent[c]) + 1) IN
            /\ sent' = [sent EXCEPT ![c] = Append(@, r)]
            /\ in' = [in EXCEPT ![c] = Append(@, Head(t))]
            /\ tosend' = [tosend EXCEPT ![c] = Tail(t)]
      BY <2>2 DEF Submit
    <3> DEFINE t == Tokens(r, Len(sent[c]) + 1)
    <3>2. Len(sent[c]) + 1 \in 1..MaxRequests
      BY <2>2, BoundAssumption DEF Submit
    <3>3. t \in Seq(Token) /\ t # <<>>
      BY <3>2, TokensType
    <3> HIDE DEF t
    <3>4. Head(t) \in Token /\ Tail(t) \in Seq(Token)
      BY <3>3
    <3>5. Append(in[c], Head(t)) \in Seq(Token)
      BY <3>4
    <3>6. in' = [in EXCEPT ![c] = Append(@, Head(t))] /\ tosend' = [tosend EXCEPT ![c] = Tail(t)]
      BY <3>1 DEF t
    <3>7. in' \in [Client -> Seq(Token)] /\ tosend' \in [Client -> Seq(Token)]
      BY <3>4, <3>5, <3>6
    <3>8. sent' \in [Client -> Seq(Requests)]
      BY <3>1
    <3> QED
      BY <2>2, <3>7, <3>8 DEF Submit
  <2>3. CASE Send(c)
    <3>1. Head(tosend[c]) \in Token /\ Tail(tosend[c]) \in Seq(Token)
      BY <2>3 DEF Send
    <3>2. Append(in[c], Head(tosend[c])) \in Seq(Token)
      BY <3>1
    <3> QED
      BY <2>3, <3>1, <3>2 DEF Send
  <2>4. CASE SendUrgent(c)
    BY <2>4 DEF SendUrgent
  <2>5. CASE Close(c)
    BY <2>5 DEF Close
  <2> QED
    BY <2>1, <2>2, <2>3, <2>4, <2>5 DEF ClientStep
<1> QED
  BY <1>2, <1>3 DEF Inv

-----------------------------------------------------------------------------

(* The start of start(): one descriptor, watched. *)
LEMMA InitInv == Init => Inv
<1> SUFFICES ASSUME Init PROVE Inv
  OBVIOUS
<1>1. TypeOK
  BY FdAssumption, BoundAssumption, ZeroInFd DEF Init, TypeOK, InHandleData
<1>2. TableInv
  BY FdAssumption, FileAssumption DEF Init, TableInv, OpenFds, Fd
<1>3. PlaceInv
  BY DEF Init, PlaceInv, InHandleData, Ahead
<1> QED
  BY <1>1, <1>2, <1>3 DEF Inv

(* Every step keeps the invariant. *)
LEMMA NextInv == Inv /\ [Next]_vars => Inv'
<1>1. Inv /\ UNCHANGED vars => Inv'
  BY DEF Inv, TypeOK, TableInv, PlaceInv, Ahead, OpenFds,
         vars, scanVars, tableVars, peerVars, logVars
<1>2. Inv /\ ServerStep => Inv'
  BY SelectKeepsInv, AcceptKeepsInv, AcceptErrorKeepsInv, AbortConnectionKeepsInv,
     AbortListenerKeepsInv, EnterHandleDataKeepsInv, ReadsKeepInv, HangUpsKeepInv,
     AnswerKeepsInv, EmptyPayloadKeepsInv, ShiftKeepsInv, ReplyKeepsInv
     DEF ServerStep
<1> QED
  BY <1>1, <1>2, ClientsKeepInv DEF Next

(* The inductive invariant: types, the table of descriptors, and where the *)
(* thread is in it (start() and handleData()).                             *)
THEOREM Invariance == Spec => []Inv
  BY InitInv, NextInv, PTL DEF Spec

(* The server's variables have their types, for every set of clients and   *)
(* requests and every bound.                                               *)
THEOREM TypeCorrect == Spec => []TypeOK
<1>1. Inv => TypeOK
  BY DEF Inv
<1> QED
  BY <1>1, Invariance, PTL

(* Whatever is accepted, closed and aborted, and in whatever order, the    *)
(* server watches its open descriptors, all of them and nothing else.      *)
THEOREM DescriptorsAlwaysWatched == Spec => []DescriptorsWatched
<1>1. Inv => DescriptorsWatched
  BY DEF Inv, TableInv, DescriptorsWatched, Watched
<1> QED
  BY <1>1, Invariance, PTL

(* select() never fails, so that the server's thread never ends on it.     *)
THEOREM NeverTerminated == Spec => [](pc # "terminated")
<1>1. Inv => pc # "terminated"
  BY DEF Inv, PlaceInv
<1> QED
  BY <1>1, Invariance, PTL

-----------------------------------------------------------------------------
(* The snapshot stays valid while it is served.  A step takes data away    *)
(* from one connection only, so what matters is that no client has two     *)
(* descriptors, or one and a place in the queue of accept().               *)

OwnerInv ==
    /\ \A f, g \in Fd : file[f] \in Client /\ file[f] = file[g] => f = g
    /\ \A f \in Fd : \A k \in DOMAIN backlog : file[f] # backlog[k]
    /\ \A j, k \in DOMAIN backlog : backlog[j] = backlog[k] => j = k
    /\ \A f \in Fd : file[f] \in Client => cstate[file[f]] # "new"
    /\ \A k \in DOMAIN backlog : cstate[backlog[k]] # "new"

SInv == Inv /\ OwnerInv /\ SnapshotValid

(* The step to the next descriptor leaves fewer of the snapshot ahead. *)
LEMMA NextDescriptorReads ==
  ASSUME TypeOK, NextDescriptor
  PROVE  ReadAhead' \subseteq {f \in rd : f > fd}
<1> SUFFICES ASSUME NEW f \in ReadAhead' PROVE f \in {g \in rd : g > fd}
  OBVIOUS
<1> DEFINE rest == {g \in rd \cup ex : g > fd}
<1>1. rest # {} /\ pc' = "scan" /\ fd' \in Lowest(rest) /\ rd' = rd
  BY DEF NextDescriptor, ReadAhead
<1>2. f \in rd /\ (f > fd' \/ f = fd')
  BY <1>1 DEF ReadAhead
<1>3. fd' > fd /\ fd' \in Nat /\ fd \in Nat /\ f \in Nat
  BY <1>1, <1>2, ZeroInFd DEF Lowest, TypeOK
<1> QED
  BY <1>2, <1>3

(* Closing the connection at fd leaves the ones ahead readable. *)
LEMMA ClosedKeepsSnapshot ==
  ASSUME SInv, CloseConnection, fd # Sock, file[fd] \in Client
  PROVE  OwnerInv' /\ SnapshotValid'
<1> DEFINE c == file[fd]
<1>1. /\ file' = [file EXCEPT ![fd] = Free]
      /\ cstate' = [cstate EXCEPT ![c] = "closed"]
      /\ in' = [in EXCEPT ![c] = <<>>]
      /\ backlog' = backlog /\ NextDescriptor
  BY DEF CloseConnection
<1>2. \A f \in Fd : f # fd => file'[f] = file[f] /\ file[f] # c
  BY <1>1 DEF SInv, Inv, TypeOK, OwnerInv
<1>3. file'[fd] = Free
  BY <1>1 DEF SInv, Inv, TypeOK
<1>4. \A d \in Client : d # c => in'[d] = in[d] /\ cstate'[d] = cstate[d]
  BY <1>1 DEF SInv, Inv, TypeOK
<1>5. cstate'[c] = "closed" /\ backlog \in Seq(Client)
  BY <1>1 DEF SInv, Inv, TypeOK
<1>6. OwnerInv'
  <2>1. \A f, g \in Fd : file'[f] \in Client /\ file'[f] = file'[g] => f = g
    BY <1>2, <1>3, FileAssumption DEF SInv, OwnerInv
  <2>2. \A f \in Fd : \A k \in DOMAIN backlog' : file'[f] # backlog'[k]
    BY <1>1, <1>2, <1>3, <1>5, FileAssumption DEF SInv, OwnerInv
  <2>3. \A f \in Fd : file'[f] \in Client => cstate'[file'[f]] # "new"
    BY <1>2, <1>3, <1>4, FileAssumption DEF SInv, OwnerInv
  <2>4. \A k \in DOMAIN backlog' : cstate'[backlog'[k]] # "new"
    BY <1>1, <1>4, <1>5 DEF SInv, OwnerInv
  <2>5. \A j, k \in DOMAIN backlog' : backlog'[j] = backlog'[k] => j = k
    BY <1>1 DEF SInv, OwnerInv
  <2> QED
    BY <2>1, <2>2, <2>3, <2>4, <2>5 DEF OwnerInv
<1>7. ReadAhead' \subseteq ReadableFds'
  <2> SUFFICES ASSUME NEW f \in ReadAhead' PROVE f \in ReadableFds'
    OBVIOUS
  <2>1. f \in rd /\ f > fd
    BY <1>1, NextDescriptorReads DEF SInv, Inv
  <2>2. f \in ReadableFds /\ f \in Fd /\ f # fd
    BY <2>1, ZeroInFd DEF SInv, Inv, TypeOK, SnapshotValid, ReadAhead
  <2>3. CASE f \in Peers /\ Readable(file[f])
    <3>1. file'[f] = file[f] /\ file[f] # c /\ file[f] \in Client
      BY <1>2, <2>2, <2>3 DEF Peers
    <3>2. Readable(file[f])'
      BY <1>4, <2>3, <3>1 DEF Readable
    <3> QED
      BY <2>2, <3>1, <3>2 DEF ReadableFds, Peers
  <2>4. CASE f = Sock /\ file[Sock] = Listener /\ backlog # <<>>
    BY <1>1, <1>2, <2>2, <2>4 DEF ReadableFds
  <2> QED
    BY <2>2, <2>3, <2>4 DEF ReadableFds
<1> QED
  BY <1>6, <1>7 DEF SnapshotValid

(* A step that takes nothing from the connections ahead, and lets in       *)
(* nobody.                                                                 *)
LEMMA KeptSnapshot ==
  ASSUME SInv, file' = file, backlog' = backlog, cstate' = cstate,
         ReadAhead' \subseteq ReadAhead,
         \A f \in ReadAhead' \cap Peers : in'[file[f]] = in[file[f]] \/ in'[file[f]] # <<>>
  PROVE  OwnerInv' /\ SnapshotValid'
<1>1. OwnerInv'
  BY DEF SInv, OwnerInv
<1>2. ASSUME NEW f \in ReadAhead' PROVE f \in ReadableFds'
  <2>1. f \in ReadableFds
    BY DEF SInv, SnapshotValid
  <2>2. CASE f \in Peers /\ Readable(file[f])
    <3>1. Readable(file[f])'
      BY <2>2 DEF Readable
    <3> QED
      BY <2>2, <3>1 DEF ReadableFds, Peers
  <2>3. CASE f = Sock /\ file[Sock] = Listener /\ backlog # <<>>
    BY <2>3 DEF ReadableFds
  <2> QED
    BY <2>1, <2>2, <2>3 DEF ReadableFds
<1> QED
  BY <1>1, <1>2 DEF SnapshotValid

(* select() returns a snapshot of what is readable. *)
LEMMA SelectKeepsSnapshot == SInv /\ Select => OwnerInv' /\ SnapshotValid'
<1> SUFFICES ASSUME SInv, Select PROVE OwnerInv' /\ SnapshotValid'
  OBVIOUS
<1>1. UNCHANGED <<tableVars, peerVars>>
  BY DEF Select
<1>2. OwnerInv'
  BY <1>1 DEF SInv, OwnerInv, tableVars, peerVars
<1>3. ReadableFds' = ReadableFds
  BY <1>1 DEF ReadableFds, Readable, Peers, tableVars, peerVars
<1>4. Watched \subseteq OpenFds
  BY DEF SInv, Inv, TableInv, Watched
<1>5. rd' \subseteq ReadableFds
  BY <1>4 DEF Select
<1> QED
  BY <1>2, <1>3, <1>5 DEF SnapshotValid, ReadAhead

(* accept() puts a client of the queue at a descriptor that was free. *)
LEMMA AcceptKeepsSnapshot == SInv /\ Accept => OwnerInv' /\ SnapshotValid'
<1> SUFFICES ASSUME SInv, Accept PROVE OwnerInv' /\ SnapshotValid'
  OBVIOUS
<1> DEFINE c == Head(backlog)
<1>1. PICK newfd \in Lowest(FreeFds) : file' = [file EXCEPT ![newfd] = c]
  BY DEF Accept
<1>2. newfd \in Fd /\ file[newfd] = Free
  BY <1>1 DEF Lowest, FreeFds
<1>3. /\ backlog \in Seq(Client) /\ backlog # <<>> /\ backlog' = Tail(backlog)
      /\ NextDescriptor /\ fd = Sock /\ UNCHANGED peerVars
  BY DEF Accept, SInv, Inv, TypeOK
<1>4. /\ c \in Client /\ c = backlog[1] /\ 1 \in DOMAIN backlog
      /\ Len(Tail(backlog)) = Len(backlog) - 1 /\ Tail(backlog) \in Seq(Client)
      /\ \A k \in 1..Len(Tail(backlog)) : Tail(backlog)[k] = backlog[k + 1]
  BY <1>3, HeadTailProperties, EmptySeq
<1>5. \A k \in DOMAIN backlog' : /\ backlog'[k] = backlog[k + 1]
                                 /\ k + 1 \in DOMAIN backlog /\ k \in Nat /\ k # 0
  BY <1>3, <1>4
<1>6. file'[newfd] = c /\ \A f \in Fd : f # newfd => file'[f] = file[f]
  BY <1>1, <1>2 DEF SInv, Inv, TypeOK
<1>7. \A f \in Fd : file[f] # c
  BY <1>4 DEF SInv, OwnerInv
<1>8. \A k \in DOMAIN backlog' : backlog'[k] # c
  BY <1>4, <1>5 DEF SInv, OwnerInv
<1>9. OwnerInv'
  <2>1. \A f, g \in Fd : file'[f] \in Client /\ file'[f] = file'[g] => f = g
    BY <1>6, <1>7 DEF SInv, OwnerInv
  <2>2. \A f \in Fd : \A k \in DOMAIN backlog' : file'[f] # backlog'[k]
    BY <1>5, <1>6, <1>8 DEF SInv, OwnerInv
  <2>3. \A j, k \in DOMAIN backlog' : backlog'[j] = backlog'[k] => j = k
    BY <1>5 DEF SInv, OwnerInv
  <2>4. \A f \in Fd : file'[f] \in Client => cstate'[file'[f]] # "new"
    BY <1>3, <1>4, <1>6 DEF SInv, OwnerInv, peerVars
  <2>5. \A k \in DOMAIN backlog' : cstate'[backlog'[k]] # "new"
    BY <1>3, <1>5 DEF SInv, OwnerInv, peerVars
  <2> QED
    BY <2>1, <2>2, <2>3, <2>4, <2>5 DEF OwnerInv
<1>10. ASSUME NEW f \in ReadAhead' PROVE f \in ReadableFds'
  <2>1. f \in rd /\ f > fd
    BY <1>3, NextDescriptorReads DEF SInv, Inv
  <2>2. f \in ReadableFds /\ f \in Fd /\ f # Sock
    BY <1>3, <2>1, ZeroInFd, FdAssumption DEF SInv, Inv, TypeOK, SnapshotValid, ReadAhead
  <2>3. f \in Peers /\ Readable(file[f])
    BY <2>2 DEF ReadableFds
  <2>4. f # newfd
    BY <1>2, <2>3, FileAssumption DEF Peers
  <2>5. file'[f] = file[f] /\ Readable(file[f])'
    BY <1>3, <1>6, <2>2, <2>3, <2>4 DEF Readable, peerVars
  <2> QED
    BY <2>3, <2>5 DEF ReadableFds, Peers
<1> QED
  BY <1>9, <1>10 DEF SnapshotValid

(* The listening socket takes its queue, and the snapshot, with it. *)
LEMMA AbortListenerKeepsSnapshot == SInv /\ AbortListener => OwnerInv' /\ SnapshotValid'
<1> SUFFICES ASSUME SInv, AbortListener PROVE OwnerInv' /\ SnapshotValid'
  OBVIOUS
<1>1. /\ file' = [file EXCEPT ![Sock] = Free] /\ backlog' = <<>> /\ rd' = {}
  BY DEF AbortListener
<1>2. \A f \in Fd : file'[f] \in Client => file'[f] = file[f]
  BY <1>1, FileAssumption DEF SInv, Inv, TypeOK
<1>3. \A c \in Client : cstate[c] # "new" => cstate'[c] # "new"
  BY DEF AbortListener
<1>4. OwnerInv'
  <2>1. DOMAIN backlog' = {}
    BY <1>1
  <2> QED
    BY <1>2, <1>3, <2>1 DEF SInv, OwnerInv
<1> QED
  BY <1>1, <1>4 DEF SnapshotValid, ReadAhead

(* In a turn, only the descriptors after fd are ahead, and only the peer   *)
(* of fd loses data.                                                       *)
LEMMA TurnsKeepSnapshot ==
  ASSUME SInv, NEW stage \in InHandleData, NEW next \in InHandleData,
         Receive(stage, next)
  PROVE  OwnerInv' /\ SnapshotValid'
<1>1. /\ pc = stage /\ pc' = next
      /\ in' = [in EXCEPT ![Peer] = Tail(@)]
      /\ fd' = fd /\ rd' = rd /\ file' = file /\ backlog' = backlog /\ cstate' = cstate
  BY DEF Receive, tableVars
<1>2. ReadAhead' \subseteq ReadAhead
  BY <1>1 DEF ReadAhead, InHandleData
<1>3. \A f \in ReadAhead' \cap Peers : in'[file[f]] = in[file[f]]
  <2> SUFFICES ASSUME NEW f \in ReadAhead' \cap Peers PROVE in'[file[f]] = in[file[f]]
    OBVIOUS
  <2>1. f \in Fd /\ fd \in Fd /\ f # fd
    BY <1>1, ZeroInFd DEF ReadAhead, InHandleData, SInv, Inv, TypeOK
  <2>2. file[fd] \in Client /\ file[f] \in Client
    BY <1>1 DEF Peers, SInv, Inv, PlaceInv
  <2>3. file[f] # file[fd]
    BY <2>1, <2>2 DEF SInv, OwnerInv
  <2> QED
    BY <1>1, <2>2, <2>3 DEF Peer, SInv, Inv, TypeOK
<1> QED
  BY <1>1, <1>2, <1>3, KeptSnapshot

(* The other steps of the server read, or close, the connection they serve. *)
LEMMA ServerKeepsSnapshot == SInv /\ ServerStep => OwnerInv' /\ SnapshotValid'
<1> DEFINE Goal == OwnerInv' /\ SnapshotValid'
<1>1. ASSUME SInv, ReadCommand \/ ReadRest \/ ReadLength \/ ReadPayload PROVE Goal
  BY <1>1, TurnsKeepSnapshot DEF ReadCommand, ReadRest, ReadLength, ReadPayload, InHandleData
<1>2. ASSUME SInv, InvalidCommand \/ LengthExceeded \/ ReadFailed PROVE Goal
  <2>1. pc \in InHandleData /\ CloseConnection
    BY <1>2 DEF InvalidCommand, LengthExceeded, ReadFailed, InHandleData
  <2>2. fd # Sock /\ file[fd] \in Client
    BY <1>2, <2>1, TurnIsNotSock DEF SInv, Inv, PlaceInv
  <2> QED
    BY <1>2, <2>1, <2>2, ClosedKeepsSnapshot
<1>3. ASSUME SInv, AbortConnection PROVE Goal
  <2>1. pc = "scan" /\ fd # Sock /\ fd \in ex /\ CloseConnection
    BY <1>3 DEF AbortConnection
  <2>2. fd \in OpenFds
    BY <1>3, <2>1 DEF SInv, Inv, PlaceInv, Ahead
  <2>3. file[fd] \in Client
    BY <1>3, <2>1, <2>2 DEF SInv, Inv, TypeOK, TableInv, OpenFds
  <2> QED
    BY <1>3, <2>1, <2>3, ClosedKeepsSnapshot
<1>4. ASSUME SInv, NextDescriptor, UNCHANGED <<tableVars, peerVars>> PROVE Goal
  <2>1. ReadAhead' \subseteq ReadAhead
    BY <1>4, NextDescriptorReads DEF SInv, Inv, ReadAhead
  <2> QED
    BY <1>4, <2>1, KeptSnapshot DEF tableVars, peerVars
<1>5. ASSUME SInv, Answer PROVE Goal
  <2>1. \/ NextDescriptor /\ UNCHANGED <<tableVars, peerVars>>
        \/ CloseConnection
    BY <1>5 DEF Answer
  <2>2. pc = "answer"
    BY <1>5 DEF Answer
  <2>3. fd # Sock /\ file[fd] \in Client
    BY <1>5, <2>2, TurnIsNotSock DEF SInv, Inv, PlaceInv, InHandleData
  <2> QED
    BY <1>4, <1>5, <2>1, <2>3, ClosedKeepsSnapshot
<1>6. ASSUME SInv, EnterHandleData \/ EmptyPayload \/ Shift \/ Reply PROVE Goal
  <2>1. /\ UNCHANGED <<fd, rd, tableVars, peerVars>> /\ pc' # "scan"
    BY <1>6 DEF EnterHandleData, EmptyPayload, Shift, Reply
  <2>2. ReadAhead' \subseteq ReadAhead
    BY <2>1 DEF ReadAhead
  <2> QED
    BY <1>6, <2>1, <2>2, KeptSnapshot DEF tableVars, peerVars
<1>7. ASSUME SInv, AcceptError PROVE Goal
  BY <1>4, <1>7 DEF AcceptError
<1> QED
  BY <1>1, <1>2, <1>3, <1>5, <1>6, <1>7, SelectKeepsSnapshot, AcceptKeepsSnapshot,
     AbortListenerKeepsSnapshot
     DEF ServerStep

(* Clients only add to what there is to read. *)
LEMMA ClientsKeepSnapshot == \A c \in Client : SInv /\ ClientStep(c) => OwnerInv' /\ SnapshotValid'
<1> SUFFICES ASSUME NEW c \in Client, SInv, ClientStep(c) PROVE OwnerInv' /\ SnapshotValid'
  OBVIOUS
<1>1. UNCHANGED <<scanVars, file>>
  BY DEF ClientStep, Connect, Submit, Send, SendUrgent, Close, tableVars
<1>2. CASE Connect(c)
  <2>1. /\ cstate[c] = "new" /\ cstate' = [cstate EXCEPT ![c] = "open"]
        /\ backlog' = Append(backlog, c) /\ backlog \in Seq(Client) /\ in' = in
    BY <1>2 DEF Connect, SInv, Inv, TypeOK
  <2>2. /\ DOMAIN backlog' = 1..(Len(backlog) + 1) /\ DOMAIN backlog = 1..Len(backlog)
        /\ Len(backlog) \in Nat
        /\ \A k \in 1..Len(backlog) : backlog'[k] = backlog[k]
        /\ backlog'[Len(backlog) + 1] = c /\ backlog' # <<>>
    BY <2>1
  <2>3. \A d \in Client : cstate'[d] = IF d = c THEN "open" ELSE cstate[d]
    BY <2>1 DEF SInv, Inv, TypeOK
  <2>4. /\ \A f \in Fd : file[f] # c
        /\ \A k \in 1..Len(backlog) : backlog[k] # c /\ backlog[k] \in Client
    BY <2>1, <2>2 DEF SInv, OwnerInv
  <2>5. OwnerInv'
    <3>1. \A f \in Fd : \A k \in DOMAIN backlog' : file'[f] # backlog'[k]
      BY <1>1, <2>2, <2>4 DEF SInv, OwnerInv
    <3>2. \A j, k \in DOMAIN backlog' : backlog'[j] = backlog'[k] => j = k
      BY <2>2, <2>4 DEF SInv, OwnerInv
    <3>3. \A f \in Fd : file'[f] \in Client => cstate'[file'[f]] # "new"
      BY <1>1, <2>3 DEF SInv, OwnerInv
    <3>4. \A k \in DOMAIN backlog' : cstate'[backlog'[k]] # "new"
      BY <2>2, <2>3, <2>4 DEF SInv, OwnerInv
    <3>5. \A f, g \in Fd : file'[f] \in Client /\ file'[f] = file'[g] => f = g
      BY <1>1 DEF SInv, OwnerInv
    <3> QED
      BY <3>1, <3>2, <3>3, <3>4, <3>5 DEF OwnerInv
  <2>6. \A d \in Client : Readable(d) => Readable(d)'
    BY <2>1, <2>3 DEF Readable
  <2>7. ReadableFds \subseteq ReadableFds'
    BY <1>1, <2>2, <2>6 DEF ReadableFds, Peers
  <2> QED
    BY <1>1, <2>5, <2>7 DEF SInv, SnapshotValid, ReadAhead, scanVars
<1>3. CASE Submit(c) \/ Send(c) \/ SendUrgent(c)
  <2>1. backlog' = backlog /\ cstate' = cstate
    BY <1>3 DEF Submit, Send, SendUrgent, tableVars
  <2>2. ReadAhead' \subseteq ReadAhead
    BY <1>1 DEF ReadAhead, scanVars
  <2>3. \A d \in Client : in'[d] = in[d] \/ in'[d] # <<>>
    <3>1. in' = in \/ \E t : in' = [in EXCEPT ![c] = Append(@, t)]
      BY <1>3 DEF Submit, Send, SendUrgent
    <3>2. CASE in' = in
      BY <3>2
    <3>3. ASSUME NEW t, in' = [in EXCEPT ![c] = Append(@, t)], NEW d \in Client
          PROVE  in'[d] = in[d] \/ in'[d] # <<>>
      <4>1. in'[d] = IF d = c THEN Append(in[c], t) ELSE in[d]
        BY <3>3 DEF SInv, Inv, TypeOK
      <4>2. in[c] \in Seq(Token)
        BY DEF SInv, Inv, TypeOK
      <4>3. Len(Append(in[c], t)) = Len(in[c]) + 1 /\ Len(in[c]) \in Nat
        BY <4>2
      <4>4. Append(in[c], t) # <<>>
        BY <4>2, <4>3
      <4> QED
        BY <4>1, <4>4, Zenon
    <3> QED
      BY <3>1, <3>2, <3>3
  <2> QED
    BY <1>1, <2>1, <2>2, <2>3, KeptSnapshot DEF Peers
<1>4. CASE Close(c)
  <2>1. /\ cstate' = [cstate EXCEPT ![c] = "closed"] /\ backlog' = backlog /\ in' = in
    BY <1>4 DEF Close, tableVars
  <2>2. \A d \in Client : cstate'[d] = IF d = c THEN "closed" ELSE cstate[d]
    BY <2>1 DEF SInv, Inv, TypeOK
  <2>3. OwnerInv'
    BY <1>1, <2>1, <2>2 DEF SInv, Inv, TypeOK, OwnerInv
  <2>4. \A d \in Client : Readable(d) => Readable(d)'
    BY <2>1, <2>2 DEF Readable
  <2>5. ReadableFds \subseteq ReadableFds'
    BY <1>1, <2>1, <2>4 DEF ReadableFds, Peers
  <2> QED
    BY <1>1, <2>3, <2>5 DEF SInv, SnapshotValid, ReadAhead, scanVars
<1> QED
  BY <1>2, <1>3, <1>4 DEF ClientStep

(* At the start, no client has a descriptor. *)
LEMMA InitSnapshot == Init => SInv
<1>1. Init => OwnerInv /\ SnapshotValid
  BY FileAssumption DEF Init, OwnerInv, SnapshotValid, ReadAhead
<1> QED
  BY <1>1, InitInv DEF SInv

(* Every step keeps the snapshot valid. *)
LEMMA NextSnapshot == SInv /\ [Next]_vars => SInv'
<1>1. SInv /\ UNCHANGED vars => OwnerInv' /\ SnapshotValid'
  BY DEF SInv, OwnerInv, SnapshotValid, ReadAhead, ReadableFds, Readable, Peers,
         vars, scanVars, tableVars, peerVars
<1> QED
  BY <1>1, NextInv, ServerKeepsSnapshot, ClientsKeepSnapshot DEF SInv, Next

(* What select() reported and the scan has not come to yet is still true   *)
(* when it does, for every set of clients, requests and bounds: no read()  *)
(* or accept() of the scan is on a stale descriptor.                       *)
THEOREM SnapshotAlwaysValid == Spec => []SnapshotValid
<1>1. SInv => SnapshotValid
  BY DEF SInv
<1> QED
  BY <1>1, InitSnapshot, NextSnapshot, PTL DEF Spec

-----------------------------------------------------------------------------
(***************************************************************************)
(* Proofs about what IOServer does for its clients, for every set of       *)
(* clients and requests and every bound: it stays in step with each byte   *)
(* stream, it executes the requests in order and each shift once, it does  *)
(* not let anybody break a client's run of shifts, and it keeps the        *)
(* promise of module XvcService.                                           *)
(***************************************************************************)

(* The client handleData() is serving. *)
Turn(c) == pc \in InHandleData /\ file[fd] = c

(* Clients that are connected or still to come.  What a closed connection  *)
(* left behind is nobody's business.                                       *)
Attached(c) ==
    \/ cstate[c] = "new"
    \/ \E f \in Fd : file[f] = c
    \/ \E k \in DOMAIN backlog : backlog[k] = c

Command(i) == [kind |-> "cmd", id |-> i]

(* What follows token t in the stream of a client that made requests s. *)
After(s, t) ==
    IF t.kind = "cmd" THEN [kind |-> "rest", id |-> t.id]
    ELSE IF t.kind = "rest" /\ s[t.id].op = "sh" THEN [kind |-> "length", id |-> t.id]
    ELSE IF t.kind = "length" /\ NBytes(s[t.id].nbits) # 0 THEN [kind |-> "data", id |-> t.id]
    ELSE Command(t.id + 1)

(* The k-th token of q, or what comes after q. *)
Coming(q, next, k) == IF k <= Len(q) THEN q[k] ELSE next

(* The first token that has not arrived: unsent, or of the next request. *)
ToArrive(c) == Coming(tosend[c], Command(Len(sent[c]) + 1), 1)

(* The token the server has to read next from c. *)
Wanted(c) ==
    IF ~Turn(c) \/ pc = "cmd" THEN Command(Len(replies[c]) + 1)
    ELSE IF pc \in {"rest", "length"} THEN [kind |-> pc, id |-> cur]
    ELSE IF pc = "payload" /\ NBytes(sent[c][cur].nbits) # 0 THEN [kind |-> "data", id |-> cur]
    ELSE Command(cur + 1)

(* q is the end of the last of the requests s. *)
Unsent(s, q) ==
    \A k \in 1..Len(q) :
        q[k].id = Len(s) /\ After(s, q[k]) = Coming(q, Command(Len(s) + 1), k + 1)

(* q is a part of the stream of the requests s that leads to next. *)
Arrived(s, q, next) ==
    \A k \in 1..Len(q) :
        q[k].id \in 1..Len(s) /\ After(s, q[k]) = Coming(q, next, k + 1)

(* The stream of c, from the server's place in it to what c has not sent.  *)
StreamInv(c) ==
    /\ Unsent(sent[c], tosend[c])
    /\ Arrived(sent[c], in[c], ToArrive(c))
    /\ Coming(in[c], ToArrive(c), 1) = Wanted(c)

(* The request of the turn: the first one without an answer, and checked   *)
(* as far as the turn has come.                                            *)
RequestInv ==
    pc \in InHandleData \ {"cmd"} =>
        /\ cur = Len(replies[Peer]) + 1 /\ cur <= Len(sent[Peer])
        /\ pc = "rest" => Request.op \in {"ge", "se", "sh"}
        /\ pc = "answer" => Request.op \in {"ge", "se"}
        /\ pc \in {"length", "payload", "shift", "reply"} => Request.op = "sh"
        /\ pc \in {"payload", "shift", "reply"} => Fits(Request.nbits)
        /\ pc = "reply" => /\ jtag # <<>>
                           /\ jtag[Len(jtag)] = [client |-> Peer, id |-> cur]

OnPort(c, i) == \E k \in 1..Len(jtag) : jtag[k] = [client |-> c, id |-> i]

(* The logs of c agree: what was answered, and what went to the port.      *)
LogInv(c) ==
    /\ Len(replies[c]) <= Len(sent[c])
    /\ \A i \in 1..Len(replies[c]) :
         replies[c][i].id = i /\ (sent[c][i].op = "sh" => OnPort(c, i))
    /\ \A i \in 1..MaxRequests : OnPort(c, i) =>
         /\ i \in 1..Len(sent[c]) /\ sent[c][i].op = "sh" /\ Fits(sent[c][i].nbits)
         /\ i < Len(sent[c]) \/ tosend[c] = <<>>
         /\ i <= Len(replies[c]) \/ (Turn(c) /\ pc = "reply" /\ i = cur)

(* A connected client whose last answer is that of a shift has the turn,   *)
(* and the last shift of the port is its own.                              *)
BurstInv(c) ==
    Attached(c) /\ OnPort(c, Len(replies[c])) =>
        /\ Turn(c)
        /\ pc # "reply" => jtag[Len(jtag)] = [client |-> c, id |-> Len(replies[c])]

PortInv ==
    /\ \A j, k \in 1..Len(jtag) : jtag[j] = jtag[k] => j = k
    /\ BurstsUnbroken

ServiceInv ==
    /\ SInv /\ RequestInv /\ PortInv
    /\ \A c \in Client : (Attached(c) => StreamInv(c)) /\ LogInv(c) /\ BurstInv(c)
-----------------------------------------------------------------------------
(* Sequences with something coming after them.                             *)

(* The tail of q: one token fewer before what comes after it. *)
LEMMA ComingTail ==
  ASSUME NEW S, NEW q \in Seq(S), q # <<>>, NEW n, NEW k \in Nat \ {0}
  PROVE  /\ Coming(Tail(q), n, k) = Coming(q, n, k + 1)
         /\ k <= Len(Tail(q)) => Tail(q)[k] = q[k + 1] /\ k + 1 \in 1..Len(q)
         /\ Tail(q) \in Seq(S) /\ Len(Tail(q)) = Len(q) - 1
<1>1. /\ Len(Tail(q)) = Len(q) - 1 /\ Tail(q) \in Seq(S) /\ Len(q) \in Nat
      /\ \A i \in 1..Len(Tail(q)) : Tail(q)[i] = q[i + 1]
  BY HeadTailProperties, EmptySeq, LenProperties
<1>2. CASE k <= Len(Tail(q))
  <2>1. k + 1 <= Len(q) /\ k \in 1..Len(Tail(q)) /\ k + 1 \in 1..Len(q)
    BY <1>1, <1>2
  <2>2. Tail(q)[k] = q[k + 1]
    BY <1>1, <2>1
  <2> QED
    BY <1>1, <1>2, <2>1, <2>2 DEF Coming
<1>3. CASE ~(k <= Len(Tail(q)))
  <2>1. ~(k + 1 <= Len(q))
    BY <1>1, <1>3
  <2> QED
    BY <1>1, <1>3, <2>1 DEF Coming
<1> QED
  BY <1>2, <1>3

(* The head of what comes after q arrives. *)
LEMMA ComingAppend ==
  ASSUME NEW S, NEW q \in Seq(S), NEW t \in S, NEW n
  PROVE  /\ Append(q, t) \in Seq(S) /\ Len(Append(q, t)) = Len(q) + 1 /\ Len(q) \in Nat
         /\ \A k \in 1..Len(q) : Append(q, t)[k] = q[k]
         /\ Append(q, t)[Len(q) + 1] = t
         /\ \A k \in 1..(Len(q) + 1) : Coming(Append(q, t), n, k) = Coming(q, t, k)
         /\ Coming(Append(q, t), n, Len(q) + 2) = n
<1>1. /\ Append(q, t) \in Seq(S) /\ Len(Append(q, t)) = Len(q) + 1 /\ Len(q) \in Nat
      /\ \A k \in 1..Len(q) : Append(q, t)[k] = q[k]
      /\ Append(q, t)[Len(q) + 1] = t
  BY AppendProperties, LenProperties
<1>2. ASSUME NEW k \in 1..(Len(q) + 1)
      PROVE  Coming(Append(q, t), n, k) = Coming(q, t, k)
  <2>1. CASE k <= Len(q)
    <3>1. k \in 1..Len(q) /\ k <= Len(Append(q, t))
      BY <1>1, <2>1
    <3> QED
      BY <1>1, <3>1 DEF Coming
  <2>2. CASE k = Len(q) + 1
    <3>1. k <= Len(Append(q, t)) /\ ~(k <= Len(q))
      BY <1>1, <2>2
    <3> QED
      BY <1>1, <2>2, <3>1 DEF Coming
  <2> QED
    BY <1>1, <2>1, <2>2
<1>3. ~(Len(q) + 2 <= Len(Append(q, t)))
  BY <1>1
<1> QED
  BY <1>1, <1>2, <1>3 DEF Coming

(* The same, of tokens. *)
LEMMA TokenComes ==
  ASSUME NEW q \in Seq(Token), NEW t \in Token, NEW n
  PROVE  /\ Len(Append(q, t)) = Len(q) + 1 /\ Len(q) \in Nat
         /\ \A k \in 1..Len(q) : Append(q, t)[k] = q[k]
         /\ Append(q, t)[Len(q) + 1] = t
         /\ \A k \in 1..(Len(q) + 1) : Coming(Append(q, t), n, k) = Coming(q, t, k)
         /\ Coming(Append(q, t), n, Len(q) + 2) = n
  BY ComingAppend

(* What a client wrote next is followed by what comes after it: the tokens *)
(* of a request are a chain that leads to the next request.                *)
LEMMA TokensChain ==
  ASSUME NEW s \in Seq(Requests), NEW r \in Requests
  PROVE  LET i == Len(s) + 1
             t == Tokens(r, i)
         IN  /\ Coming(t, Command(i + 1), 1) = Command(i)
             /\ \A k \in 1..Len(t) :
                  /\ t[k].id = i
                  /\ After(Append(s, r), t[k]) = Coming(t, Command(i + 1), k + 1)
<1> DEFINE i == Len(s) + 1
           t == Tokens(r, i)
           u == Append(s, r)
           K == Kinds(r)
<1>1. i \in Nat /\ u[i] = r
  BY AppendProperties, LenProperties
<1>2. ASSUME NEW n \in Nat, DOMAIN K = 1..n
      PROVE  Len(t) = n /\ \A k \in 1..n : t[k] = [kind |-> K[k], id |-> i]
  <2>1. t = [j \in 1..n |-> [kind |-> K[j], id |-> i]]
    BY <1>2 DEF Tokens
  <2> QED
    BY <2>1
<1> HIDE DEF t, u, i
<1>4. CASE r.op # "sh"
  <2>1. DOMAIN K = 1..2 /\ K[1] = "cmd" /\ K[2] = "rest"
    BY <1>4 DEF Kinds
  <2>2. /\ Len(t) = 2
        /\ t[1] = [kind |-> "cmd", id |-> i] /\ t[2] = [kind |-> "rest", id |-> i]
    <3> HIDE DEF K
    <3>1. Len(t) = 2 /\ \A k \in 1..2 : t[k] = [kind |-> K[k], id |-> i]
      BY <2>1, <1>2, 2 \in Nat, Zenon
    <3> QED
      BY <2>1, <3>1
  <2>3. After(u, t[1]) = t[2] /\ After(u, t[2]) = Command(i + 1)
    BY <1>1, <1>4, <2>2 DEF After
  <2>4. \A k \in 1..Len(t) : k = 1 \/ k = 2
    BY <2>2
  <2> QED
    BY <2>2, <2>3, <2>4 DEF Coming, Command, i, t, u
<1>5. CASE r.op = "sh" /\ NBytes(r.nbits) = 0
  <2>1. DOMAIN K = 1..3 /\ K[1] = "cmd" /\ K[2] = "rest" /\ K[3] = "length"
    BY <1>5 DEF Kinds
  <2>2. /\ Len(t) = 3
        /\ t[1] = [kind |-> "cmd", id |-> i] /\ t[2] = [kind |-> "rest", id |-> i]
        /\ t[3] = [kind |-> "length", id |-> i]
    <3> HIDE DEF K
    <3>1. Len(t) = 3 /\ \A k \in 1..3 : t[k] = [kind |-> K[k], id |-> i]
      BY <2>1, <1>2, 3 \in Nat, Zenon
    <3> QED
      BY <2>1, <3>1
  <2>3. After(u, t[1]) = t[2] /\ After(u, t[2]) = t[3] /\ After(u, t[3]) = Command(i + 1)
    BY <1>1, <1>5, <2>2 DEF After
  <2>4. \A k \in 1..Len(t) : k = 1 \/ k = 2 \/ k = 3
    BY <2>2
  <2> QED
    BY <2>2, <2>3, <2>4 DEF Coming, Command, i, t, u
<1>6. CASE r.op = "sh" /\ NBytes(r.nbits) # 0
  <2>1. DOMAIN K = 1..4 /\ K[1] = "cmd" /\ K[2] = "rest" /\ K[3] = "length" /\ K[4] = "data"
    BY <1>6 DEF Kinds
  <2>2. /\ Len(t) = 4
        /\ t[1] = [kind |-> "cmd", id |-> i] /\ t[2] = [kind |-> "rest", id |-> i]
        /\ t[3] = [kind |-> "length", id |-> i] /\ t[4] = [kind |-> "data", id |-> i]
    <3> HIDE DEF K
    <3>1. Len(t) = 4 /\ \A k \in 1..4 : t[k] = [kind |-> K[k], id |-> i]
      BY <2>1, <1>2, 4 \in Nat, Zenon
    <3> QED
      BY <2>1, <3>1
  <2>3. /\ After(u, t[1]) = t[2] /\ After(u, t[2]) = t[3] /\ After(u, t[3]) = t[4]
        /\ After(u, t[4]) = Command(i + 1)
    BY <1>1, <1>6, <2>2 DEF After
  <2>4. \A k \in 1..Len(t) : k = 1 \/ k = 2 \/ k = 3 \/ k = 4
    BY <2>2
  <2> QED
    BY <2>2, <2>3, <2>4 DEF Coming, Command, i, t, u
<1> QED
  BY <1>4, <1>5, <1>6
-----------------------------------------------------------------------------
(* What a step that does not touch a client keeps of what is known of it.  *)

(* The types of what is kept for a client. *)
LEMMA LogTypes ==
  ASSUME Inv, NEW c \in Client
  PROVE  /\ in[c] \in Seq(Token) /\ tosend[c] \in Seq(Token) /\ sent[c] \in Seq(Requests)
         /\ replies[c] \in Seq([id : 1..MaxRequests, ok : BOOLEAN])
         /\ Len(sent[c]) \in Nat /\ Len(replies[c]) \in Nat
         /\ Len(in[c]) \in Nat /\ Len(tosend[c]) \in Nat
  BY LenProperties DEF Inv, TypeOK

(* A stream nobody touched. *)
LEMMA KeptStream ==
  ASSUME NEW c \in Client, StreamInv(c), sent'[c] = sent[c], in'[c] = in[c],
         tosend'[c] = tosend[c], Wanted(c)' = Wanted(c)
  PROVE  StreamInv(c)'
  BY DEF StreamInv, Unsent, Arrived, ToArrive

(* Logs nobody touched, outside the reply to a shift. *)
LEMMA KeptLog ==
  ASSUME NEW c \in Client, LogInv(c), sent'[c] = sent[c], tosend'[c] = tosend[c],
         replies'[c] = replies[c], \A i \in 1..MaxRequests : OnPort(c, i)' <=> OnPort(c, i),
         Inv, ~(Turn(c) /\ pc = "reply")
  PROVE  LogInv(c)'
<1>1. Len(replies[c]) \in Nat /\ \A i \in 1..Len(replies[c]) : i \in 1..MaxRequests
  <2>1. Len(replies[c]) \in Nat
    BY LogTypes
  <2>2. ASSUME NEW i \in 1..Len(replies[c]) PROVE replies[c][i].id \in 1..MaxRequests
    <3>1. replies[c] \in Seq([id : 1..MaxRequests, ok : BOOLEAN])
      BY LogTypes
    <3>2. replies[c][i] \in [id : 1..MaxRequests, ok : BOOLEAN]
      BY <3>1, ElementOfSeq
    <3> QED
      BY <3>2
  <2> QED
    BY <2>1, <2>2 DEF LogInv
<1>2. Len(replies'[c]) <= Len(sent'[c])
  BY DEF LogInv
<1>3. \A i \in 1..Len(replies'[c]) :
        replies'[c][i].id = i /\ (sent'[c][i].op = "sh" => OnPort(c, i)')
  BY <1>1 DEF LogInv
<1>4. ASSUME NEW i \in 1..MaxRequests, OnPort(c, i)'
      PROVE  /\ i \in 1..Len(sent'[c]) /\ sent'[c][i].op = "sh" /\ Fits(sent'[c][i].nbits)
             /\ i < Len(sent'[c]) \/ tosend'[c] = <<>>
             /\ i <= Len(replies'[c])
  BY <1>4 DEF LogInv
<1> QED
  BY <1>2, <1>3, <1>4 DEF LogInv, Fits, NBytes

(* A run of shifts the port and the turn did not move on from. *)
LEMMA KeptBurst ==
  ASSUME NEW c \in Client, BurstInv(c), Attached(c)' => Attached(c),
         replies'[c] = replies[c], jtag' = jtag,
         Turn(c) => Turn(c)' /\ pc # "reply"
  PROVE  BurstInv(c)'
  BY DEF BurstInv, OnPort

(* A client that the step does not touch, and that has no turn. *)
LEMMA Bystander ==
  ASSUME ServiceInv, NEW c \in Client, Attached(c)' => Attached(c), ~Turn(c), ~Turn(c)',
         sent'[c] = sent[c], in'[c] = in[c], tosend'[c] = tosend[c], replies'[c] = replies[c],
         jtag' = jtag
  PROVE  (Attached(c)' => StreamInv(c)') /\ LogInv(c)' /\ BurstInv(c)'
<1>1. (Attached(c) => StreamInv(c)) /\ LogInv(c) /\ BurstInv(c) /\ Inv
  BY DEF ServiceInv, SInv
<1>2. Wanted(c)' = Wanted(c)
  BY DEF Wanted
<1>3. \A i \in 1..MaxRequests : OnPort(c, i)' <=> OnPort(c, i)
  BY DEF OnPort
<1> QED
  BY <1>1, <1>2, <1>3, KeptStream, KeptLog, KeptBurst

-----------------------------------------------------------------------------
(* The steps of the scan: no one has the turn before or after them.        *)

(* A step of the scan moves nothing but the descriptors. *)
LEMMA ScanKeepsService ==
  ASSUME ServiceInv, SInv', pc \in {"select", "scan"}, pc' \notin InHandleData,
         UNCHANGED <<logVars, in, tosend>>, \A c \in Client : Attached(c)' => Attached(c)
  PROVE  ServiceInv'
<1>1. RequestInv' /\ PortInv'
  <2>1. RequestInv'
    BY DEF RequestInv
  <2>2. PortInv'
    BY DEF ServiceInv, PortInv, BurstsUnbroken, Shifted, logVars
  <2> QED
    BY <2>1, <2>2
<1>2. ASSUME NEW c \in Client
      PROVE  (Attached(c)' => StreamInv(c)') /\ LogInv(c)' /\ BurstInv(c)'
  <2>1. ~Turn(c) /\ ~Turn(c)'
    BY DEF Turn, InHandleData
  <2> QED
    BY <2>1, Bystander DEF logVars
<1> QED
  BY <1>1, <1>2 DEF ServiceInv

(* Select, accept() and the two aborts. *)
LEMMA ScanStepsKeepService ==
  ASSUME ServiceInv, SInv',
         Select \/ Accept \/ AcceptError \/ AbortListener
  PROVE  ServiceInv'
<1>1. TypeOK /\ Inv
  BY DEF ServiceInv, SInv, Inv
<1>2. pc \in {"select", "scan"} /\ pc' \notin InHandleData /\ UNCHANGED <<logVars, in, tosend>>
  <2>1. CASE Select
    BY <2>1 DEF Select, InHandleData, peerVars
  <2>2. CASE Accept \/ AcceptError
    <3>1. pc = "scan" /\ NextDescriptor /\ UNCHANGED <<logVars, in, tosend>>
      BY <2>2 DEF Accept, AcceptError, peerVars
    <3>2. pc' \in {"select", "scan"}
      BY <1>1, <3>1, NextDescriptorStep
    <3> QED
      BY <3>1, <3>2 DEF InHandleData
  <2>3. CASE AbortListener
    BY <2>3 DEF AbortListener, InHandleData
  <2> QED
    BY <2>1, <2>2, <2>3
<1>3. ASSUME NEW c \in Client PROVE Attached(c)' => Attached(c)
  <2>1. CASE Select \/ AcceptError
    BY <2>1 DEF Select, AcceptError, tableVars, peerVars, Attached
  <2>2. CASE Accept
    <3>1. PICK newfd \in Lowest(FreeFds) : file' = [file EXCEPT ![newfd] = Head(backlog)]
      BY <2>2 DEF Accept
    <3>2. /\ backlog \in Seq(Client) /\ backlog # <<>> /\ backlog' = Tail(backlog)
          /\ cstate' = cstate
      BY <1>1, <2>2 DEF Accept, TypeOK, peerVars
    <3>3. /\ Head(backlog) = backlog[1] /\ 1 \in DOMAIN backlog
          /\ \A k \in DOMAIN backlog' : backlog'[k] = backlog[k + 1] /\ k + 1 \in DOMAIN backlog
      BY <3>2, HeadTailProperties, EmptySeq, LenProperties
    <3>4. \A f \in Fd : file'[f] = file[f] \/ file'[f] = backlog[1]
      BY <1>1, <3>1, <3>3 DEF TypeOK
    <3> QED
      BY <3>2, <3>3, <3>4 DEF Attached
  <2>3. CASE AbortListener
    <3>1. /\ file' = [file EXCEPT ![Sock] = Free] /\ backlog' = <<>>
          /\ cstate' = [d \in Client |-> IF d \in ToSet(backlog) THEN "closed" ELSE cstate[d]]
      BY <2>3 DEF AbortListener
    <3>2. \A f \in Fd : file'[f] = c => file[f] = c
      BY <1>1, <3>1, FileAssumption DEF TypeOK
    <3>3. cstate'[c] = "new" => cstate[c] = "new"
      BY <3>1
    <3>4. DOMAIN backlog' = {}
      BY <3>1
    <3> QED
      BY <3>2, <3>3, <3>4 DEF Attached
  <2> QED
    BY <2>1, <2>2, <2>3
<1> QED
  BY <1>2, <1>3, ScanKeepsService

(* A closed connection is not attached any more, and no other changes. *)
LEMMA ClosedDetaches ==
  ASSUME ServiceInv, CloseConnection, NEW c \in Client, file[fd] = c
  PROVE  /\ ~Attached(c)' /\ pc' \in {"select", "scan"}
         /\ \A d \in Client : Attached(d)' => Attached(d)
         /\ \A d \in Client : d # c => in'[d] = in[d]
         /\ tosend' = tosend
<1>1. SInv /\ TypeOK
  BY DEF ServiceInv, SInv, Inv
<1>2. /\ file' = [file EXCEPT ![fd] = Free] /\ cstate' = [cstate EXCEPT ![c] = "closed"]
      /\ in' = [in EXCEPT ![c] = <<>>] /\ backlog' = backlog /\ tosend' = tosend
      /\ NextDescriptor
  BY DEF CloseConnection
<1>3. fd \in Fd /\ \A f \in Fd : f # fd => file'[f] = file[f] /\ file[f] # c
  BY <1>1, <1>2 DEF SInv, TypeOK, OwnerInv
<1>4. file'[fd] = Free /\ Free \notin Client
  BY <1>1, <1>2, FileAssumption DEF TypeOK
<1>5. cstate'[c] = "closed" /\ \A d \in Client : d # c => cstate'[d] = cstate[d] /\ in'[d] = in[d]
  BY <1>1, <1>2 DEF TypeOK
<1>6. \A k \in DOMAIN backlog' : backlog'[k] # c
  BY <1>1, <1>2, <1>3 DEF SInv, OwnerInv
<1>7. ~Attached(c)'
  BY <1>3, <1>4, <1>5, <1>6 DEF Attached
<1>8. \A d \in Client : Attached(d)' => Attached(d)
  BY <1>2, <1>3, <1>4, <1>5 DEF Attached
<1> QED
  BY <1>1, <1>2, <1>5, <1>7, <1>8, NextDescriptorStep

(* The hang-ups that log nothing. *)
LEMMA HangUpsKeepService ==
  ASSUME ServiceInv, SInv', CloseConnection, UNCHANGED logVars, pc # "reply",
         NEW c \in Client, file[fd] = c
  PROVE  ServiceInv'
<1>1. pc' \notin InHandleData
  BY ClosedDetaches DEF InHandleData
<1>2. RequestInv' /\ PortInv'
  <2>1. RequestInv'
    BY <1>1 DEF RequestInv
  <2>2. PortInv'
    BY DEF ServiceInv, PortInv, BurstsUnbroken, Shifted, logVars
  <2> QED
    BY <2>1, <2>2
<1>3. ASSUME NEW d \in Client
      PROVE  (Attached(d)' => StreamInv(d)') /\ LogInv(d)' /\ BurstInv(d)'
  <2>1. CASE d = c
    <3>1. LogInv(d)'
      <4>1. LogInv(d) /\ Inv
        BY DEF ServiceInv, SInv
      <4>2. tosend' = tosend /\ UNCHANGED logVars
        BY ClosedDetaches
      <4>3. sent'[d] = sent[d] /\ tosend'[d] = tosend[d] /\ replies'[d] = replies[d]
            /\ \A i \in 1..MaxRequests : OnPort(d, i)' <=> OnPort(d, i)
        BY <4>2 DEF logVars, OnPort
      <4> QED
        BY <4>1, <4>3, KeptLog
    <3> QED
      BY <2>1, <3>1, ClosedDetaches DEF BurstInv
  <2>2. CASE d # c
    <3>1. ~Turn(d) /\ ~Turn(d)'
      BY <1>1, <2>2 DEF Turn
    <3> QED
      BY <2>2, <3>1, Bystander, ClosedDetaches DEF logVars
  <2> QED
    BY <2>1, <2>2
<1> QED
  BY <1>2, <1>3 DEF ServiceInv

-----------------------------------------------------------------------------
(* The steps of a turn.                                                    *)

(* A step of the turn of c does not touch the others. *)
LEMMA TurnKeepsService ==
  ASSUME ServiceInv, SInv', NEW c \in Client, file[fd] = c,
         UNCHANGED <<fd, file, backlog, cstate, sent, jtag, tosend>>,
         \A d \in Client : d # c => in'[d] = in[d] /\ replies'[d] = replies[d],
         RequestInv', StreamInv(c)', LogInv(c)', BurstInv(c)'
  PROVE  ServiceInv'
<1>1. PortInv'
  BY DEF ServiceInv, PortInv, BurstsUnbroken, Shifted
<1>2. ASSUME NEW d \in Client, d # c
      PROVE  (Attached(d)' => StreamInv(d)') /\ LogInv(d)' /\ BurstInv(d)'
  <2>1. ~Turn(d) /\ ~Turn(d)'
    BY <1>2 DEF Turn
  <2>2. Attached(d)' => Attached(d)
    BY DEF Attached
  <2> QED
    BY <1>2, <2>1, <2>2, Bystander
<1> QED
  BY <1>1, <1>2 DEF ServiceInv

(* The client of the turn is attached, and its stream is known. *)
LEMMA TurnFacts ==
  ASSUME ServiceInv, NEW c \in Client, file[fd] = c
  PROVE  /\ Inv /\ Attached(c) /\ StreamInv(c) /\ LogInv(c) /\ BurstInv(c) /\ Peer = c
         /\ pc \in InHandleData => Turn(c)
<1>1. Inv /\ fd \in Fd
  BY DEF ServiceInv, SInv, Inv, TypeOK
<1>2. Attached(c)
  BY <1>1 DEF Attached
<1> QED
  BY <1>1, <1>2 DEF ServiceInv, Peer, Turn

(* The request of the turn is known, and is the first without an answer. *)
LEMMA RequestFacts ==
  ASSUME ServiceInv, NEW c \in Client, file[fd] = c, pc \in InHandleData \ {"cmd"}
  PROVE  /\ cur = Len(replies[c]) + 1 /\ cur \in 1..Len(sent[c]) /\ cur \in 1..MaxRequests
         /\ Request = sent[c][cur] /\ sent[c][cur] \in Requests
         /\ PayloadSize = NBytes(sent[c][cur].nbits) /\ PayloadSize \in Nat
<1>1. Inv /\ Peer = c
  BY TurnFacts
<1>2. cur \in 1..MaxRequests
  BY <1>1 DEF Inv, PlaceInv
<1>3. cur = Len(replies[c]) + 1 /\ cur <= Len(sent[c])
  BY <1>1 DEF ServiceInv, RequestInv
<1>4. sent[c] \in Seq(Requests) /\ Len(sent[c]) \in Nat
  BY <1>1, LogTypes
<1>5. cur \in 1..Len(sent[c])
  BY <1>2, <1>3, <1>4
<1>6. sent[c][cur] \in Requests
  BY <1>4, <1>5, ElementOfSeq
<1>7. sent[c][cur].nbits \in Nat
  BY <1>6, RequestAssumption
<1>8. NBytes(sent[c][cur].nbits) \in Nat
  BY <1>7 DEF NBytes
<1> QED
  BY <1>1, <1>2, <1>3, <1>5, <1>6, <1>8 DEF Request, PayloadSize

(* What the server reads next is what it wants. *)
LEMMA HeadIsWanted ==
  ASSUME ServiceInv, NEW c \in Client, Attached(c), in[c] # <<>>
  PROVE  Head(in[c]) = Wanted(c) /\ Head(in[c]).id \in 1..Len(sent[c]) /\ 1 \in 1..Len(in[c])
<1>1. StreamInv(c) /\ Inv
  BY DEF ServiceInv, SInv
<1>2. in[c] \in Seq(Token) /\ Len(in[c]) \in Nat
  BY <1>1, LogTypes
<1>3. Head(in[c]) = in[c][1] /\ 1 <= Len(in[c]) /\ 1 \in 1..Len(in[c])
  BY <1>2, HeadTailProperties, EmptySeq
<1> QED
  BY <1>1, <1>3 DEF StreamInv, Unsent, Arrived, Coming

(* A read takes a token, and the server wants the one that follows it. *)
LEMMA ReceiveKeepsStream ==
  ASSUME ServiceInv, NEW c \in Client, file[fd] = c, in[c] # <<>>,
         sent' = sent, tosend' = tosend, in'[c] = Tail(in[c]),
         Wanted(c)' = After(sent[c], Wanted(c))
  PROVE  StreamInv(c)'
<1> DEFINE n == ToArrive(c)
<1>1. Inv /\ Attached(c) /\ StreamInv(c)
  BY TurnFacts
<1>2. in[c] \in Seq(Token) /\ Len(in[c]) \in Nat
  BY <1>1, LogTypes
<1>3. ToArrive(c)' = n
  BY DEF ToArrive
<1>4. Head(in[c]) = Wanted(c) /\ 1 \in 1..Len(in[c]) /\ Head(in[c]) = in[c][1]
  BY <1>1, <1>2, HeadIsWanted, HeadTailProperties
<1>5. \A k \in 1..Len(in[c]) : /\ in[c][k].id \in 1..Len(sent[c])
                               /\ After(sent[c], in[c][k]) = Coming(in[c], n, k + 1)
  BY <1>1 DEF StreamInv, Unsent, Arrived
<1> HIDE DEF n
<1>6. Len(Tail(in[c])) = Len(in[c]) - 1
  BY <1>2, HeadTailProperties
<1>7. ASSUME NEW k \in 1..Len(Tail(in[c]))
      PROVE  /\ Tail(in[c])[k].id \in 1..Len(sent[c])
             /\ After(sent[c], Tail(in[c])[k]) = Coming(Tail(in[c]), n, k + 1)
  <2>1. k \in Nat \ {0} /\ k + 1 \in Nat \ {0} /\ k <= Len(Tail(in[c]))
    BY <1>2, <1>6
  <2>2. Tail(in[c])[k] = in[c][k + 1] /\ k + 1 \in 1..Len(in[c])
    BY <1>2, <2>1, ComingTail
  <2>3. Coming(Tail(in[c]), n, k + 1) = Coming(in[c], n, (k + 1) + 1)
    BY <1>2, <2>1, ComingTail
  <2> QED
    BY <1>5, <2>2, <2>3
<1>8. Coming(Tail(in[c]), n, 1) = Wanted(c)'
  <2>1. Coming(Tail(in[c]), n, 1) = Coming(in[c], n, 1 + 1)
    BY <1>2, ComingTail
  <2>2. After(sent[c], in[c][1]) = Coming(in[c], n, 1 + 1)
    BY <1>4, <1>5
  <2> QED
    BY <1>4, <2>1, <2>2
<1>9. \A k \in 1..Len(tosend'[c]) :
        /\ tosend'[c][k].id = Len(sent'[c])
        /\ After(sent'[c], tosend'[c][k]) = Coming(tosend'[c], Command(Len(sent'[c]) + 1), k + 1)
  BY <1>1 DEF StreamInv, Unsent, Arrived
<1> QED
  BY <1>3, <1>7, <1>8, <1>9 DEF StreamInv, Unsent, Arrived

(* The logs and the runs of shifts do not change with a read. *)
LEMMA QuietTurn ==
  ASSUME ServiceInv, NEW c \in Client, file[fd] = c,
         UNCHANGED <<fd, file, backlog, cstate, sent, jtag, tosend, replies>>,
         pc # "reply", pc' \in InHandleData
  PROVE  LogInv(c)' /\ BurstInv(c)'
<1>1. Inv /\ LogInv(c) /\ BurstInv(c)
  BY TurnFacts
<1>2. LogInv(c)'
  <2>1. \A i \in 1..MaxRequests : OnPort(c, i)' <=> OnPort(c, i)
    BY DEF OnPort
  <2> QED
    BY <1>1, <2>1, KeptLog
<1>3. BurstInv(c)'
  <2>1. Turn(c)'
    BY DEF Turn
  <2>2. Attached(c)' => Attached(c)
    BY DEF Attached
  <2> QED
    BY <1>1, <2>1, <2>2, KeptBurst
<1> QED
  BY <1>2, <1>3

(* A turn begins where the client's last one ended. *)
LEMMA EnterKeepsService ==
  ASSUME ServiceInv, SInv', EnterHandleData
  PROVE  ServiceInv'
<1>1. /\ pc = "scan" /\ pc' = "cmd"
      /\ UNCHANGED <<fd, file, backlog, cstate, sent, jtag, tosend, replies, in, conn, maxfd>>
  BY DEF EnterHandleData, tableVars, peerVars, logVars
<1> DEFINE c == file[fd]
<1>2. c \in Client
  BY <1>1 DEF SInv, Inv, PlaceInv, InHandleData
<1>3. RequestInv'
  BY <1>1 DEF RequestInv
<1>4. PICK e \in Client : file[fd] = e
  BY <1>2
<1>5. Wanted(e)' = Wanted(e)
  BY <1>1, <1>4 DEF Wanted, Turn, InHandleData
<1>6. StreamInv(e)'
  BY <1>1, <1>4, <1>5, TurnFacts, KeptStream
<1>7. LogInv(e)' /\ BurstInv(e)'
  BY <1>1, <1>4, QuietTurn DEF InHandleData
<1> QED
  BY <1>1, <1>3, <1>4, <1>6, <1>7, TurnKeepsService

(* The four reads: what they get is what they want, and what they want     *)
(* next is what follows.                                                   *)
LEMMA ReadsKeepService ==
  ASSUME ServiceInv, SInv', ReadCommand \/ ReadRest \/ ReadLength \/ ReadPayload
  PROVE  ServiceInv'
<1>1. /\ pc \in {"cmd", "rest", "length", "payload"}
      /\ pc' \in {"rest", "answer", "length", "payload", "shift"}
      /\ in[Peer] # <<>> /\ cur' = Head(in[Peer]).id /\ in' = [in EXCEPT ![Peer] = Tail(@)]
      /\ UNCHANGED <<fd, file, backlog, cstate, sent, jtag, tosend, replies>>
  BY DEF ReadCommand, ReadRest, ReadLength, ReadPayload, Receive, tableVars, logVars
<1>2. PICK c \in Client : file[fd] = c
  BY <1>1 DEF ServiceInv, SInv, Inv, PlaceInv, InHandleData
<1>3. Inv /\ Attached(c) /\ Peer = c /\ Turn(c)
  BY <1>1, <1>2, TurnFacts DEF InHandleData
<1>4. in'[c] = Tail(in[c]) /\ \A d \in Client : d # c => in'[d] = in[d]
  BY <1>1, <1>3 DEF Inv, TypeOK
<1>5. Head(in[c]) = Wanted(c) /\ cur' = Wanted(c).id /\ cur' \in 1..Len(sent[c])
  BY <1>1, <1>3, HeadIsWanted
<1>6. Turn(c)' /\ Peer' = c
  BY <1>1, <1>2 DEF Turn, Peer, InHandleData
<1>7. Wanted(c)' = After(sent[c], Wanted(c)) /\ RequestInv'
  <2>1. CASE ReadCommand
    <3>1. pc = "cmd" /\ pc' = "rest"
      BY <2>1 DEF ReadCommand, Receive
    <3>2. Wanted(c) = Command(Len(replies[c]) + 1)
      BY <3>1 DEF Wanted
    <3>3. cur' = Len(replies[c]) + 1 /\ sent[c][cur'].op \in {"ge", "se", "sh"}
      <4>1. sent[Peer][Head(in[Peer]).id].op \in {"ge", "se", "sh"}
        BY <2>1 DEF ReadCommand, KnownCommand
      <4> QED
        BY <1>1, <1>3, <1>5, <3>2, <4>1 DEF Command
    <3>4. Wanted(c)' = [kind |-> "rest", id |-> Len(replies[c]) + 1]
      BY <1>6, <3>1, <3>3 DEF Wanted
    <3>5. RequestInv'
      BY <1>1, <1>5, <1>6, <3>1, <3>3, LogTypes, <1>3 DEF RequestInv, Request, InHandleData
    <3> QED
      BY <3>2, <3>4, <3>5 DEF After, Command
  <2>2. CASE ReadRest \/ ReadLength \/ ReadPayload
    <3>1. pc \in InHandleData \ {"cmd"}
      BY <2>2 DEF ReadRest, ReadLength, ReadPayload, Receive, InHandleData
    <3>2. /\ cur = Len(replies[c]) + 1 /\ cur \in 1..Len(sent[c])
          /\ Request = sent[c][cur] /\ PayloadSize = NBytes(sent[c][cur].nbits) /\ PayloadSize \in Nat
      BY <1>2, <3>1, RequestFacts
    <3>3. Wanted(c).id = cur /\ cur' = cur
      <4>1. pc = "payload" => PayloadSize # 0
        BY <2>2, <3>2 DEF ReadRest, ReadLength, ReadPayload, Receive
      <4>2. pc \in {"rest", "length", "payload"}
        BY <2>2 DEF ReadRest, ReadLength, ReadPayload, Receive
      <4> QED
        BY <1>3, <1>5, <3>2, <4>1, <4>2 DEF Wanted
    <3>4. Request' = Request /\ sent'[c] = sent[c] /\ replies'[c] = replies[c]
      BY <1>1, <1>2, <1>6, <3>2, <3>3 DEF Request
    <3>5. CASE ReadRest
      <4>1. pc = "rest" /\ pc' = IF Request.op = "sh" THEN "length" ELSE "answer"
        BY <3>5 DEF ReadRest, Receive
      <4>2. Request.op \in {"ge", "se", "sh"}
        BY <3>1, <4>1 DEF ServiceInv, RequestInv
      <4>3. RequestInv'
        BY <1>6, <3>2, <3>3, <3>4, <4>1, <4>2 DEF RequestInv
      <4>4. Wanted(c) = [kind |-> "rest", id |-> cur]
        BY <1>3, <4>1 DEF Wanted
      <4>5. Wanted(c)' = IF Request.op = "sh" THEN [kind |-> "length", id |-> cur] ELSE Command(cur + 1)
        BY <1>6, <3>3, <4>1 DEF Wanted, Command
      <4> QED
        BY <3>2, <4>3, <4>4, <4>5 DEF After
    <3>6. CASE ReadLength
      <4>1. pc = "length" /\ pc' = "payload" /\ Fits(Request.nbits)
        BY <3>6 DEF ReadLength, Receive
      <4>2. Request.op = "sh"
        BY <3>1, <4>1 DEF ServiceInv, RequestInv
      <4>3. RequestInv'
        BY <1>6, <3>2, <3>3, <3>4, <4>1, <4>2 DEF RequestInv, Fits, NBytes
      <4>4. Wanted(c) = [kind |-> "length", id |-> cur]
        BY <1>3, <4>1 DEF Wanted
      <4>5. Wanted(c)' = IF PayloadSize # 0 THEN [kind |-> "data", id |-> cur] ELSE Command(cur + 1)
        <5>1. NBytes(sent[c][cur].nbits)' = PayloadSize
          BY <3>2, <3>3, <3>4 DEF NBytes
        <5> QED
          BY <1>6, <3>3, <4>1, <5>1 DEF Wanted, Command
      <4> QED
        BY <3>2, <4>3, <4>4, <4>5 DEF After
    <3>7. CASE ReadPayload
      <4>1. pc = "payload" /\ pc' = "shift" /\ PayloadSize > 0
        BY <3>7 DEF ReadPayload, Receive
      <4>2. Request.op = "sh" /\ Fits(Request.nbits)
        BY <3>1, <4>1 DEF ServiceInv, RequestInv
      <4>3. RequestInv'
        BY <1>6, <3>2, <3>3, <3>4, <4>1, <4>2 DEF RequestInv, Fits, NBytes
      <4>4. Wanted(c) = [kind |-> "data", id |-> cur]
        BY <1>3, <3>2, <4>1 DEF Wanted
      <4>5. Wanted(c)' = Command(cur + 1)
        BY <1>6, <3>3, <4>1 DEF Wanted, Command
      <4> QED
        BY <3>2, <4>3, <4>4, <4>5 DEF After
    <3> QED
      BY <2>2, <3>5, <3>6, <3>7
  <2> QED
    BY <2>1, <2>2
<1>8. StreamInv(c)'
  BY <1>1, <1>2, <1>3, <1>4, <1>7, ReceiveKeepsStream
<1>9. LogInv(c)' /\ BurstInv(c)'
  BY <1>1, <1>2, QuietTurn DEF InHandleData
<1> QED
  BY <1>1, <1>2, <1>4, <1>7, <1>8, <1>9, TurnKeepsService

(* A shift of no bits has no payload to wait for. *)
LEMMA EmptyPayloadKeepsService ==
  ASSUME ServiceInv, SInv', EmptyPayload
  PROVE  ServiceInv'
<1>1. /\ pc = "payload" /\ pc' = "shift" /\ PayloadSize = 0 /\ cur' = cur
      /\ UNCHANGED <<fd, file, backlog, cstate, sent, jtag, tosend, replies, in>>
  BY DEF EmptyPayload, tableVars, peerVars, logVars
<1>2. PICK c \in Client : file[fd] = c
  BY <1>1 DEF ServiceInv, SInv, Inv, PlaceInv, InHandleData
<1>3. Turn(c) /\ Turn(c)' /\ StreamInv(c) /\ Peer = c /\ Peer' = c
  BY <1>1, <1>2, TurnFacts DEF Turn, Peer, InHandleData
<1>4. NBytes(sent[c][cur].nbits) = 0 /\ cur = Len(replies[c]) + 1
  BY <1>1, <1>2, RequestFacts DEF InHandleData
<1>5. Wanted(c)' = Wanted(c)
  BY <1>1, <1>3, <1>4 DEF Wanted, Command
<1>6. StreamInv(c)'
  BY <1>1, <1>3, <1>5, KeptStream
<1>7. RequestInv'
  BY <1>1, <1>3 DEF ServiceInv, RequestInv, InHandleData, Request, Fits, NBytes
<1> QED
  BY <1>1, <1>2, <1>6, <1>7, QuietTurn, TurnKeepsService DEF InHandleData

(* What is left of the last request has arrived when the next is wanted. *)
LEMMA AllArrived ==
  ASSUME Inv, NEW c \in Client, StreamInv(c), NEW i \in Nat, Wanted(c) = Command(i + 1),
         i = Len(sent[c])
  PROVE  tosend[c] = <<>>
<1>1. /\ in[c] \in Seq(Token) /\ Len(in[c]) \in Nat
      /\ tosend[c] \in Seq(Token) /\ Len(tosend[c]) \in Nat
  BY LogTypes
<1>2. in[c] = <<>>
  <2> SUFFICES ASSUME in[c] # <<>> PROVE FALSE
    OBVIOUS
  <2>1. 1 <= Len(in[c]) /\ 1 \in 1..Len(in[c])
    BY <1>1, EmptySeq
  <2>2. in[c][1] = Command(i + 1) /\ in[c][1].id \in 1..i
    BY <2>1 DEF StreamInv, Unsent, Arrived, Coming
  <2> QED
    BY <2>2 DEF Command
<1>3. Len(in[c]) = 0
  BY <1>2, EmptySeq
<1>4. ToArrive(c) = Command(i + 1)
  BY <1>3 DEF StreamInv, Unsent, Arrived, Coming
<1> SUFFICES ASSUME tosend[c] # <<>> PROVE FALSE
  OBVIOUS
<1>5. 1 <= Len(tosend[c]) /\ 1 \in 1..Len(tosend[c])
  BY <1>1, EmptySeq
<1>6. tosend[c][1] = Command(i + 1) /\ tosend[c][1].id = i
  BY <1>4, <1>5 DEF StreamInv, Unsent, Arrived, ToArrive, Coming
<1> QED
  BY <1>6 DEF Command

(* The shifts of c in a log of the port. *)
ShiftsIn(J, c) == {e.id : e \in {x \in ToSet(J) : x.client = c}}
PortLog == Seq([client : Client, id : 1..MaxRequests])
Logged(J, c, i) == \E k \in 1..Len(J) : J[k] = [client |-> c, id |-> i]

(* The numbers of the shifts of c in a log are those of its entries. *)
LEMMA InLog ==
  ASSUME NEW J \in PortLog, NEW c, NEW i
  PROVE  i \in ShiftsIn(J, c) <=> i \in 1..MaxRequests /\ Logged(J, c, i)
<1> USE DEF ShiftsIn, Logged, PortLog
<1>1. DOMAIN J = 1..Len(J) /\ \A k \in 1..Len(J) : J[k] \in [client : Client, id : 1..MaxRequests]
  BY LenProperties, ElementOfSeq
<1>2. ASSUME NEW e \in ToSet(J), e.client = c, e.id = i
      PROVE  i \in 1..MaxRequests /\ \E k \in 1..Len(J) : J[k] = [client |-> c, id |-> i]
  <2>1. PICK k \in 1..Len(J) : J[k] = e
    BY <1>1 DEF ToSet
  <2>2. e = [client |-> c, id |-> i] /\ i \in 1..MaxRequests
    BY <1>1, <1>2, <2>1
  <2> QED
    BY <2>1, <2>2
<1>3. ASSUME NEW k \in 1..Len(J), J[k] = [client |-> c, id |-> i]
      PROVE  i \in ShiftsIn(J, c)
  <2>1. J[k] \in ToSet(J) /\ J[k].client = c /\ J[k].id = i
    BY <1>1, <1>3 DEF ToSet
  <2> QED
    BY <2>1
<1> QED
  BY <1>2, <1>3

(* The same, of the log of the port. *)
LEMMA ShiftedOnPort ==
  ASSUME TypeOK, NEW c, NEW i
  PROVE  i \in Shifted(c) <=> i \in 1..MaxRequests /\ OnPort(c, i)
<1>1. jtag \in PortLog
  BY DEF TypeOK, PortLog
<1>2. Shifted(c) = ShiftsIn(jtag, c) /\ (OnPort(c, i) <=> Logged(jtag, c, i))
  BY DEF Shifted, ShiftsIn, OnPort, Logged
<1> QED
  BY <1>1, <1>2, InLog

(* A shift goes to the port: for the first time, after all of it arrived,  *)
(* and right after the previous one if the client's last answer was that   *)
(* of a shift.                                                             *)
LEMMA ShiftKeepsService ==
  ASSUME ServiceInv, SInv', Shift
  PROVE  ServiceInv'
<1>1. /\ pc = "shift" /\ pc' = "reply" /\ cur' = cur
      /\ UNCHANGED <<fd, file, backlog, cstate, sent, tosend, replies, in>>
      /\ jtag' = Append(jtag, [client |-> Peer, id |-> cur])
  BY DEF Shift, tableVars, peerVars, logVars
<1>2. PICK c \in Client : file[fd] = c
  BY <1>1 DEF ServiceInv, SInv, Inv, PlaceInv, InHandleData
<1> DEFINE e == [client |-> c, id |-> cur]
           n == Len(jtag)
<1>3. /\ Inv /\ TypeOK /\ Turn(c) /\ Turn(c)' /\ Attached(c)
      /\ StreamInv(c) /\ LogInv(c) /\ BurstInv(c) /\ Peer = c /\ Peer' = c
  BY <1>1, <1>2, TurnFacts DEF Turn, Peer, InHandleData, Inv
<1>4. /\ cur = Len(replies[c]) + 1 /\ cur \in 1..Len(sent[c]) /\ cur \in 1..MaxRequests
      /\ Request = sent[c][cur] /\ Len(replies[c]) \in Nat /\ Len(sent[c]) \in Nat
  BY <1>1, <1>2, <1>3, RequestFacts, LogTypes DEF InHandleData
<1>5. Request.op = "sh" /\ Fits(Request.nbits)
  BY <1>1 DEF ServiceInv, RequestInv, InHandleData
<1>6. jtag \in Seq([client : Client, id : 1..MaxRequests]) /\ n \in Nat
      /\ Len(jtag') = n + 1 /\ jtag'[n + 1] = e /\ \A k \in 1..n : jtag'[k] = jtag[k]
  BY <1>1, <1>3, <1>4, AppendProperties, LenProperties DEF TypeOK
<1> HIDE DEF n
<1>7. \A d, i : OnPort(d, i)' <=> OnPort(d, i) \/ (d = c /\ i = cur)
  <2> SUFFICES ASSUME NEW d, NEW i PROVE OnPort(d, i)' <=> OnPort(d, i) \/ (d = c /\ i = cur)
    OBVIOUS
  <2>1. ASSUME OnPort(d, i)' PROVE OnPort(d, i) \/ (d = c /\ i = cur)
    <3>1. PICK k \in 1..(n + 1) : jtag'[k] = [client |-> d, id |-> i]
      BY <1>6, <2>1 DEF OnPort
    <3>2. CASE k = n + 1
      BY <1>6, <3>1, <3>2
    <3>3. CASE k # n + 1
      <4>1. k \in 1..n
        BY <1>6, <3>3
      <4> QED
        BY <1>6, <3>1, <4>1 DEF OnPort, n
    <3> QED
      BY <3>2, <3>3
  <2>2. ASSUME OnPort(d, i) PROVE OnPort(d, i)'
    <3>1. PICK k \in 1..n : jtag[k] = [client |-> d, id |-> i]
      BY <2>2 DEF OnPort, n
    <3>2. k \in 1..(n + 1) /\ jtag'[k] = [client |-> d, id |-> i]
      BY <1>6, <3>1
    <3> QED
      BY <1>6, <3>2 DEF OnPort
  <2>3. ASSUME d = c, i = cur PROVE OnPort(d, i)'
    <3>1. n + 1 \in 1..(n + 1) /\ jtag'[n + 1] = [client |-> d, id |-> i]
      BY <1>6, <2>3
    <3> QED
      BY <1>6, <3>1 DEF OnPort
  <2> QED
    BY <2>1, <2>2, <2>3
<1>8. ~OnPort(c, cur) /\ \A i \in 1..MaxRequests : OnPort(c, i) => i < cur
  BY <1>1, <1>3, <1>4 DEF LogInv
<1>9. RequestInv'
  <2>1. Request' = Request /\ replies'[c] = replies[c] /\ sent'[c] = sent[c]
    BY <1>1, <1>3 DEF Request
  <2>2. jtag' # <<>> /\ jtag'[Len(jtag')] = e
    BY <1>6
  <2>3. cur' = Len(replies'[c]) + 1 /\ cur' <= Len(sent'[c])
    BY <1>1, <1>4, <2>1
  <2> QED
    BY <1>1, <1>3, <1>5, <2>1, <2>2, <2>3 DEF RequestInv, Fits, NBytes
<1>10. StreamInv(c)'
  <2>1. Wanted(c)' = Wanted(c)
    BY <1>1, <1>3 DEF Wanted, Command
  <2> QED
    BY <1>1, <1>3, <2>1, KeptStream
<1>11. LogInv(c)'
  <2>1. tosend[c] = <<>> \/ cur < Len(sent[c])
    <3>1. Wanted(c) = Command(cur + 1)
      BY <1>1, <1>3 DEF Wanted
    <3>2. cur = Len(sent[c]) => tosend[c] = <<>>
      BY <1>3, <1>4, <3>1, AllArrived
    <3> QED
      BY <1>4, <3>2
  <2>2. ASSUME NEW i \in 1..MaxRequests, OnPort(c, i)'
        PROVE  /\ i \in 1..Len(sent'[c]) /\ sent'[c][i].op = "sh" /\ Fits(sent'[c][i].nbits)
               /\ i < Len(sent'[c]) \/ tosend'[c] = <<>>
               /\ i <= Len(replies'[c]) \/ (Turn(c)' /\ pc' = "reply" /\ i = cur')
    <3>1. CASE i = cur
      BY <1>1, <1>3, <1>4, <1>5, <2>1, <3>1
    <3>2. CASE i # cur
      <4>1. OnPort(c, i)
        BY <1>7, <2>2, <3>2
      <4> QED
        BY <1>1, <1>3, <4>1 DEF LogInv
    <3> QED
      BY <3>1, <3>2
  <2>3. \A i \in 1..Len(replies'[c]) :
          replies'[c][i].id = i /\ (sent'[c][i].op = "sh" => OnPort(c, i)')
    BY <1>1, <1>3, <1>7 DEF LogInv
  <2>4. Len(replies'[c]) <= Len(sent'[c])
    BY <1>1, <1>3 DEF LogInv
  <2> QED
    BY <2>2, <2>3, <2>4 DEF LogInv, Fits, NBytes
<1>12. BurstInv(c)'
  BY <1>1, <1>3 DEF BurstInv
<1>13. ASSUME NEW d \in Client, d # c
       PROVE  (Attached(d)' => StreamInv(d)') /\ LogInv(d)' /\ BurstInv(d)'
  <2>1. ~Turn(d) /\ ~Turn(d)' /\ (Attached(d)' => Attached(d))
    BY <1>1, <1>2, <1>13 DEF Turn, Attached
  <2>2. (Attached(d) => StreamInv(d)) /\ LogInv(d) /\ BurstInv(d)
    BY DEF ServiceInv
  <2>3. Wanted(d)' = Wanted(d)
    BY <1>1, <2>1 DEF Wanted
  <2>4. Attached(d)' => StreamInv(d)'
    BY <1>1, <2>1, <2>2, <2>3, KeptStream
  <2>5. \A i : OnPort(d, i)' <=> OnPort(d, i)
    BY <1>7, <1>13
  <2>6. LogInv(d)'
    BY <1>1, <1>3, <2>1, <2>2, <2>5, KeptLog
  <2>7. PICK m : m = Len(replies[d])
    OBVIOUS
  <2>8. ~(Attached(d)' /\ OnPort(d, m)')
    BY <2>1, <2>2, <2>5, <2>7 DEF BurstInv
  <2>9. BurstInv(d)'
    BY <1>1, <2>7, <2>8 DEF BurstInv, OnPort
  <2> QED
    BY <2>4, <2>6, <2>9
<1>14. PortInv'
  <2>1. \A j, k \in 1..Len(jtag') : jtag'[j] = jtag'[k] => j = k
    <3>1. \A k \in 1..n : jtag[k] # e
      BY <1>8 DEF OnPort, n
    <3>2. \A j, k \in 1..n : jtag[j] = jtag[k] => j = k
      BY DEF ServiceInv, PortInv, n
    <3> HIDE DEF e
    <3>3. \A k \in 1..Len(jtag') : k = n + 1 \/ k \in 1..n
      BY <1>6
    <3> QED
      BY <1>6, <3>1, <3>2, <3>3
  <2>2. ASSUME NEW d \in Client, NEW i \in Shifted(d)', i + 1 \in Shifted(d)'
        PROVE  \E k \in 1..Len(jtag') - 1 : /\ jtag'[k] = [client |-> d, id |-> i]
                                            /\ jtag'[k + 1] = [client |-> d, id |-> i + 1]
    <3>1. /\ i \in 1..MaxRequests /\ i + 1 \in 1..MaxRequests
          /\ OnPort(d, i)' /\ OnPort(d, i + 1)'
      <4>1. jtag' \in PortLog
        BY DEF SInv, Inv, TypeOK, PortLog
      <4>2. Shifted(d)' = ShiftsIn(jtag', d)
        BY DEF Shifted, ShiftsIn
      <4>3. \A j : OnPort(d, j)' <=> Logged(jtag', d, j)
        BY DEF OnPort, Logged
      <4> QED
        BY <2>2, <4>1, <4>2, <4>3, InLog
    <3>2. CASE OnPort(d, i) /\ OnPort(d, i + 1)
      <4>1. i \in Shifted(d) /\ i + 1 \in Shifted(d)
        BY <1>3, <3>1, <3>2, ShiftedOnPort
      <4>2. PICK k \in 1..n - 1 : /\ jtag[k] = [client |-> d, id |-> i]
                                  /\ jtag[k + 1] = [client |-> d, id |-> i + 1]
        BY <4>1 DEF ServiceInv, PortInv, BurstsUnbroken, n
      <4>3. k \in 1..n /\ k + 1 \in 1..n /\ k \in 1..Len(jtag') - 1
        BY <1>6, <4>2
      <4> QED
        BY <1>6, <4>2, <4>3
    <3>3. CASE ~OnPort(d, i + 1)
      <4>1. d = c /\ i + 1 = cur /\ OnPort(c, i) /\ i = Len(replies[c])
        BY <1>4, <1>7, <3>1, <3>3
      <4>2. jtag[n] = [client |-> c, id |-> i]
        BY <1>1, <1>3, <4>1 DEF BurstInv, n
      <4>3. n \in 1..n
        BY <1>6, <4>1 DEF OnPort, n
      <4>4. n \in 1..Len(jtag') - 1 /\ jtag'[n] = jtag[n]
        BY <1>6, <4>3
      <4> QED
        BY <1>6, <4>1, <4>2, <4>4
    <3>4. CASE ~OnPort(d, i)
      <4>1. d = c /\ i = cur
        BY <1>7, <3>1, <3>4
      <4>2. i + 1 # cur
        BY <1>4, <4>1
      <4>3. OnPort(c, i + 1)
        BY <1>7, <3>1, <4>1, <4>2
      <4>4. i + 1 < cur
        BY <1>8, <3>1, <4>3
      <4> QED
        BY <1>4, <4>1, <4>4
    <3> QED
      BY <3>2, <3>3, <3>4
  <2> QED
    BY <2>1, <2>2 DEF PortInv, BurstsUnbroken
<1> QED
  BY <1>9, <1>10, <1>11, <1>12, <1>13, <1>14 DEF ServiceInv

(* A write() adds the answer to the request of the turn. *)
LEMMA WriteAdds ==
  ASSUME ServiceInv, NEW c \in Client, file[fd] = c, pc \in {"answer", "reply"},
         NEW ok \in BOOLEAN, Write(ok)
  PROVE  /\ Len(replies'[c]) = cur /\ replies'[c][cur].id = cur
         /\ \A i \in 1..Len(replies[c]) : replies'[c][i] = replies[c][i]
         /\ \A d \in Client : d # c => replies'[d] = replies[d]
<1> DEFINE r == [id |-> cur, ok |-> ok]
<1>1. Inv /\ Peer = c
  BY TurnFacts
<1>2. cur = Len(replies[c]) + 1 /\ Len(replies[c]) \in Nat
  BY <1>1, RequestFacts, LogTypes DEF InHandleData
<1>3. replies' = [replies EXCEPT ![c] = Append(replies[c], r)]
  BY <1>1 DEF Write
<1>4. replies \in [Client -> Seq([id : 1..MaxRequests, ok : BOOLEAN])]
  BY <1>1 DEF Inv, TypeOK
<1>5. r.id = cur
  OBVIOUS
<1> HIDE DEF r
<1>6. replies'[c] = Append(replies[c], r) /\ \A d \in Client : d # c => replies'[d] = replies[d]
  BY <1>3, <1>4
<1> QED
  BY <1>2, <1>4, <1>5, <1>6

(* The answer keeps the logs in agreement. *)
LEMMA WriteKeepsLog ==
  ASSUME ServiceInv, NEW c \in Client, file[fd] = c, pc \in {"answer", "reply"},
         NEW ok \in BOOLEAN, Write(ok), sent' = sent, jtag' = jtag, tosend' = tosend
  PROVE  LogInv(c)'
<1>1. Inv /\ LogInv(c) /\ Peer = c
  BY TurnFacts
<1>2. /\ cur = Len(replies[c]) + 1 /\ cur \in 1..Len(sent[c]) /\ Request = sent[c][cur]
      /\ Len(replies[c]) \in Nat /\ Len(sent[c]) \in Nat
  BY <1>1, RequestFacts, LogTypes DEF InHandleData
<1>3. /\ Len(replies'[c]) = cur /\ replies'[c][cur].id = cur
      /\ \A i \in 1..Len(replies[c]) : replies'[c][i] = replies[c][i]
  BY WriteAdds
<1>4. Request.op = "sh" => OnPort(c, cur)
  <2>1. CASE pc = "answer"
    BY <2>1 DEF ServiceInv, RequestInv, InHandleData
  <2>2. CASE pc = "reply"
    <3>1. jtag # <<>> /\ jtag[Len(jtag)] = [client |-> c, id |-> cur]
      BY <1>1, <2>2 DEF ServiceInv, RequestInv, InHandleData
    <3>2. Len(jtag) \in 1..Len(jtag)
      BY <1>1, <3>1, LenProperties, EmptySeq DEF Inv, TypeOK
    <3> QED
      BY <3>1, <3>2 DEF OnPort
  <2> QED
    BY <2>1, <2>2
<1>5. ASSUME NEW i \in 1..Len(replies'[c])
      PROVE  replies'[c][i].id = i /\ (sent'[c][i].op = "sh" => OnPort(c, i)')
  <2>1. CASE i = cur
    BY <1>2, <1>3, <1>4, <2>1 DEF OnPort
  <2>2. CASE i # cur
    <3>1. i \in 1..Len(replies[c])
      BY <1>2, <1>3, <2>2
    <3> QED
      BY <1>1, <1>3, <3>1 DEF LogInv, OnPort
  <2> QED
    BY <2>1, <2>2
<1>6. ASSUME NEW i \in 1..MaxRequests, OnPort(c, i)'
      PROVE  /\ i \in 1..Len(sent'[c]) /\ sent'[c][i].op = "sh" /\ Fits(sent'[c][i].nbits)
             /\ i < Len(sent'[c]) \/ tosend'[c] = <<>>
             /\ i <= Len(replies'[c])
  <2>1. OnPort(c, i)
    BY <1>6 DEF OnPort
  <2>2. i <= Len(replies[c]) \/ i = cur
    BY <1>1, <2>1 DEF LogInv
  <2> QED
    BY <1>1, <1>2, <1>3, <2>1, <2>2 DEF LogInv
<1> QED
  BY <1>2, <1>3, <1>5, <1>6 DEF LogInv, Fits, NBytes

(* The answer to a shift: the turn goes on, and the shift is the last one  *)
(* of the port.                                                            *)
LEMMA ReplyKeepsService ==
  ASSUME ServiceInv, SInv', Reply
  PROVE  ServiceInv'
<1>1. PICK ok \in BOOLEAN : Write(ok)
  BY DEF Reply
<1>2. /\ pc = "reply" /\ pc' = "cmd"
      /\ UNCHANGED <<fd, file, backlog, cstate, sent, jtag, tosend, in>>
  BY DEF Reply, tableVars, peerVars
<1>3. PICK c \in Client : file[fd] = c
  BY <1>2 DEF ServiceInv, SInv, Inv, PlaceInv, InHandleData
<1>4. Turn(c) /\ Turn(c)' /\ StreamInv(c) /\ Peer = c
  BY <1>2, <1>3, TurnFacts DEF Turn, InHandleData
<1>5. Len(replies'[c]) = cur /\ \A d \in Client : d # c => replies'[d] = replies[d]
  BY <1>1, <1>2, <1>3, WriteAdds
<1>6. RequestInv'
  BY <1>2 DEF RequestInv
<1>7. StreamInv(c)'
  <2>1. Wanted(c)' = Wanted(c)
    BY <1>2, <1>4, <1>5 DEF Wanted
  <2> QED
    BY <1>2, <1>4, <2>1, KeptStream
<1>8. LogInv(c)'
  BY <1>1, <1>2, <1>3, WriteKeepsLog
<1>9. BurstInv(c)'
  <2>1. jtag[Len(jtag)] = [client |-> c, id |-> cur]
    BY <1>2, <1>4 DEF ServiceInv, RequestInv, InHandleData
  <2> QED
    BY <1>2, <1>4, <1>5, <2>1 DEF BurstInv
<1> QED
  BY <1>2, <1>3, <1>5, <1>6, <1>7, <1>8, <1>9, TurnKeepsService

(* The answer to a query ends the turn, or the connection. *)
LEMMA AnswerKeepsService ==
  ASSUME ServiceInv, SInv', Answer
  PROVE  ServiceInv'
<1>1. PICK ok \in BOOLEAN :
        /\ Write(ok)
        /\ IF ok THEN NextDescriptor /\ cur' = 0 /\ UNCHANGED <<tableVars, peerVars>>
                 ELSE CloseConnection
  BY DEF Answer
<1>2. pc = "answer" /\ UNCHANGED <<sent, jtag>>
  BY DEF Answer
<1>3. PICK c \in Client : file[fd] = c
  BY <1>2 DEF ServiceInv, SInv, Inv, PlaceInv, InHandleData
<1>4. Turn(c) /\ StreamInv(c) /\ LogInv(c) /\ Peer = c /\ Inv
  BY <1>2, <1>3, TurnFacts DEF InHandleData
<1>5. Len(replies'[c]) = cur /\ \A d \in Client : d # c => replies'[d] = replies[d]
  BY <1>1, <1>2, <1>3, WriteAdds
<1>6. /\ cur = Len(replies[c]) + 1 /\ cur \in 1..MaxRequests /\ Len(replies[c]) \in Nat
      /\ Request = sent[c][cur]
  BY <1>2, <1>3, <1>4, RequestFacts, LogTypes DEF InHandleData
<1>7. /\ pc' \notin InHandleData /\ tosend' = tosend
      /\ \A d \in Client : (Attached(d)' => Attached(d)) /\ (d # c => in'[d] = in[d])
      /\ (ok \/ ~Attached(c)') /\ (ok => in' = in)
  <2>1. CASE ok
    <3>1. NextDescriptor /\ UNCHANGED <<file, backlog, cstate, in, tosend>>
      BY <1>1, <2>1 DEF tableVars, peerVars
    <3>2. pc' \in {"select", "scan"}
      BY <1>4, <3>1, NextDescriptorStep DEF Inv
    <3> QED
      BY <2>1, <3>1, <3>2 DEF Attached, InHandleData
  <2>2. CASE ~ok
    BY <1>1, <1>3, <2>2, ClosedDetaches DEF InHandleData
  <2> QED
    BY <2>1, <2>2
<1>8. LogInv(c)'
  BY <1>1, <1>2, <1>3, <1>7, WriteKeepsLog
<1>9. BurstInv(c)'
  <2>1. ~OnPort(c, cur)
    BY <1>2, <1>4, <1>6 DEF LogInv
  <2> QED
    BY <1>2, <1>5, <2>1 DEF BurstInv, OnPort
<1>10. Attached(c)' => StreamInv(c)'
  <2> SUFFICES ASSUME ok PROVE StreamInv(c)'
    BY <1>7
  <2>1. in' = in
    BY <1>1 DEF peerVars
  <2>2. ~Turn(c)'
    BY <1>7 DEF Turn
  <2>3. Wanted(c)' = Wanted(c)
    BY <1>2, <1>4, <1>5, <2>2 DEF Wanted
  <2> QED
    BY <1>2, <1>4, <1>7, <2>1, <2>3, KeptStream
<1>11. ASSUME NEW d \in Client, d # c
       PROVE  (Attached(d)' => StreamInv(d)') /\ LogInv(d)' /\ BurstInv(d)'
  <2>1. ~Turn(d) /\ ~Turn(d)'
    BY <1>3, <1>7, <1>11 DEF Turn
  <2> QED
    BY <1>2, <1>5, <1>7, <1>11, <2>1, Bystander
<1>12. RequestInv' /\ PortInv'
  <2>1. RequestInv'
    BY <1>7 DEF RequestInv
  <2>2. PortInv'
    BY <1>2 DEF ServiceInv, PortInv, BurstsUnbroken, Shifted
  <2> QED
    BY <2>1, <2>2
<1> QED
  BY <1>8, <1>9, <1>10, <1>11, <1>12 DEF ServiceInv

(* The scan finds a connection failed, or a turn ends with it. *)
LEMMA ClosesKeepService ==
  ASSUME ServiceInv, SInv', AbortConnection \/ InvalidCommand \/ LengthExceeded \/ ReadFailed
  PROVE  ServiceInv'
<1>1. CloseConnection /\ UNCHANGED logVars /\ pc # "reply"
  BY DEF AbortConnection, InvalidCommand, LengthExceeded, ReadFailed
<1>2. file[fd] \in Client
  <2>1. CASE AbortConnection
    <3>1. pc = "scan" /\ fd # Sock /\ fd \in ex
      BY <2>1 DEF AbortConnection
    <3>2. fd \in OpenFds
      BY <3>1 DEF ServiceInv, SInv, Inv, PlaceInv, Ahead
    <3> QED
      BY <3>1, <3>2 DEF ServiceInv, SInv, Inv, TypeOK, TableInv, OpenFds
  <2>2. CASE InvalidCommand \/ LengthExceeded \/ ReadFailed
    BY <2>2 DEF InvalidCommand, LengthExceeded, ReadFailed, InHandleData,
                ServiceInv, SInv, Inv, PlaceInv
  <2> QED
    BY <2>1, <2>2
<1> QED
  BY <1>1, <1>2, HangUpsKeepService

(* All the steps of the server. *)
LEMMA ServerKeepsService == ServiceInv /\ SInv' /\ ServerStep => ServiceInv'
  BY ScanStepsKeepService, EnterKeepsService, ReadsKeepService, EmptyPayloadKeepsService,
     ShiftKeepsService, ReplyKeepsService, AnswerKeepsService, ClosesKeepService
     DEF ServerStep

-----------------------------------------------------------------------------
(* The steps of the clients.                                               *)

(* The head of the unsent tokens s arrives behind q, in the stream of a    *)
(* client that made requests u.                                            *)
LEMMA Push ==
  ASSUME NEW q \in Seq(Token), NEW s \in Seq(Token), s # <<>>, NEW u, Len(u) \in Nat,
         Unsent(u, s), Arrived(u, q, Head(s))
  PROVE  LET n2 == Coming(Tail(s), Command(Len(u) + 1), 1)
         IN  /\ Unsent(u, Tail(s)) /\ Arrived(u, Append(q, Head(s)), n2)
             /\ Coming(Append(q, Head(s)), n2, 1) = Coming(q, Head(s), 1)
<1> DEFINE m == Len(u)
           next == Command(m + 1)
           h == Head(s)
           q2 == Append(q, h)
           s2 == Tail(s)
           n2 == Coming(s2, next, 1)
<1> HIDE DEF next
<1>0. /\ \A k \in 1..Len(s) : s[k].id = m /\ After(u, s[k]) = Coming(s, next, k + 1)
      /\ \A k \in 1..Len(q) : q[k].id \in 1..m /\ After(u, q[k]) = Coming(q, h, k + 1)
  BY DEF Unsent, Arrived, next, h
<1>1. /\ h \in Token /\ h = s[1] /\ 1 \in 1..Len(s) /\ Len(s) \in Nat
      /\ s2 \in Seq(Token) /\ Len(s2) = Len(s) - 1
  BY HeadTailProperties, EmptySeq, LenProperties
<1> HIDE DEF n2, h
<1>2. /\ Len(q2) = Len(q) + 1 /\ Len(q) \in Nat
      /\ \A k \in 1..Len(q) : q2[k] = q[k]
      /\ q2[Len(q) + 1] = h
      /\ \A k \in 1..(Len(q) + 1) : Coming(q2, n2, k) = Coming(q, h, k)
      /\ Coming(q2, n2, Len(q) + 2) = n2
  BY <1>1, TokenComes
<1>3. ASSUME NEW k \in 1..Len(s2)
      PROVE  s2[k].id = m /\ After(u, s2[k]) = Coming(s2, next, k + 1)
  <2>1. k \in Nat \ {0} /\ k + 1 \in Nat \ {0} /\ k <= Len(Tail(s))
    BY <1>1
  <2>2. s2[k] = s[k + 1] /\ k + 1 \in 1..Len(s)
    BY <2>1, ComingTail
  <2>3. Coming(s2, next, k + 1) = Coming(s, next, (k + 1) + 1)
    BY <2>1, ComingTail
  <2> QED
    BY <1>0, <2>2, <2>3
<1>4. n2 = After(u, h) /\ h.id \in 1..m
  <2>1. n2 = Coming(s, next, 1 + 1)
    BY ComingTail DEF n2
  <2>2. h.id = m /\ After(u, s[1]) = Coming(s, next, 1 + 1)
    BY <1>0, <1>1
  <2>3. m \in 1..m
    BY <1>1, <2>2 DEF Token
  <2> QED
    BY <1>1, <2>1, <2>2, <2>3
<1>5. ASSUME NEW k \in 1..Len(q2)
      PROVE  q2[k].id \in 1..m /\ After(u, q2[k]) = Coming(q2, n2, k + 1)
  <2>1. CASE k = Len(q) + 1
    <3>1. k + 1 = Len(q) + 2
      BY <1>2, <2>1
    <3> QED
      BY <1>2, <1>4, <2>1, <3>1
  <2>2. CASE k # Len(q) + 1
    <3>1. k \in 1..Len(q) /\ k + 1 \in 1..(Len(q) + 1)
      BY <1>2, <2>2
    <3> QED
      BY <1>0, <1>2, <3>1
  <2> QED
    BY <2>1, <2>2
<1>6. 1 \in 1..(Len(q) + 1)
  BY <1>2
<1> QED
  BY <1>2, <1>3, <1>5, <1>6 DEF Unsent, Arrived, next, n2, h

(* A step of a client that does not touch what d sent and was answered.    *)
LEMMA ClientBystander ==
  ASSUME ServiceInv, NEW d \in Client, UNCHANGED <<pc, fd, cur, file, jtag, replies>>,
         sent'[d] = sent[d], in'[d] = in[d], tosend'[d] = tosend[d],
         Attached(d)' => Attached(d)
  PROVE  (Attached(d)' => StreamInv(d)') /\ LogInv(d)' /\ BurstInv(d)'
<1>1. (Attached(d) => StreamInv(d)) /\ LogInv(d) /\ BurstInv(d)
  BY DEF ServiceInv
<1>2. Wanted(d)' = Wanted(d)
  BY DEF Wanted, Turn, NBytes, Command
<1>3. Attached(d)' => StreamInv(d)'
  BY <1>1, <1>2, KeptStream
<1>4. LogInv(d)'
  BY <1>1 DEF LogInv, OnPort, Turn, Fits, NBytes
<1>5. BurstInv(d)'
  BY <1>1 DEF BurstInv, OnPort, Turn
<1> QED
  BY <1>3, <1>4, <1>5

(* A client only adds requests, which changes none that was read. *)
LEMMA ClientKeepsRest ==
  ASSUME ServiceInv, UNCHANGED <<pc, fd, cur, file, jtag, replies>>,
         \A d \in Client : /\ Len(sent[d]) \in Nat /\ Len(sent'[d]) \in Nat
                           /\ Len(sent'[d]) >= Len(sent[d])
                           /\ \A i \in 1..Len(sent[d]) : sent'[d][i] = sent[d][i]
  PROVE  RequestInv' /\ PortInv'
<1>1. PortInv'
  BY DEF ServiceInv, PortInv, BurstsUnbroken, Shifted
<1>2. RequestInv'
  <2> SUFFICES ASSUME pc \in InHandleData \ {"cmd"} PROVE RequestInv'
    BY DEF RequestInv
  <2>1. PICK c \in Client : file[fd] = c
    BY DEF ServiceInv, SInv, Inv, PlaceInv
  <2>2. cur \in 1..Len(sent[c]) /\ Peer = c /\ Request = sent[c][cur]
    BY <2>1, RequestFacts, TurnFacts
  <2>3. Peer' = c /\ Request' = Request /\ cur <= Len(sent'[c])
    BY <2>1, <2>2 DEF Peer, Request
  <2> QED
    BY <2>2, <2>3 DEF ServiceInv, RequestInv, Fits, NBytes
<1> QED
  BY <1>1, <1>2

(* More of the last request arrives. *)
LEMMA SendKeepsService ==
  ASSUME ServiceInv, SInv', NEW c \in Client, Send(c)
  PROVE  ServiceInv'
<1>1. /\ tosend[c] # <<>>
      /\ in' = [in EXCEPT ![c] = Append(@, Head(tosend[c]))]
      /\ tosend' = [tosend EXCEPT ![c] = Tail(@)]
      /\ UNCHANGED <<pc, fd, cur, file, backlog, cstate, sent, replies, jtag>>
  BY DEF Send, scanVars, tableVars, logVars
<1>2. Inv /\ TypeOK /\ LogInv(c) /\ BurstInv(c) /\ (Attached(c) => StreamInv(c))
  BY DEF ServiceInv, SInv, Inv
<1>3. /\ in[c] \in Seq(Token) /\ tosend[c] \in Seq(Token) /\ Len(sent[c]) \in Nat
      /\ in'[c] = Append(in[c], Head(tosend[c])) /\ tosend'[c] = Tail(tosend[c])
      /\ \A d \in Client : d # c => in'[d] = in[d] /\ tosend'[d] = tosend[d]
  BY <1>1, <1>2, LogTypes DEF TypeOK
<1>4. RequestInv' /\ PortInv'
  <2>1. \A d \in Client : Len(sent[d]) \in Nat
    BY <1>2, LogTypes
  <2> QED
    BY <1>1, <2>1, ClientKeepsRest
<1>5. ASSUME NEW d \in Client PROVE Attached(d)' => Attached(d)
  BY <1>1 DEF Attached
<1>6. ASSUME Attached(c) PROVE StreamInv(c)'
  <2>1. StreamInv(c)
    BY <1>2, <1>6
  <2>2. ToArrive(c) = Head(tosend[c])
    <3>1. Head(tosend[c]) = tosend[c][1] /\ 1 <= Len(tosend[c])
      BY <1>1, <1>3, HeadTailProperties, EmptySeq
    <3> QED
      BY <3>1 DEF ToArrive, Coming
  <2>3. Wanted(c)' = Wanted(c)
    BY <1>1 DEF Wanted, Turn, NBytes, Command
  <2>4. ToArrive(c)' = Coming(tosend'[c], Command(Len(sent[c]) + 1), 1)
    BY <1>1 DEF ToArrive, Command
  <2>5. Unsent(sent[c], tosend[c]) /\ Arrived(sent[c], in[c], Head(tosend[c]))
        /\ Coming(in[c], Head(tosend[c]), 1) = Wanted(c)
    BY <2>1, <2>2 DEF StreamInv
  <2>6. Unsent(sent[c], tosend'[c]) /\ Arrived(sent[c], in'[c], ToArrive(c)')
        /\ Coming(in'[c], ToArrive(c)', 1) = Coming(in[c], Head(tosend[c]), 1)
    BY <1>1, <1>3, <2>4, <2>5, Push
  <2>7. Unsent(sent[c], tosend[c])'
    BY <1>1, <2>6 DEF Unsent
  <2>8. Arrived(sent[c], in[c], ToArrive(c))'
    BY <1>1, <2>6 DEF Arrived
  <2> QED
    BY <1>1, <2>3, <2>5, <2>6, <2>7, <2>8 DEF StreamInv, Coming
<1>7. LogInv(c)'
  BY <1>1, <1>2 DEF LogInv, OnPort, Turn, Fits, NBytes
<1>8. BurstInv(c)'
  BY <1>1, <1>2, <1>5 DEF BurstInv, OnPort, Turn
<1>9. ASSUME NEW d \in Client, d # c
      PROVE  (Attached(d)' => StreamInv(d)') /\ LogInv(d)' /\ BurstInv(d)'
  BY <1>1, <1>3, <1>5, <1>9, ClientBystander
<1> QED
  BY <1>4, <1>5, <1>6, <1>7, <1>8, <1>9 DEF ServiceInv

(* A new request is made, and its command sent. *)
LEMMA SubmitKeepsService ==
  ASSUME ServiceInv, SInv', NEW c \in Client, Submit(c)
  PROVE  ServiceInv'
<1>1. PICK r \in Requests :
        LET t == Tokens(r, Len(sent[c]) + 1) IN
        /\ sent' = [sent EXCEPT ![c] = Append(@, r)]
        /\ in' = [in EXCEPT ![c] = Append(@, Head(t))]
        /\ tosend' = [tosend EXCEPT ![c] = Tail(t)]
  BY DEF Submit
<1> DEFINE m == Len(sent[c]) + 1
           t == Tokens(r, m)
           u == Append(sent[c], r)
<1>2. /\ tosend[c] = <<>> /\ Len(sent[c]) < MaxRequests
      /\ UNCHANGED <<pc, fd, cur, file, backlog, cstate, replies, jtag>>
  BY DEF Submit, scanVars, tableVars
<1>3. Inv /\ TypeOK /\ LogInv(c) /\ BurstInv(c) /\ (Attached(c) => StreamInv(c))
  BY DEF ServiceInv, SInv, Inv
<1>4. /\ in[c] \in Seq(Token) /\ sent[c] \in Seq(Requests) /\ Len(sent[c]) \in Nat
      /\ Len(replies[c]) \in Nat /\ m \in 1..MaxRequests /\ m \in Nat
  BY <1>2, <1>3, LogTypes, BoundAssumption
<1>5. t \in Seq(Token) /\ t # <<>>
  BY <1>4, TokensType
<1>6. /\ Coming(t, Command(m + 1), 1) = Command(m)
      /\ \A k \in 1..Len(t) : t[k].id = m /\ After(u, t[k]) = Coming(t, Command(m + 1), k + 1)
  BY <1>4, TokensChain
<1>7. Len(u) = m /\ u[m] = r /\ \A i \in 1..Len(sent[c]) : u[i] = sent[c][i]
  BY <1>4, AppendProperties
<1> HIDE DEF t, u, m
<1>8. /\ sent'[c] = u /\ in'[c] = Append(in[c], Head(t)) /\ tosend'[c] = Tail(t)
      /\ \A d \in Client : d # c => /\ in'[d] = in[d] /\ tosend'[d] = tosend[d]
                                    /\ sent'[d] = sent[d]
  BY <1>1, <1>3 DEF TypeOK, t, u, m
<1>9. Len(sent'[c]) = Len(sent[c]) + 1
  BY <1>7, <1>8 DEF m
<1>10. RequestInv' /\ PortInv'
  <2>1. ASSUME NEW d \in Client
        PROVE  /\ Len(sent[d]) \in Nat /\ Len(sent'[d]) \in Nat /\ Len(sent'[d]) >= Len(sent[d])
               /\ \A i \in 1..Len(sent[d]) : sent'[d][i] = sent[d][i]
    <3>1. CASE d = c
      BY <1>4, <1>7, <1>8, <1>9, <3>1
    <3>2. CASE d # c
      <4>1. Len(sent[d]) \in Nat
        BY <1>3, LogTypes
      <4> QED
        BY <1>8, <3>2, <4>1
    <3> QED
      BY <3>1, <3>2
  <2> QED
    BY <1>2, <2>1, ClientKeepsRest
<1>11. ASSUME NEW d \in Client PROVE Attached(d)' => Attached(d)
  BY <1>2 DEF Attached
<1>12. ASSUME Attached(c) PROVE StreamInv(c)'
  <2>1. StreamInv(c)
    BY <1>3, <1>12
  <2>2. Head(t) = Command(m) /\ ToArrive(c) = Command(m)
    <3>1. Head(t) = t[1] /\ 1 <= Len(t) /\ Len(tosend[c]) = 0
      BY <1>2, <1>5, HeadTailProperties, EmptySeq
    <3> QED
      BY <1>6, <3>1 DEF ToArrive, Coming, m
  <2>3. Wanted(c)' = Wanted(c)
    <3>1. CASE Turn(c) /\ pc = "payload"
      <4>1. cur \in 1..Len(sent[c])
        BY <3>1, RequestFacts DEF Turn, InHandleData
      <4>2. sent'[c][cur] = sent[c][cur]
        BY <1>7, <1>8, <4>1
      <4> QED
        BY <1>2, <4>2 DEF Wanted, Turn, NBytes, Command
    <3>2. CASE ~(Turn(c) /\ pc = "payload")
      BY <1>2, <3>2 DEF Wanted, Turn, Command
    <3> QED
      BY <3>1, <3>2
  <2>4. ToArrive(c)' = Coming(tosend'[c], Command(m + 1), 1)
    BY <1>7, <1>8 DEF ToArrive, Command
  <2>5. Arrived(u, in[c], Head(t))
    <3> SUFFICES ASSUME NEW k \in 1..Len(in[c])
                 PROVE  /\ in[c][k].id \in 1..Len(u)
                        /\ After(u, in[c][k]) = Coming(in[c], Head(t), k + 1)
      BY DEF Arrived
    <3>1. /\ in[c][k].id \in 1..Len(sent[c])
          /\ After(sent[c], in[c][k]) = Coming(in[c], Head(t), k + 1)
      BY <2>1, <2>2 DEF StreamInv, Arrived
    <3>2. u[in[c][k].id] = sent[c][in[c][k].id]
      BY <1>7, <3>1
    <3>3. After(u, in[c][k]) = After(sent[c], in[c][k])
      BY <3>2 DEF After
    <3>4. in[c][k].id \in 1..Len(u)
      BY <1>4, <1>7, <3>1 DEF m
    <3> QED
      BY <3>1, <3>3, <3>4
  <2>6. Unsent(u, t)
    BY <1>6, <1>7 DEF Unsent
  <2>7. Unsent(u, tosend'[c]) /\ Arrived(u, in'[c], ToArrive(c)')
        /\ Coming(in'[c], ToArrive(c)', 1) = Coming(in[c], Head(t), 1)
    BY <1>4, <1>5, <1>7, <1>8, <2>4, <2>5, <2>6, Push
  <2>8. Coming(in[c], Head(t), 1) = Wanted(c)'
    BY <2>1, <2>2, <2>3 DEF StreamInv
  <2>9. Unsent(sent[c], tosend[c])' /\ Arrived(sent[c], in[c], ToArrive(c))'
    BY <1>8, <2>7 DEF Unsent, Arrived, After, Command, Coming, NBytes
  <2> QED
    BY <2>7, <2>8, <2>9 DEF StreamInv, Coming
<1>13. LogInv(c)'
  <2>1. Len(replies'[c]) <= Len(sent'[c]) /\ Len(replies[c]) <= Len(sent[c])
    BY <1>2, <1>3, <1>4, <1>9 DEF LogInv
  <2>2. ASSUME NEW i \in 1..Len(replies'[c])
        PROVE  replies'[c][i].id = i /\ (sent'[c][i].op = "sh" => OnPort(c, i)')
    <3>1. i \in 1..Len(replies[c]) /\ sent'[c][i] = sent[c][i]
      BY <1>2, <1>4, <1>7, <1>8, <2>1
    <3> QED
      BY <1>2, <1>3, <3>1 DEF LogInv, OnPort
  <2>3. ASSUME NEW i \in 1..MaxRequests, OnPort(c, i)'
        PROVE  /\ i \in 1..Len(sent'[c]) /\ sent'[c][i].op = "sh" /\ Fits(sent'[c][i].nbits)
               /\ i < Len(sent'[c])
               /\ i <= Len(replies'[c]) \/ (Turn(c)' /\ pc' = "reply" /\ i = cur')
    <3>1. OnPort(c, i)
      BY <1>2, <2>3 DEF OnPort
    <3>2. i \in 1..Len(sent[c]) /\ sent'[c][i] = sent[c][i]
      BY <1>3, <1>7, <1>8, <3>1 DEF LogInv
    <3> QED
      BY <1>2, <1>3, <1>4, <1>9, <3>1, <3>2 DEF LogInv, Turn
  <2> QED
    BY <2>1, <2>2, <2>3 DEF LogInv, Fits, NBytes
<1>14. BurstInv(c)'
  BY <1>2, <1>3, <1>11 DEF BurstInv, OnPort, Turn
<1>15. ASSUME NEW d \in Client, d # c
       PROVE  (Attached(d)' => StreamInv(d)') /\ LogInv(d)' /\ BurstInv(d)'
  BY <1>2, <1>8, <1>11, <1>15, ClientBystander
<1> QED
  BY <1>10, <1>11, <1>12, <1>13, <1>14, <1>15 DEF ServiceInv

(* Connecting, closing and out-of-band data are not in the stream. *)
LEMMA ClientsKeepService ==
  ASSUME ServiceInv, SInv', NEW c \in Client, ClientStep(c)
  PROVE  ServiceInv'
<1>1. CASE Connect(c) \/ SendUrgent(c) \/ Close(c)
  <2>1. UNCHANGED <<pc, fd, cur, file, sent, in, tosend, replies, jtag>>
    BY <1>1 DEF Connect, SendUrgent, Close, scanVars, tableVars, logVars
  <2>2. Inv /\ TypeOK
    BY DEF ServiceInv, SInv, Inv
  <2>3. \A d \in Client : Len(sent[d]) \in Nat
    BY <2>2, LogTypes
  <2>4. RequestInv' /\ PortInv'
    BY <2>1, <2>3, ClientKeepsRest
  <2>5. ASSUME NEW d \in Client PROVE Attached(d)' => Attached(d)
    <3>1. CASE Connect(c)
      <4>1. /\ cstate[c] = "new" /\ cstate' = [cstate EXCEPT ![c] = "open"]
            /\ backlog \in Seq(Client) /\ backlog' = Append(backlog, c)
        BY <2>2, <3>1 DEF Connect, TypeOK
      <4>2. /\ DOMAIN backlog' = 1..(Len(backlog) + 1) /\ DOMAIN backlog = 1..Len(backlog)
            /\ backlog'[Len(backlog) + 1] = c /\ Len(backlog) \in Nat
            /\ \A k \in 1..Len(backlog) : backlog'[k] = backlog[k]
        BY <4>1, AppendProperties, LenProperties
      <4>3. \A k \in DOMAIN backlog' : backlog'[k] = c \/ k \in DOMAIN backlog
        BY <4>2
      <4>4. cstate'[d] = "new" => cstate[d] = "new"
        BY <2>2, <4>1 DEF TypeOK
      <4> QED
        BY <2>1, <4>1, <4>2, <4>3, <4>4 DEF Attached
    <3>2. CASE SendUrgent(c) \/ Close(c)
      BY <2>1, <2>2, <3>2 DEF SendUrgent, Close, tableVars, Attached, TypeOK
    <3> QED
      BY <1>1, <3>1, <3>2
  <2>6. ASSUME NEW d \in Client
        PROVE  (Attached(d)' => StreamInv(d)') /\ LogInv(d)' /\ BurstInv(d)'
    BY <2>1, <2>5, ClientBystander
  <2> QED
    BY <2>4, <2>6 DEF ServiceInv
<1> QED
  BY <1>1, SendKeepsService, SubmitKeepsService DEF ClientStep

-----------------------------------------------------------------------------
(* The invariant, and what it says.                                        *)

(* The start of start(): nothing was asked yet. *)
LEMMA InitService == Init => ServiceInv
<1> SUFFICES ASSUME Init PROVE ServiceInv
  OBVIOUS
<1>1. SInv /\ Inv
  BY InitSnapshot DEF SInv
<1>2. jtag = <<>> /\ Len(jtag) = 0 /\ pc = "select"
  BY DEF Init
<1>3. RequestInv
  BY <1>2 DEF RequestInv, InHandleData
<1>4. ASSUME NEW c PROVE Shifted(c) = {}
  BY <1>2 DEF Shifted, ToSet
<1>5. PortInv
  BY <1>2, <1>4 DEF PortInv, BurstsUnbroken
<1>6. ASSUME NEW c \in Client PROVE StreamInv(c) /\ LogInv(c) /\ BurstInv(c)
  <2>1. /\ sent[c] = <<>> /\ in[c] = <<>> /\ tosend[c] = <<>> /\ replies[c] = <<>>
        /\ Len(sent[c]) = 0 /\ Len(in[c]) = 0 /\ Len(tosend[c]) = 0 /\ Len(replies[c]) = 0
    BY DEF Init
  <2>2. \A i : ~OnPort(c, i)
    BY <1>2 DEF OnPort
  <2>3. ToArrive(c) = Command(1) /\ Wanted(c) = Command(1)
    BY <1>2, <2>1 DEF ToArrive, Coming, Wanted, Turn, InHandleData
  <2>4. StreamInv(c)
    BY <2>1, <2>3 DEF StreamInv, Unsent, Arrived, Coming
  <2> QED
    BY <2>1, <2>2, <2>4 DEF LogInv, BurstInv
<1> QED
  BY <1>1, <1>3, <1>5, <1>6 DEF ServiceInv

(* Every step keeps the invariant. *)
LEMMA NextService == ServiceInv /\ [Next]_vars => ServiceInv'
<1> SUFFICES ASSUME ServiceInv, [Next]_vars PROVE ServiceInv'
  OBVIOUS
<1>1. SInv'
  BY NextSnapshot DEF ServiceInv
<1>2. CASE UNCHANGED vars
  <2>1. UNCHANGED <<pc, fd, cur, file, backlog, cstate, tosend, in, sent, replies, jtag>>
    BY <1>2 DEF vars, scanVars, tableVars, peerVars, logVars
  <2>2. RequestInv' /\ PortInv'
    BY <2>1 DEF ServiceInv, RequestInv, PortInv, BurstsUnbroken, Shifted, Peer, Request,
                Fits, NBytes
  <2>3. ASSUME NEW c \in Client
        PROVE  (Attached(c)' => StreamInv(c)') /\ LogInv(c)' /\ BurstInv(c)'
    BY <2>1, ClientBystander DEF Attached
  <2> QED
    BY <1>1, <2>2, <2>3 DEF ServiceInv
<1> QED
  BY <1>1, <1>2, ServerKeepsService, ClientsKeepService DEF Next

(* The server's place in the streams, the logs of what was asked, shifted  *)
(* and answered, and the runs of shifts are right together (start() and    *)
(* handleData()).                                                          *)
THEOREM ServiceInvariance == Spec => []ServiceInv
  BY InitService, NextService, PTL DEF Spec

(* The stream begins with what the server wants. *)
LEMMA InStepHolds == ServiceInv => InStep
<1> SUFFICES ASSUME ServiceInv, NEW f \in Peers, in[file[f]] # <<>>
             PROVE  Head(in[file[f]]) = Expected(f)
  BY DEF InStep
<1>1. PICK c \in Client : file[f] = c
  BY DEF Peers
<1>2. f \in Fd /\ fd \in Fd
  BY DEF Peers, ServiceInv, SInv, Inv, TypeOK
<1>3. Attached(c)
  BY <1>1, <1>2 DEF Attached
<1>4. Head(in[c]) = Wanted(c)
  BY <1>1, <1>3, HeadIsWanted
<1>5. Turn(c) <=> f = fd /\ pc \in InHandleData
  BY <1>1, <1>2 DEF Turn, ServiceInv, SInv, OwnerInv
<1>6. CASE Turn(c) /\ pc # "cmd"
  <2>1. file[fd] = c /\ pc \in InHandleData \ {"cmd"}
    BY <1>6 DEF Turn
  <2>2. /\ cur = Len(replies[c]) + 1 /\ PayloadSize = NBytes(sent[c][cur].nbits)
        /\ PayloadSize \in Nat /\ cur + 1 = Len(replies[c]) + 2
    <3>1. Len(replies[c]) \in Nat
      BY LogTypes DEF ServiceInv, SInv
    <3> QED
      BY <2>1, <3>1, RequestFacts
  <2>3. PayloadSize > 0 <=> NBytes(sent[c][cur].nbits) # 0
    BY <2>2
  <2> QED
    BY <1>1, <1>4, <1>5, <1>6, <2>2, <2>3 DEF Expected, Wanted, Command
<1>7. CASE ~(Turn(c) /\ pc # "cmd")
  BY <1>1, <1>4, <1>5, <1>7 DEF Expected, Wanted, Command
<1> QED
  BY <1>6, <1>7

(* For every set of clients and requests, whatever they send, refuse to    *)
(* send and close: the next token of a connection is the one the server is *)
(* about to take it for (the reads of handleData()).                       *)
THEOREM AlwaysInStep == Spec => []InStep
  BY ServiceInvariance, InStepHolds, PTL

(* What passes the check of the length fits half of the buffer. *)
LEMMA FitsBuffer ==
  ASSUME NEW n \in Nat, Fits(n)
  PROVE  n <= 8 * (VectorLength \div 2)
<1>1. n <= 8 * ((n + 7) \div 8) /\ (n + 7) \div 8 \in Nat
  OBVIOUS
<1>2. ASSUME NEW q \in Nat, NEW v \in Nat, 2 * q <= v PROVE q <= v \div 2
  BY <1>2
<1>3. (n + 7) \div 8 <= VectorLength \div 2
  BY <1>1, <1>2, BoundAssumption DEF Fits, NBytes
<1>4. VectorLength \div 2 \in Nat
  BY BoundAssumption
<1> QED
  BY <1>1, <1>3, <1>4

(* The logs agree, and no shift is twice on the port. *)
LEMMA ExecutedInOrderHolds == ServiceInv => ExecutedInOrder
<1> SUFFICES ASSUME ServiceInv PROVE ExecutedInOrder
  OBVIOUS
<1>1. Inv /\ TypeOK
  BY DEF ServiceInv, SInv, Inv
<1>2. IsInjective(jtag)
  <2>1. DOMAIN jtag = 1..Len(jtag)
    BY <1>1, LenProperties DEF TypeOK
  <2> QED
    BY <2>1 DEF IsInjective, ServiceInv, PortInv
<1>3. ASSUME NEW c \in Client, NEW i \in DOMAIN replies[c]
      PROVE  replies[c][i].id = i /\ (sent[c][i].op = "sh" => i \in Shifted(c))
  <2>1. replies[c] \in Seq([id : 1..MaxRequests, ok : BOOLEAN])
    BY <1>1, LogTypes
  <2>2. i \in 1..Len(replies[c]) /\ replies[c][i].id \in 1..MaxRequests
    <3>1. DOMAIN replies[c] = 1..Len(replies[c])
      BY <2>1, LenProperties
    <3>2. replies[c][i] \in [id : 1..MaxRequests, ok : BOOLEAN]
      BY <2>1, <3>1, ElementOfSeq
    <3> QED
      BY <3>1, <3>2
  <2>3. replies[c][i].id = i /\ (sent[c][i].op = "sh" => OnPort(c, i))
    BY <2>2 DEF ServiceInv, LogInv
  <2> QED
    BY <1>1, <2>2, <2>3, ShiftedOnPort
<1>4. ASSUME NEW c \in Client, NEW i \in Shifted(c)
      PROVE  /\ sent[c][i].op = "sh" /\ sent[c][i].nbits <= 8 * (VectorLength \div 2)
             /\ i < Len(sent[c]) \/ tosend[c] = <<>>
  <2>1. i \in 1..MaxRequests /\ OnPort(c, i)
    BY <1>1, ShiftedOnPort
  <2>2. /\ i \in 1..Len(sent[c]) /\ sent[c][i].op = "sh" /\ Fits(sent[c][i].nbits)
        /\ i < Len(sent[c]) \/ tosend[c] = <<>>
    BY <2>1 DEF ServiceInv, LogInv
  <2>3. sent[c][i] \in Requests
    BY <1>1, <2>2, LogTypes, ElementOfSeq
  <2>4. sent[c][i].nbits \in Nat
    BY <2>3, RequestAssumption
  <2> QED
    BY <2>2, <2>4, FitsBuffer
<1> QED
  BY <1>2, <1>3, <1>4 DEF ExecutedInOrder

(* The requests of every client are executed in order, each shift once, in *)
(* time and whole, for every buffer size (handleData()).                   *)
THEOREM AlwaysExecutedInOrder == Spec => []ExecutedInOrder
  BY ServiceInvariance, ExecutedInOrderHolds, PTL

(* No client's shift ever comes between two consecutive shifts of another  *)
(* (the loop of handleData()).                                             *)
THEOREM BurstsNeverBroken == Spec => []BurstsUnbroken
<1>1. ServiceInv => BurstsUnbroken
  BY DEF ServiceInv, PortInv
<1> QED
  BY <1>1, ServiceInvariance, PTL

-----------------------------------------------------------------------------
(* The refinement: each step of the server and of a client is a step of    *)
(* XvcService, or none.                                                    *)

Holder == IF pc \in InHandleData THEN file[fd] ELSE Free
Promised == {r \in Requests : r.op \in {"ge", "se"} \/ (r.op = "sh" /\ Fits(r.nbits))}

(* Connections that are lost outside of a turn. *)
LEMMA Leaves ==
  ASSUME TypeOK, NEW S \in SUBSET Client, \A c \in S : cstate[c] # "new",
         \A c \in Client : cstate'[c] = IF c \in S THEN "closed" ELSE cstate[c],
         DOMAIN cstate' = Client, cstate' = [c \in Client |-> cstate'[c]],
         UNCHANGED logVars, Holder' = Holder
  PROVE  Service!Leave
<1> DEFINE O == {c \in Client : cstate[c] = "open"}
<1>1. cstate' = [c \in Client |-> IF c \in S \cap O THEN "closed" ELSE cstate[c]]
  <2>1. \A c \in Client : cstate[c] \in {"new", "open", "closed"}
    BY DEF TypeOK
  <2>2. \A c \in Client : cstate'[c] = IF c \in S \cap O THEN "closed" ELSE cstate[c]
    BY <2>1
  <2> QED
    BY <2>2, Zenon
<1> QED
  BY <1>1 DEF Service!Leave, Holder, logVars

(* The scan serves nobody: connections are lost, or nothing happens. *)
LEMMA ScanSteps ==
  ASSUME ServiceInv, Select \/ Accept \/ AcceptError \/ AbortConnection \/ AbortListener
  PROVE  Service!Leave \/ UNCHANGED Service!vars
<1>1. SInv /\ Inv /\ TypeOK
  BY DEF ServiceInv, SInv, Inv
<1>2. pc \notin InHandleData /\ pc' \notin InHandleData /\ UNCHANGED logVars
  <2>1. CASE Select \/ AbortListener
    BY <2>1 DEF Select, AbortListener, InHandleData
  <2>2. CASE Accept \/ AcceptError \/ AbortConnection
    <3>1. pc = "scan" /\ NextDescriptor /\ UNCHANGED logVars
      BY <2>2 DEF Accept, AcceptError, AbortConnection, CloseConnection
    <3>2. pc' \in {"select", "scan"}
      BY <1>1, <3>1, NextDescriptorStep
    <3> QED
      BY <3>1, <3>2 DEF InHandleData
  <2> QED
    BY <2>1, <2>2
<1>3. Holder' = Holder
  BY <1>2 DEF Holder
<1>4. CASE Select \/ Accept \/ AcceptError
  <2>1. cstate' = cstate
    BY <1>4 DEF Select, Accept, AcceptError, peerVars
  <2> QED
    BY <1>2, <1>3, <2>1 DEF Service!vars, Holder, logVars
<1>5. CASE AbortConnection
  <2>1. fd \in ex /\ fd # Sock /\ pc = "scan"
    BY <1>5 DEF AbortConnection
  <2>2. fd \in OpenFds
    BY <1>1, <2>1 DEF Inv, PlaceInv, Ahead
  <2>3. PICK c \in Client : file[fd] = c
    BY <1>1, <2>1, <2>2 DEF Inv, TypeOK, TableInv, OpenFds
  <2>4. cstate' = [cstate EXCEPT ![c] = "closed"]
    BY <1>5, <2>3 DEF AbortConnection, CloseConnection
  <2>5. cstate[c] # "new"
    BY <1>1, <2>3 DEF SInv, OwnerInv, TypeOK
  <2> DEFINE S == {c}
  <2>6. /\ S \in SUBSET Client /\ \A d \in S : cstate[d] # "new"
        /\ \A d \in Client : cstate'[d] = IF d \in S THEN "closed" ELSE cstate[d]
    BY <1>1, <2>4, <2>5 DEF TypeOK
  <2>7. DOMAIN cstate' = Client /\ cstate' = [d \in Client |-> cstate'[d]]
    BY <1>1, <2>4 DEF TypeOK
  <2> HIDE DEF S
  <2> QED
    BY <1>1, <1>2, <1>3, <2>6, <2>7, Leaves
<1>6. CASE AbortListener
  <2> DEFINE S == ToSet(backlog)
  <2>1. cstate' = [d \in Client |-> IF d \in S THEN "closed" ELSE cstate[d]]
    BY <1>6 DEF AbortListener
  <2>2. S \in SUBSET Client /\ \A c \in S : cstate[c] # "new"
    BY <1>1 DEF SInv, OwnerInv, TypeOK, ToSet
  <2>3. /\ \A d \in Client : cstate'[d] = IF d \in S THEN "closed" ELSE cstate[d]
        /\ DOMAIN cstate' = Client /\ cstate' = [d \in Client |-> cstate'[d]]
    BY <2>1
  <2> HIDE DEF S
  <2> QED
    BY <1>1, <1>2, <1>3, <2>2, <2>3, Leaves
<1> QED
  BY <1>4, <1>5, <1>6

(* handleData() picks the client of a valid snapshot. *)
LEMMA TurnBegins == ServiceInv /\ EnterHandleData => \E c \in Client : Service!Pick(c)
<1> SUFFICES ASSUME ServiceInv, EnterHandleData PROVE \E c \in Client : Service!Pick(c)
  OBVIOUS
<1>1. /\ pc = "scan" /\ fd # Sock /\ fd \in rd /\ pc' = "cmd" /\ fd' = fd
      /\ UNCHANGED <<tableVars, peerVars, logVars>>
  BY DEF EnterHandleData
<1>2. PICK c \in Client : file[fd] = c
  BY <1>1 DEF ServiceInv, SInv, SnapshotValid, ReadAhead, ReadableFds, Peers
<1> QED
  BY <1>1, <1>2 DEF Service!Pick, InHandleData, tableVars, peerVars, logVars

(* Reads are no business of the service. *)
LEMMA ReadsStutter ==
  ReadCommand \/ ReadRest \/ ReadLength \/ ReadPayload \/ EmptyPayload => UNCHANGED Service!vars
  BY DEF ReadCommand, ReadRest, ReadLength, ReadPayload, EmptyPayload, Receive, Service!vars,
         InHandleData, tableVars, peerVars, logVars

(* The server hangs up on a client that left, or that asked for what is    *)
(* not promised.                                                           *)
LEMMA HangUpSteps ==
  ASSUME ServiceInv, InvalidCommand \/ LengthExceeded \/ ReadFailed
  PROVE  \E c \in Client : Service!HangUp(c)
<1>1. pc \in InHandleData /\ CloseConnection /\ UNCHANGED logVars
  BY DEF InvalidCommand, LengthExceeded, ReadFailed, InHandleData
<1>2. PICK c \in Client : file[fd] = c
  BY <1>1 DEF ServiceInv, SInv, Inv, PlaceInv
<1>3. /\ Inv /\ Attached(c) /\ Peer = c /\ Turn(c) /\ Holder = c
  BY <1>1, <1>2, TurnFacts DEF Holder
<1>4. Holder' = Free /\ cstate' = [cstate EXCEPT ![c] = "closed"]
  <2>1. pc' \notin InHandleData
    BY <1>1, <1>2, ClosedDetaches DEF InHandleData
  <2> QED
    BY <1>1, <1>2, <2>1 DEF Holder, CloseConnection
<1>5. \/ cstate[c] = "closed"
      \/ /\ Len(replies[c]) + 1 <= Len(sent[c])
         /\ sent[c][Len(replies[c]) + 1] \notin Promised
  <2>1. CASE InvalidCommand
    <3>1. pc = "cmd" /\ in[c] # <<>> /\ ~KnownCommand
      BY <1>3, <2>1 DEF InvalidCommand
    <3>2. Head(in[c]) = Command(Len(replies[c]) + 1) /\ Head(in[c]).id \in 1..Len(sent[c])
      BY <1>3, <3>1, HeadIsWanted DEF Wanted
    <3>3. sent[c][Len(replies[c]) + 1].op \notin {"ge", "se", "sh"}
      BY <1>3, <3>1, <3>2 DEF KnownCommand, Command
    <3>4. Len(replies[c]) + 1 <= Len(sent[c])
      BY <1>3, <3>2, LogTypes DEF Command
    <3> QED
      BY <3>3, <3>4 DEF Promised
  <2>2. CASE LengthExceeded
    <3>1. pc = "length" /\ ~Fits(Request.nbits)
      BY <2>2 DEF LengthExceeded
    <3>2. cur = Len(replies[c]) + 1 /\ cur <= Len(sent[c]) /\ Request = sent[c][cur]
      BY <1>2, <3>1, RequestFacts DEF InHandleData
    <3>3. Request.op = "sh"
      BY <3>1 DEF ServiceInv, RequestInv, InHandleData
    <3> QED
      BY <3>1, <3>2, <3>3 DEF Promised
  <2>3. CASE ReadFailed
    BY <1>3, <2>3 DEF ReadFailed
  <2> QED
    BY <2>1, <2>2, <2>3
<1> QED
  BY <1>1, <1>3, <1>4, <1>5
     DEF Service!HangUp, Service!Pending, Service!Due, Holder, Promised, logVars

(* The request a turn is at is the one that is due. *)
LEMMA Due ==
  ASSUME ServiceInv, pc \in {"answer", "shift", "reply"}, NEW c \in Client, file[fd] = c
  PROVE  /\ cur = Service!Due(c) /\ Service!Serving(c)
         /\ Service!DueIsShift(c) <=> pc # "answer"
         /\ Service!OnThePort(c) <=> OnPort(c, cur)
<1>1. /\ pc \in InHandleData \ {"cmd"} /\ Peer = c
  BY TurnFacts DEF InHandleData
<1>2. /\ cur = Len(replies[c]) + 1 /\ cur <= Len(sent[c]) /\ Request = sent[c][cur]
      /\ sent[c][cur] \in Requests
  BY <1>1, RequestFacts
<1>3. /\ pc = "answer" => Request.op \in {"ge", "se"}
      /\ pc # "answer" => Request.op = "sh" /\ Fits(Request.nbits)
  BY <1>1 DEF ServiceInv, RequestInv
<1>4. cur = Service!Due(c)
  BY <1>2 DEF Service!Due
<1>5. sent[c][cur] \in Promised /\ (sent[c][cur].op = "sh" <=> pc # "answer")
  BY <1>2, <1>3 DEF Promised
<1>6. Service!Serving(c)
  BY <1>1, <1>2, <1>4, <1>5 DEF Service!Serving, Service!Pending, Promised
<1>7. Service!DueIsShift(c) <=> pc # "answer"
  BY <1>4, <1>5 DEF Service!DueIsShift
<1>8. Service!OnThePort(c) <=> OnPort(c, cur)
  BY <1>4 DEF Service!OnThePort, Service!Contains, OnPort
<1> QED
  BY <1>4, <1>6, <1>7, <1>8

(* drv->shift(), once per request. *)
LEMMA ShiftStep == ServiceInv /\ Shift => \E c \in Client : Service!Shift(c)
<1> SUFFICES ASSUME ServiceInv, Shift PROVE \E c \in Client : Service!Shift(c)
  OBVIOUS
<1>1. /\ pc = "shift" /\ pc' = "reply" /\ jtag' = Append(jtag, [client |-> Peer, id |-> cur])
      /\ UNCHANGED <<fd, file, cstate, sent, replies>>
  BY DEF Shift, tableVars, peerVars
<1>2. PICK c \in Client : file[fd] = c
  BY <1>1 DEF ServiceInv, SInv, Inv, PlaceInv, InHandleData
<1>3. Peer = c /\ LogInv(c)
  BY <1>2, TurnFacts
<1>4. cur = Service!Due(c) /\ Service!Serving(c) /\ Service!DueIsShift(c)
  BY <1>1, <1>2, Due
<1>5. ~Service!OnThePort(c)
  <2>1. cur = Len(replies[c]) + 1 /\ cur \in 1..MaxRequests /\ Len(replies[c]) \in Nat
    BY <1>1, <1>2, RequestFacts, LogTypes DEF InHandleData, ServiceInv, SInv
  <2>2. ~OnPort(c, cur)
    BY <1>1, <1>3, <2>1 DEF LogInv
  <2> QED
    BY <1>1, <1>2, <2>2, Due
<1>6. Holder' = Holder
  BY <1>1 DEF Holder, InHandleData
<1> QED
  BY <1>1, <1>3, <1>4, <1>5, <1>6 DEF Service!Shift, Holder

(* A shift is answered after it reached the port. *)
LEMMA ReplyStep == ServiceInv /\ Reply => \E c \in Client : Service!AnswerShift(c)
<1> SUFFICES ASSUME ServiceInv, Reply PROVE \E c \in Client : Service!AnswerShift(c)
  OBVIOUS
<1>1. /\ pc = "reply" /\ pc' = "cmd" /\ UNCHANGED <<fd, file, cstate, sent, jtag>>
      /\ \E ok \in BOOLEAN : Write(ok)
  BY DEF Reply, tableVars, peerVars
<1>2. PICK c \in Client : file[fd] = c
  BY <1>1 DEF ServiceInv, SInv, Inv, PlaceInv, InHandleData
<1>3. Peer = c /\ Inv /\ TypeOK
  BY <1>2, TurnFacts DEF Inv
<1>4. cur = Service!Due(c) /\ Service!Serving(c) /\ Service!DueIsShift(c)
  BY <1>1, <1>2, Due
<1>5. Service!OnThePort(c)
  <2>1. jtag # <<>> /\ jtag[Len(jtag)] = [client |-> c, id |-> cur]
    BY <1>1, <1>3 DEF ServiceInv, RequestInv, InHandleData
  <2>2. Len(jtag) \in 1..Len(jtag)
    BY <1>3, <2>1, EmptySeq, LenProperties DEF TypeOK
  <2>3. OnPort(c, cur)
    BY <2>1, <2>2 DEF OnPort
  <2> QED
    BY <1>1, <1>2, <2>3, Due
<1>6. Service!Answer(c)
  BY <1>1, <1>3, <1>4 DEF Write, Service!Answer
<1>7. Holder' = Holder
  BY <1>1 DEF Holder, InHandleData
<1> QED
  BY <1>1, <1>4, <1>5, <1>6, <1>7 DEF Service!AnswerShift, Holder

(* A failed answer finds its client gone already. *)
LEMMA AnswerStep == ServiceInv /\ Answer => \E c \in Client : Service!AnswerQuery(c)
<1> SUFFICES ASSUME ServiceInv, Answer PROVE \E c \in Client : Service!AnswerQuery(c)
  OBVIOUS
<1>1. PICK ok \in BOOLEAN :
        /\ Write(ok)
        /\ IF ok THEN NextDescriptor /\ cur' = 0 /\ UNCHANGED <<tableVars, peerVars>>
                 ELSE CloseConnection
  BY DEF Answer
<1>2. pc = "answer" /\ UNCHANGED <<sent, jtag>>
  BY DEF Answer
<1>3. PICK c \in Client : file[fd] = c
  BY <1>2 DEF ServiceInv, SInv, Inv, PlaceInv, InHandleData
<1>4. Peer = c /\ Inv /\ TypeOK
  BY <1>3, TurnFacts DEF Inv
<1>5. cur = Service!Due(c) /\ Service!Serving(c) /\ ~Service!DueIsShift(c)
  BY <1>2, <1>3, Due
<1>6. Service!Answer(c)
  BY <1>1, <1>4, <1>5 DEF Write, Service!Answer
<1>7. NextDescriptor
  BY <1>1 DEF CloseConnection
<1>8. Holder' = Free
  <2>1. pc' \in {"select", "scan"}
    BY <1>4, <1>7, NextDescriptorStep
  <2> QED
    BY <2>1 DEF Holder, InHandleData
<1>9. cstate' = cstate
  <2>1. CASE ok
    BY <1>1, <2>1 DEF peerVars
  <2>2. CASE ~ok
    <3>1. cstate[c] = "closed" /\ cstate' = [cstate EXCEPT ![c] = "closed"]
      BY <1>1, <1>3, <1>4, <2>2 DEF Write, CloseConnection
    <3>2. cstate \in [Client -> {"new", "open", "closed"}]
      BY <1>4 DEF TypeOK
    <3> QED
      BY <3>1, <3>2
  <2> QED
    BY <2>1, <2>2
<1> QED
  BY <1>2, <1>5, <1>6, <1>8, <1>9 DEF Service!AnswerQuery, Holder

(* The steps of the clients. *)
LEMMA ClientSteps ==
  ASSUME ServiceInv, NEW c \in Client, ClientStep(c)
  PROVE  Service!Join(c) \/ Service!Submit(c) \/ Service!Leave \/ UNCHANGED Service!vars
<1>1. Holder' = Holder
  BY DEF ClientStep, Connect, Submit, Send, SendUrgent, Close, Holder, scanVars, tableVars
<1>2. CASE Connect(c)
  BY <1>1, <1>2 DEF Connect, Service!Join, Holder, logVars
<1>3. CASE Submit(c)
  BY <1>1, <1>3 DEF Submit, Service!Submit, Holder
<1>4. CASE Send(c) \/ SendUrgent(c)
  BY <1>1, <1>4 DEF Send, SendUrgent, Service!vars, Holder, logVars
<1>5. CASE Close(c)
  <2>1. cstate[c] = "open" /\ cstate' = [cstate EXCEPT ![c] = "closed"] /\ UNCHANGED logVars
    BY <1>5 DEF Close
  <2>2. TypeOK
    BY DEF ServiceInv, SInv, Inv
  <2> DEFINE S == {c}
  <2>3. /\ S \in SUBSET Client /\ \A d \in S : cstate[d] # "new"
        /\ \A d \in Client : cstate'[d] = IF d \in S THEN "closed" ELSE cstate[d]
    BY <2>1, <2>2 DEF TypeOK
  <2>4. DOMAIN cstate' = Client /\ cstate' = [d \in Client |-> cstate'[d]]
    BY <2>1, <2>2 DEF TypeOK
  <2> HIDE DEF S
  <2> QED
    BY <1>1, <2>1, <2>2, <2>3, <2>4, Leaves
<1> QED
  BY <1>2, <1>3, <1>4, <1>5 DEF ClientStep

(* Every step, given the invariant. *)
LEMMA ServiceStep == ServiceInv /\ [Next]_vars => [Service!Next]_(Service!vars)
<1> SUFFICES ASSUME ServiceInv, [Next]_vars
             PROVE  Service!Next \/ UNCHANGED Service!vars
  OBVIOUS
<1>1. CASE ServerStep
  BY <1>1, ScanSteps, TurnBegins, ReadsStutter, HangUpSteps, ShiftStep, ReplyStep, AnswerStep
     DEF ServerStep, Service!Next
<1>2. CASE \E c \in Client : ClientStep(c)
  BY <1>2, ClientSteps DEF Service!Next
<1>3. CASE UNCHANGED vars
  BY <1>3 DEF vars, scanVars, tableVars, peerVars, logVars, Service!vars
<1> QED
  BY <1>1, <1>2, <1>3 DEF Next

(* The server keeps the promise of XvcService to every set of clients, for *)
(* all their requests: exclusive turns, one shift per request in order,    *)
(* hanging up only on who left or asked what is not served.                *)
THEOREM Implementation == Spec => ImplementsService
<1>1. Init => Service!Init
  BY DEF Init, Service!Init, InHandleData
<1> QED
  BY <1>1, ServiceInvariance, ServiceStep, PTL DEF Spec, ImplementsService, Service!Spec
=============================================================================
