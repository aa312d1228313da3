------------------------------ MODULE IOServer ------------------------------
(***************************************************************************)
(* The XVC server of src/src/ioserver.cpp: one thread that waits in        *)
(* select() on its listening socket and on the accepted connections, scans *)
(* the snapshot select() returned, and serves one connection at a time in  *)
(* handleData(), with reads that block.                                    *)
(*                                                                         *)
(* A step of the server is one system call or one iteration of a loop.     *)
(* Clients and the kernel run between any two of them.  The byte stream of *)
(* a connection is cut where the server's calls to sread() cut it: a token *)
(* is what one call gets, and it may arrive late, or never.  Requests      *)
(* follow the XVC 1.0 framing; lengths are not negative.                   *)
(***************************************************************************)
EXTENDS Integers, Sequences, FiniteSets, SequencesExt

CONSTANTS
    Client,         \* the peers; one that reconnects is another Client
    MaxFd,          \* the last descriptor the process may have open
    Sock,           \* the descriptor of the listening socket
    Free,           \* what an unused descriptor refers to
    Listener,       \* what Sock refers to
    VectorLength,   \* bytes of the TMS/TDI buffer (32768 in the code)
    Requests,       \* the requests clients make: [op, nbits]
    MaxRequests,    \* bound: requests a client makes
    Backlog,        \* bound: connections the kernel queues for accept()
    OobClient,      \* clients that may send out-of-band data
    SockMayFail     \* whether select() may report the listening socket failed

Fd == 0..MaxFd
Op == {"ge", "se", "sh", "mr"}      \* getinfo, settck, shift, and XVC 1.1's mrd

ASSUME FdAssumption == MaxFd \in Nat /\ Sock \in Fd
ASSUME FileAssumption == Free # Listener /\ Free \notin Client /\ Listener \notin Client
ASSUME BoundAssumption == VectorLength \in Nat /\ MaxRequests \in Nat /\ Backlog \in Nat
ASSUME RequestAssumption == Requests \subseteq [op : Op, nbits : Nat]
ASSUME FailureAssumption == OobClient \subseteq Client /\ SockMayFail \in BOOLEAN

VARIABLES
    (* the server's own state *)
    pc,         \* where its thread is
    fd,         \* the descriptor the scan is at
    rd, ex,     \* fd_set read, except: what select() reported
    conn,       \* fd_set conn: the descriptors to watch
    maxfd,      \* the largest of them
    cur,        \* handleData's cmd: the number of the request being read
    (* the kernel *)
    file,       \* file[f]: what descriptor f refers to
    backlog,    \* connected clients that wait for accept()
    in,         \* in[c]: tokens of c that arrived and were not read
    urgent,     \* urgent[c]: out-of-band data of c arrived
    (* the clients *)
    cstate,     \* cstate[c]: "new", "open", "closed"
    tosend,     \* tosend[c]: what c has not sent of its last request
    (* histories *)
    sent,       \* sent[c]: requests of c, oldest first
    replies,    \* replies[c]: the write()s to c, oldest first
    jtag        \* the calls of drv->shift(), oldest first

scanVars == <<pc, fd, rd, ex>>
tableVars == <<conn, maxfd, file, backlog>>
peerVars == <<cstate, tosend, in, urgent>>
logVars == <<sent, replies, jtag>>
vars == <<scanVars, cur, tableVars, peerVars, logVars>>

InHandleData == {"cmd", "rest", "answer", "length", "payload", "shift", "reply"}
Token == [kind : {"cmd", "rest", "length", "data"}, id : 1..MaxRequests]

TypeOK ==
    /\ pc \in {"select", "scan", "terminated"} \cup InHandleData
    /\ fd \in Fd /\ maxfd \in Fd
    /\ rd \subseteq Fd /\ ex \subseteq Fd /\ conn \subseteq Fd
    /\ cur \in 0..MaxRequests
    /\ file \in [Fd -> Client \cup {Free, Listener}]
    /\ backlog \in Seq(Client)
    /\ cstate \in [Client -> {"new", "open", "closed"}]
    /\ tosend \in [Client -> Seq(Token)]
    /\ in \in [Client -> Seq(Token)]
    /\ urgent \in [Client -> BOOLEAN]
    /\ sent \in [Client -> Seq(Requests)]
    /\ replies \in [Client -> Seq([id : 1..MaxRequests, ok : BOOLEAN])]
    /\ jtag \in Seq([client : Client, id : 1..MaxRequests])

-----------------------------------------------------------------------------
(* Requests as the server reads them.                                      *)

NBytesTruncated(n) == n \div 8      \* fault: no rounding up
NBytes(n) == (n + 7) \div 8

(* handleData's check before it reads the two vectors of a shift. *)
Fits(n) == 2 * NBytes(n) <= VectorLength

Kinds(r) ==
    IF r.op # "sh" THEN <<"cmd", "rest">>
    ELSE IF NBytes(r.nbits) = 0 THEN <<"cmd", "rest", "length">>
    ELSE <<"cmd", "rest", "length", "data">>

Tokens(r, i) == [k \in DOMAIN Kinds(r) |-> [kind |-> Kinds(r)[k], id |-> i]]

-----------------------------------------------------------------------------
(* Clients.                                                                *)

Connect(c) ==
    /\ cstate[c] = "new"
    /\ file[Sock] = Listener /\ Len(backlog) < Backlog
    /\ cstate' = [cstate EXCEPT ![c] = "open"]
    /\ backlog' = Append(backlog, c)
    /\ UNCHANGED <<scanVars, cur, conn, maxfd, file, tosend, in, urgent, logVars>>

Submit(c) ==
    /\ cstate[c] = "open" /\ tosend[c] = <<>>
    /\ Len(sent[c]) < MaxRequests
    /\ \E r \in Requests :
         LET t == Tokens(r, Len(sent[c]) + 1) IN
         /\ sent' = [sent EXCEPT ![c] = Append(@, r)]
         /\ in' = [in EXCEPT ![c] = Append(@, Head(t))]
         /\ tosend' = [tosend EXCEPT ![c] = Tail(t)]
    /\ UNCHANGED <<scanVars, cur, tableVars, cstate, urgent, replies, jtag>>

Send(c) ==
    /\ cstate[c] = "open" /\ tosend[c] # <<>>
    /\ in' = [in EXCEPT ![c] = Append(@, Head(tosend[c]))]
    /\ tosend' = [tosend EXCEPT ![c] = Tail(@)]
    /\ UNCHANGED <<scanVars, cur, tableVars, cstate, urgent, logVars>>

SendUrgent(c) ==
    /\ c \in OobClient /\ cstate[c] = "open" /\ ~urgent[c]
    /\ urgent' = [urgent EXCEPT ![c] = TRUE]
    /\ UNCHANGED <<scanVars, cur, tableVars, cstate, tosend, in, logVars>>

(* The client closes or dies, possibly in the middle of a request. *)
Close(c) ==
    /\ cstate[c] = "open"
    /\ cstate' = [cstate EXCEPT ![c] = "closed"]
    /\ UNCHANGED <<scanVars, cur, tableVars, tosend, in, urgent, logVars>>

ClientStep(c) == Connect(c) \/ Submit(c) \/ Send(c) \/ SendUrgent(c) \/ Close(c)

-----------------------------------------------------------------------------
(* The scan of the select() snapshot, start().                             *)

OpenFds == {f \in Fd : file[f] # Free}
FreeFds == {f \in Fd : file[f] = Free}
Peers == {f \in Fd : file[f] \in Client}

(* read() on the connection of c would not block: a token, or end of file. *)
Readable(c) == in[c] # <<>> \/ cstate[c] = "closed"

ReadableFds ==
    {f \in Peers : Readable(file[f])}
        \cup (IF file[Sock] = Listener /\ backlog # <<>> THEN {Sock} ELSE {})

(* The kernel forgets out-of-band data once the reads pass its mark, so a  *)
(* descriptor of this set may or may not be reported.                      *)
ExceptFds ==
    {f \in Peers : urgent[file[f]]} \cup (IF SockMayFail THEN {Sock} ELSE {})

Watched == {f \in conn : f <= maxfd}

(* The lowest descriptor of S, as the scan and the kernel pick it; none if  *)
(* S is empty.                                                              *)
Lowest(S) == {f \in S : \A g \in S : f <= g}

(* fd++ up to the next descriptor in a snapshot; past the last one, back to *)
(* select(), where the snapshot dies.                                       *)
NextDescriptor ==
    LET rest == {f \in rd \cup ex : f > fd} IN
    IF rest = {}
    THEN pc' = "select" /\ fd' = 0 /\ rd' = {} /\ ex' = {}
    ELSE pc' = "scan" /\ fd' \in Lowest(rest) /\ UNCHANGED <<rd, ex>>

(* select() blocks until a watched descriptor is ready.  It fails on a      *)
(* descriptor that is not open, and then start() throws a const char *,     *)
(* which main() does not catch.                                             *)
SelectUnfiltered ==                 \* fault: serves what it watches, ready or not
    /\ pc = "select" /\ Watched # {}
    /\ rd' = Watched /\ ex' = {}
    /\ fd' \in Lowest(Watched)
    /\ pc' = "scan"
    /\ UNCHANGED <<cur, tableVars, peerVars, logVars>>

Select ==
    /\ pc = "select"
    /\ IF Watched \subseteq OpenFds
       THEN \E e \in SUBSET (ExceptFds \cap Watched) :
              LET r == ReadableFds \cap Watched IN
              /\ rd' = r /\ ex' = e
              /\ fd' \in Lowest(r \cup e)
              /\ pc' = "scan"
       ELSE pc' = "terminated" /\ UNCHANGED <<fd, rd, ex>>
    /\ UNCHANGED <<cur, tableVars, peerVars, logVars>>

NewMaxFdStale(newfd) == maxfd       \* fault: maxfd is not raised
NewMaxFdPast(newfd) ==              \* fault: maxfd is what select() takes, one more
    IF newfd >= maxfd THEN newfd + 1 ELSE maxfd
NewMaxFd(newfd) == IF newfd > maxfd THEN newfd ELSE maxfd

Accept ==
    /\ pc = "scan" /\ fd = Sock /\ Sock \in rd
    /\ backlog # <<>>
    /\ \E newfd \in Lowest(FreeFds) :
         /\ file' = [file EXCEPT ![newfd] = Head(backlog)]
         /\ conn' = conn \cup {newfd}
         /\ maxfd' = NewMaxFd(newfd)
    /\ backlog' = Tail(backlog)
    /\ NextDescriptor
    /\ UNCHANGED <<cur, peerVars, logVars>>

(* accept() fails for want of a descriptor: a message, and the connection  *)
(* stays queued.                                                           *)
AcceptError ==
    /\ pc = "scan" /\ fd = Sock /\ Sock \in rd
    /\ backlog # <<>> /\ FreeFds = {}
    /\ NextDescriptor
    /\ UNCHANGED <<cur, tableVars, peerVars, logVars>>

EnterHandleData ==
    /\ pc = "scan" /\ fd # Sock /\ fd \in rd
    /\ pc' = "cmd"
    /\ UNCHANGED <<fd, rd, ex, cur, tableVars, peerVars, logVars>>

(* close(fd); FD_CLR(fd, &conn): the peer's unread data is lost.           *)
CloseButWatch ==                    \* fault: no FD_CLR
    LET c == file[fd] IN
    /\ file' = [file EXCEPT ![fd] = Free]
    /\ cstate' = [cstate EXCEPT ![c] = "closed"]
    /\ in' = [in EXCEPT ![c] = <<>>]
    /\ urgent' = [urgent EXCEPT ![c] = FALSE]
    /\ cur' = 0
    /\ NextDescriptor
    /\ UNCHANGED <<conn, maxfd, backlog, tosend>>

CloseConnection ==
    LET c == file[fd] IN
    /\ file' = [file EXCEPT ![fd] = Free]
    /\ conn' = conn \ {fd}
    /\ cstate' = [cstate EXCEPT ![c] = "closed"]
    /\ in' = [in EXCEPT ![c] = <<>>]
    /\ urgent' = [urgent EXCEPT ![c] = FALSE]
    /\ cur' = 0
    /\ NextDescriptor
    /\ UNCHANGED <<maxfd, backlog, tosend>>

AbortConnection ==
    /\ pc = "scan" /\ fd # Sock /\ fd \in ex \ rd
    /\ CloseConnection
    /\ UNCHANGED logVars

(* The listening socket failed: it is closed, which resets the queued       *)
(* connections, and the break leaves the rest of the snapshot unserved.     *)
AbortListener ==
    LET queued == ToSet(backlog) IN
    /\ pc = "scan" /\ fd = Sock /\ Sock \in ex \ rd
    /\ file' = [file EXCEPT ![Sock] = Free]
    /\ conn' = conn \ {Sock}
    /\ backlog' = <<>>
    /\ cstate' = [c \in Client |-> IF c \in queued THEN "closed" ELSE cstate[c]]
    /\ pc' = "select" /\ fd' = 0 /\ rd' = {} /\ ex' = {}
    /\ UNCHANGED <<cur, maxfd, tosend, in, urgent, logVars>>

-----------------------------------------------------------------------------
(* One turn of a connection, handleData(fd).                               *)

Peer == file[fd]
Request == sent[Peer][cur]      \* the request whose command was read
PayloadSize == NBytes(Request.nbits)

(* sread() got the next token: the server is at stage and moves to next.   *)
Receive(stage, next) ==
    /\ pc = stage /\ in[Peer] # <<>>
    /\ cur' = Head(in[Peer]).id
    /\ in' = [in EXCEPT ![Peer] = Tail(@)]
    /\ pc' = next
    /\ UNCHANGED <<fd, rd, ex, tableVars, cstate, tosend, urgent, logVars>>

(* The two bytes at hand are one of the three command prefixes. *)
KnownCommand ==
    LET t == Head(in[Peer]) IN
    t.kind = "cmd" /\ sent[Peer][t.id].op \in {"ge", "se", "sh"}

ReadCommand ==
    /\ pc = "cmd" /\ in[Peer] # <<>> /\ KnownCommand
    /\ Receive("cmd", "rest")

(* return 1: start() closes the connection *)
InvalidCommand ==
    /\ pc = "cmd" /\ in[Peer] # <<>> /\ ~KnownCommand
    /\ CloseConnection
    /\ UNCHANGED logVars

ReadRest == Receive("rest", IF Request.op = "sh" THEN "length" ELSE "answer")

(* A write() may fail once the peer has closed. *)
Write(ok) ==
    /\ ok \/ cstate[Peer] = "closed"
    /\ replies' = [replies EXCEPT ![Peer] = Append(@, [id |-> cur, ok |-> ok])]

(* getinfo and settck: return 0 back to the scan, or 1 if the write failed *)
AnswerAndStay ==                    \* fault: no break after a query
    /\ pc = "answer"
    /\ \E ok \in BOOLEAN : Write(ok)
    /\ pc' = "cmd" /\ cur' = 0
    /\ UNCHANGED <<fd, rd, ex, tableVars, peerVars, sent, jtag>>

Answer ==
    /\ pc = "answer"
    /\ \E ok \in BOOLEAN :
         /\ Write(ok)
         /\ IF ok THEN NextDescriptor /\ cur' = 0 /\ UNCHANGED <<tableVars, peerVars>>
                  ELSE CloseConnection
    /\ UNCHANGED <<sent, jtag>>

ReadLength ==
    /\ pc = "length" /\ Fits(Request.nbits)
    /\ Receive("length", "payload")

(* return 1: the vectors do not fit the buffer *)
LengthExceededKept ==               \* fault: return 0
    /\ pc = "length" /\ in[Peer] # <<>> /\ ~Fits(Request.nbits)
    /\ in' = [in EXCEPT ![Peer] = Tail(@)]
    /\ cur' = 0
    /\ NextDescriptor
    /\ UNCHANGED <<tableVars, cstate, tosend, urgent, logVars>>

LengthExceeded ==
    /\ pc = "length" /\ in[Peer] # <<>> /\ ~Fits(Request.nbits)
    /\ CloseConnection
    /\ UNCHANGED logVars

ReadPayload ==
    /\ pc = "payload" /\ PayloadSize > 0
    /\ Receive("payload", "shift")

(* sread() of no bytes returns at once. *)
EmptyPayload ==
    /\ pc = "payload" /\ PayloadSize = 0
    /\ pc' = "shift"
    /\ UNCHANGED <<fd, rd, ex, cur, tableVars, peerVars, logVars>>

Shift ==
    /\ pc = "shift"
    /\ jtag' = Append(jtag, [client |-> Peer, id |-> cur])
    /\ pc' = "reply"
    /\ UNCHANGED <<fd, rd, ex, cur, tableVars, peerVars, sent, replies>>

(* A failed write is a message only: the loop reads the next command.      *)
ReplyAndBreak ==                    \* fault: a turn ends with its first shift
    /\ pc = "reply"
    /\ \E ok \in BOOLEAN : Write(ok)
    /\ NextDescriptor /\ cur' = 0
    /\ UNCHANGED <<tableVars, peerVars, sent, jtag>>

Reply ==
    /\ pc = "reply"
    /\ \E ok \in BOOLEAN : Write(ok)
    /\ pc' = "cmd" /\ cur' = 0
    /\ UNCHANGED <<fd, rd, ex, tableVars, peerVars, sent, jtag>>

(* sread() meets the end of the stream, or the reset of a peer that closed: *)
(* return 1                                                                 *)
ReadFailedRetried ==                \* fault: sread() goes on after read() = 0
    /\ pc \in {"cmd", "rest", "length", "payload"}
    /\ cstate[Peer] = "closed"
    /\ UNCHANGED vars

ReadFailed ==
    /\ pc \in {"cmd", "rest", "length", "payload"}
    /\ pc = "payload" => PayloadSize > 0
    /\ cstate[Peer] = "closed"
    /\ CloseConnection
    /\ UNCHANGED logVars

-----------------------------------------------------------------------------

Init ==
    /\ pc = "select" /\ fd = 0 /\ rd = {} /\ ex = {}
    /\ conn = {Sock} /\ maxfd = Sock
    /\ cur = 0
    /\ file = [f \in Fd |-> IF f = Sock THEN Listener ELSE Free]
    /\ backlog = <<>>
    /\ cstate = [c \in Client |-> "new"]
    /\ tosend = [c \in Client |-> <<>>]
    /\ in = [c \in Client |-> <<>>]
    /\ urgent = [c \in Client |-> FALSE]
    /\ sent = [c \in Client |-> <<>>]
    /\ replies = [c \in Client |-> <<>>]
    /\ jtag = <<>>

ServerStep ==
    \/ Select \/ Accept \/ AcceptError \/ AbortConnection \/ AbortListener
    \/ EnterHandleData \/ ReadCommand \/ InvalidCommand \/ ReadRest \/ Answer
    \/ ReadLength \/ LengthExceeded \/ ReadPayload \/ EmptyPayload
    \/ Shift \/ Reply \/ ReadFailed

Next == ServerStep \/ \E c \in Client : ClientStep(c)

Spec == Init /\ [][Next]_vars

(* The server's thread runs, and a client that began a request sends it.   *)
Fairness == WF_vars(ServerStep) /\ \A c \in Client : WF_vars(Send(c))
FairSpec == Spec /\ Fairness

(* A client whose last request was a shift closes once it is answered.  The *)
(* code does not ask this of it: handleData() holds the server for a client *)
(* that shifted and went quiet.                                             *)
HoldsServer(c) ==
    sent[c] # <<>> /\ Last(sent[c]).op = "sh" /\ Len(replies[c]) = Len(sent[c])
PoliteSpec == FairSpec /\ \A c \in Client : WF_vars(HoldsServer(c) /\ Close(c))

-----------------------------------------------------------------------------
(* Safety.                                                                 *)

(* The table of descriptors and the sets select() is given agree, at every *)
(* point of the scan: each watched descriptor is open and within nfds, and *)
(* each open one is watched.  select() never meets a closed descriptor     *)
(* (start(), line 97), and no accepted connection is forgotten.            *)
DescriptorsWatched == conn = OpenFds /\ Watched = conn

(* What the scan still has to visit is as true as when select() reported   *)
(* it, whatever was accepted and closed meanwhile: the descriptor was not  *)
(* closed or reused, and the first read() or accept() on it cannot block   *)
(* (lines 100 to 146 use the snapshot of line 97).                         *)
ReadAhead == {f \in rd : f > fd \/ (f = fd /\ pc = "scan")}
SnapshotValid == ReadAhead \subseteq ReadableFds

(* The token the next read of the connection at f has to be for the server *)
(* to be in step with the client.                                          *)
Expected(f) ==
    LET here == f = fd /\ pc \in InHandleData
        inside == here /\ (pc \in {"rest", "length"} \/ (pc = "payload" /\ PayloadSize > 0))
        taken == here /\ pc # "cmd"     \* a request was read and is not answered
    IN  IF inside
        THEN [kind |-> IF pc = "payload" THEN "data" ELSE pc, id |-> cur]
        ELSE [kind |-> "cmd", id |-> Len(replies[file[f]]) + (IF taken THEN 2 ELSE 1)]

(* The server never loses its place in a stream, whatever the mix of       *)
(* lengths, refusals, early returns and half-sent requests, and all the    *)
(* requests it has read are answered (the reads of handleData, lines 171   *)
(* to 251).                                                                *)
InStep ==
    \A f \in Peers : in[file[f]] # <<>> => Head(in[file[f]]) = Expected(f)

(* The numbers of the client's requests that reached the JTAG port. *)
Shifted(c) == {e.id : e \in {x \in ToSet(jtag) : x.client = c}}

(* A shift reaches the port once, before its answer and after all of its   *)
(* bytes arrived, answers come in the order of the requests, and vectors   *)
(* larger than half of the buffer never touch the port (handleData, lines  *)
(* 246 to 270).                                                            *)
ExecutedInOrder ==
    /\ IsInjective(jtag)
    /\ \A c \in Client :
         /\ \A i \in DOMAIN replies[c] : replies[c][i].id = i
         /\ \A i \in DOMAIN replies[c] : sent[c][i].op = "sh" => i \in Shifted(c)
         /\ \A i \in Shifted(c) :
              /\ sent[c][i].op = "sh" /\ sent[c][i].nbits <= 8 * (VectorLength \div 2)
              /\ i < Len(sent[c]) \/ tosend[c] = <<>>

(* Consecutive shifts of a client reach the port with no other client's    *)
(* shift between them, which would move the TAP under its feet: the reason *)
(* for the loop of handleData (lines 167 to 272).                          *)
BurstsUnbroken ==
    \A c \in Client : \A i \in Shifted(c) :
        i + 1 \in Shifted(c) =>
            \E k \in 1..Len(jtag) - 1 :
                /\ jtag[k] = [client |-> c, id |-> i]
                /\ jtag[k + 1] = [client |-> c, id |-> i + 1]

-----------------------------------------------------------------------------
(* Liveness.                                                               *)

(* Every request of a client that does not close is answered, or its       *)
(* connection is closed (all of start() and handleData()).                 *)
EveryRequestSettled ==
    \A c \in Client : \A i \in 1..MaxRequests :
        Len(sent[c]) >= i ~> Len(replies[c]) >= i \/ cstate[c] = "closed"

(* The thread comes back to select(): no connection holds it for ever.     *)
BackToSelect == []<>(pc = "select")

-----------------------------------------------------------------------------
(* IOServer implements XvcService: the holder is the client handleData()   *)
(* is serving.                                                             *)

Service == INSTANCE XvcService WITH
    NoClient <- Free,
    Served <- {r \in Requests : r.op \in {"ge", "se"} \/ (r.op = "sh" /\ Fits(r.nbits))},
    status <- cstate,
    holder <- IF pc \in InHandleData THEN file[fd] ELSE Free

ImplementsService == Service!Spec
=============================================================================
