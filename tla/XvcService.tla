----------------------------- MODULE XvcService -----------------------------
(***************************************************************************)
(* What the XVC server promises its clients, with no sockets in it.  There *)
(* is one JTAG port.  A client has the server to itself from the moment it *)
(* is picked until it asks something that is not a shift, or goes away: in *)
(* between, its shifts reach the port back to back.  Every client's        *)
(* requests are executed in the order it made them, a shift exactly once   *)
(* and before it is answered, and the server hangs up only on a client     *)
(* that left or that asked what the server does not do.                    *)
(* IOServer.tla implements this module.                                    *)
(***************************************************************************)
EXTENDS Naturals, Sequences, SequencesExt

CONSTANTS
    Client,     \* the peers
    NoClient,   \* nobody holds the server
    Requests,   \* the requests a client can make, records with a field op
    Served      \* the requests the server executes

VARIABLES
    status,     \* status[c]: "new", "open" or "closed"
    sent,       \* sent[c]: the requests c has made, oldest first
    replies,    \* replies[c]: the attempts to answer c, oldest first
    jtag,       \* the shifts that went to the JTAG port, oldest first
    holder      \* the client being served

vars == <<status, sent, replies, jtag, holder>>

Init ==
    /\ status = [c \in Client |-> "new"]
    /\ sent = [c \in Client |-> <<>>]
    /\ replies = [c \in Client |-> <<>>]
    /\ jtag = <<>>
    /\ holder = NoClient

-----------------------------------------------------------------------------

Due(c) == Len(replies[c]) + 1           \* the number of the request to answer
Pending(c) == Due(c) <= Len(sent[c])
DueIsShift(c) == sent[c][Due(c)].op = "sh"
OnThePort(c) == Contains(jtag, [client |-> c, id |-> Due(c)])

(* The holder's due request is one the server executes. *)
Serving(c) == holder = c /\ Pending(c) /\ sent[c][Due(c)] \in Served

(* An attempt to answer fails only if the client has left. *)
Answer(c) ==
    \E ok \in BOOLEAN :
        /\ ok \/ status[c] = "closed"
        /\ replies' = [replies EXCEPT ![c] = Append(@, [id |-> Due(c), ok |-> ok])]

-----------------------------------------------------------------------------

Join(c) ==
    /\ status[c] = "new"
    /\ status' = [status EXCEPT ![c] = "open"]
    /\ UNCHANGED <<sent, replies, jtag, holder>>

Submit(c) ==
    /\ status[c] = "open"
    /\ \E r \in Requests : sent' = [sent EXCEPT ![c] = Append(@, r)]
    /\ UNCHANGED <<status, replies, jtag, holder>>

(* Clients leave, or lose their connection while they are not served. *)
Leave ==
    /\ \E S \in SUBSET {c \in Client : status[c] = "open"} :
         status' = [c \in Client |-> IF c \in S THEN "closed" ELSE status[c]]
    /\ UNCHANGED <<sent, replies, jtag, holder>>

Pick(c) ==
    /\ holder = NoClient
    /\ holder' = c
    /\ UNCHANGED <<status, sent, replies, jtag>>

(* A query ends the turn of its client. *)
AnswerQuery(c) ==
    /\ Serving(c) /\ ~DueIsShift(c)
    /\ Answer(c)
    /\ holder' = NoClient
    /\ UNCHANGED <<status, sent, jtag>>

Shift(c) ==
    /\ Serving(c) /\ DueIsShift(c) /\ ~OnThePort(c)
    /\ jtag' = Append(jtag, [client |-> c, id |-> Due(c)])
    /\ UNCHANGED <<status, sent, replies, holder>>

(* An answered shift does not: the turn goes on. *)
AnswerShift(c) ==
    /\ Serving(c) /\ DueIsShift(c) /\ OnThePort(c)
    /\ Answer(c)
    /\ UNCHANGED <<status, sent, jtag, holder>>

HangUp(c) ==
    /\ holder = c
    /\ \/ status[c] = "closed"
       \/ Pending(c) /\ sent[c][Due(c)] \notin Served
    /\ holder' = NoClient
    /\ status' = [status EXCEPT ![c] = "closed"]
    /\ UNCHANGED <<sent, replies, jtag>>

Next ==
    \/ Leave
    \/ \E c \in Client :
         \/ Join(c) \/ Submit(c) \/ Pick(c) \/ AnswerQuery(c)
         \/ Shift(c) \/ AnswerShift(c) \/ HangUp(c)

Spec == Init /\ [][Next]_vars
=============================================================================
