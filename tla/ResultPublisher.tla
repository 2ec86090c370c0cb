--------------------------- MODULE ResultPublisher ---------------------------
(***************************************************************************)
(* src/ai/ResultPublisher.hpp: results broadcast to the consumers connected *)
(* to a Unix socket.  publish() holds m_mutex while it sends; a consumer    *)
(* that takes nothing for SO_SNDTIMEO is cut off, in the middle of a message *)
(* maybe, and may connect again.                                           *)
(***************************************************************************)
EXTENDS Naturals, Sequences

CONSTANT Clients    \* connections consumers make, each of them once

VARIABLES
    accepting,  \* m_running: the listening socket is open
    acceptor,   \* the accept thread: "accept", "register" or "gone"
    closer,     \* the thread in stop(): "out", "socket", "join" or "done"
    conn,       \* a connection: "none", "backlog", "accepted" (returned by
                \* accept, not yet listed), "listed" (in m_clients), "closed"
    wire        \* the frame of each message it was sent, Cut for a part of one

publisherVars == <<accepting, acceptor, closer, conn, wire>>

Connections == {"none", "backlog", "accepted", "listed", "closed"}
Cut == 0

InitPublisher ==
    /\ accepting = TRUE /\ acceptor = "accept" /\ closer = "out"
    /\ conn = [c \in Clients |-> "none"]
    /\ wire = [c \in Clients |-> <<>>]

Connect(c) ==
    /\ accepting
    /\ conn[c] = "none"
    /\ conn' = [conn EXCEPT ![c] = "backlog"]
    /\ UNCHANGED <<accepting, acceptor, closer, wire>>

\* The loop tests m_running, then blocks in accept().
Accept(c) ==
    /\ acceptor = "accept" /\ closer \notin {"join", "done"}
    /\ conn[c] = "backlog"
    /\ acceptor' = "register"
    /\ conn' = [conn EXCEPT ![c] = "accepted"]
    /\ UNCHANGED <<accepting, closer, wire>>

Register(c) ==
    /\ acceptor = "register"
    /\ conn[c] = "accepted"
    /\ conn' = [conn EXCEPT ![c] = "listed"]
    /\ acceptor' = IF accepting THEN "accept" ELSE "gone"
    /\ UNCHANGED <<accepting, closer, wire>>

\* Under m_mutex: each listed client gets the message, or a part of it and
\* is closed.
Listed == {c \in Clients : conn[c] = "listed"}
KeptListed(c) == "listed"
Kept(c) == "closed"

Publish(message) ==
    \E failing \in SUBSET Listed :
        /\ wire' = [c \in Clients |->
                       CASE c \in failing -> Append(wire[c], Cut)
                         [] c \in Listed \ failing -> Append(wire[c], message)
                         [] OTHER -> wire[c]]
        /\ conn' = [c \in Clients |-> IF c \in failing THEN Kept(c) ELSE conn[c]]
        /\ UNCHANGED <<accepting, acceptor, closer>>

\* stop(): m_running is cleared, then the listening socket shut down, which
\* makes accept() fail; the accept thread is joined before the clients are
\* closed.
PublisherStops ==
    /\ accepting /\ closer = "out"
    /\ accepting' = FALSE
    /\ closer' = "socket"
    /\ UNCHANGED <<acceptor, conn, wire>>

CloseSocket ==
    /\ closer = "socket"
    /\ closer' = "join"
    /\ conn' = [c \in Clients |-> IF conn[c] = "backlog" THEN "closed" ELSE conn[c]]
    /\ UNCHANGED <<accepting, acceptor, wire>>

AcceptFails ==
    /\ acceptor = "accept"
    /\ closer \in {"join", "done"}
    /\ acceptor' = "gone"
    /\ UNCHANGED <<accepting, closer, conn, wire>>

AcceptorJoined == acceptor = "gone"

CloseClients ==
    /\ closer = "join"
    /\ AcceptorJoined
    /\ closer' = "done"
    /\ conn' = [c \in Clients |-> IF conn[c] = "listed" THEN "closed" ELSE conn[c]]
    /\ UNCHANGED <<accepting, acceptor, wire>>

NextButPublish ==
    \/ \E c \in Clients : Connect(c) \/ Accept(c) \/ Register(c)
    \/ PublisherStops \/ CloseSocket \/ AcceptFails \/ CloseClients

-----------------------------------------------------------------------------
PublisherTypeOK ==
    /\ accepting \in BOOLEAN
    /\ acceptor \in {"accept", "register", "gone"}
    /\ closer \in {"out", "socket", "join", "done"}
    /\ conn \in [Clients -> Connections]

\* A consumer can cut the stream into messages: after a part of a message
\* nothing more is sent on that connection, and whole messages come in the
\* order of the frames, no frame twice.
WireIsReadable ==
    \A c \in Clients : \A i, j \in DOMAIN wire[c] :
        i < j => /\ wire[c][i] # Cut
                 /\ wire[c][j] # Cut => wire[c][i] < wire[c][j]

\* stop() leaves no connection open, however late it was accepted.
NoClientLeft ==
    closer = "done" => \A c \in Clients : conn[c] \notin {"accepted", "listed"}
=============================================================================
