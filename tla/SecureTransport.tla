--------------------------- MODULE SecureTransport ---------------------------
(***************************************************************************)
(* What CFNetwork relies on in a Secure Transport context: the states that *)
(* SSLGetSessionState reports, and a stream that is handed over whole, in  *)
(* order, and only under a finished handshake.  A failure stays visible    *)
(* until the context is closed.  The end of the stream is told after all   *)
(* that came before it, as graceful only if the peer announced it.         *)
(***************************************************************************)
EXTENDS Naturals

CONSTANTS
    Contexts,
    RecordSize  \* bytes of a record

VARIABLES
    phase,     \* SSLGetSessionState
    secured,   \* a handshake has completed
    sent,      \* bytes the peer sent on this connection that are not lost
    received,  \* bytes SSLRead handed over
    peer,      \* "open", "notified" (it sent close_notify) or "gone"
    ending     \* what SSLRead told of the end: "none", "graceful" or "abort"

vars == <<phase, secured, sent, received, peer, ending>>

Init ==
    /\ phase = [c \in Contexts |-> "idle"]
    /\ secured = [c \in Contexts |-> FALSE]
    /\ sent = [c \in Contexts |-> 0]
    /\ received = [c \in Contexts |-> 0]
    /\ peer = [c \in Contexts |-> "open"]
    /\ ending = [c \in Contexts |-> "none"]

Begin(c) ==
    /\ phase[c] = "idle"
    /\ phase' = [phase EXCEPT ![c] = "handshake"]
    /\ UNCHANGED <<secured, sent, received, peer, ending>>

Fail(c) ==
    /\ ~secured[c]
    /\ phase' = [phase EXCEPT ![c] = "closed"]
    /\ UNCHANGED <<secured, sent, received, peer, ending>>

Connect(c) ==
    /\ phase[c] \in {"handshake", "closed"}
    /\ ~secured[c]
    /\ phase' = [phase EXCEPT ![c] = IF @ = "handshake" THEN "connected" ELSE @]
    /\ secured' = [secured EXCEPT ![c] = TRUE]
    /\ UNCHANGED <<sent, received, peer, ending>>

Send(c) ==
    /\ secured[c] /\ peer[c] = "open"
    /\ sent' = [sent EXCEPT ![c] = @ + RecordSize]
    /\ UNCHANGED <<phase, secured, received, peer, ending>>

\* A connection that breaks may take with it what arrived and was not read.
PeerEnds(c, how) ==
    /\ peer[c] = "open"
    /\ \E kept \in received[c]..sent[c] :
          /\ how = "notified" => kept = sent[c]
          /\ sent' = [sent EXCEPT ![c] = kept]
    /\ peer' = [peer EXCEPT ![c] = how]
    /\ UNCHANGED <<phase, secured, received, ending>>

Receive(c) ==
    /\ secured[c] /\ ending[c] = "none"
    /\ \E n \in (received[c] + 1)..sent[c] : received' = [received EXCEPT ![c] = n]
    /\ UNCHANGED <<phase, secured, sent, peer, ending>>

TellEnd(c) ==
    /\ secured[c]
    /\ received[c] = sent[c]
    /\ \/ peer[c] = "notified" /\ ending' = [ending EXCEPT ![c] = "graceful"]
       \/ peer[c] = "gone" /\ ending' = [ending EXCEPT ![c] = "abort"]
    /\ UNCHANGED <<phase, secured, sent, received, peer>>

\* SSLClose: the context may be used for another connection.
Close(c) ==
    /\ phase' = [phase EXCEPT ![c] = "idle"]
    /\ secured' = [secured EXCEPT ![c] = FALSE]
    /\ sent' = [sent EXCEPT ![c] = 0]
    /\ received' = [received EXCEPT ![c] = 0]
    /\ peer' = [peer EXCEPT ![c] = "open"]
    /\ ending' = [ending EXCEPT ![c] = "none"]

Next ==
    \E c \in Contexts :
        \/ Begin(c) \/ Fail(c) \/ Connect(c) \/ Close(c)
        \/ Send(c) \/ Receive(c) \/ TellEnd(c)
        \/ \E how \in {"notified", "gone"} : PeerEnds(c, how)

Spec == Init /\ [][Next]_vars
=============================================================================
