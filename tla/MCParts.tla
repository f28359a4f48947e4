------------------------------ MODULE MCParts -------------------------------
(***************************************************************************)
(* For TLC, parts that share no state: the order book, the message codec,  *)
(* the transport, and the chaos runs' checker and simulator.  A behaviour  *)
(* runs the one that part names; the others keep their initial states.     *)
(***************************************************************************)
EXTENDS Integers, Sequences

CONSTANTS
    Radix,
    Price, Qty, MaxOrders, MaxSeq,
    kMaxPayloadSize,
    kLengthPrefixSize, kMaxFrameSize, Client, Peer, Splitting, Bad, MaxDials,
    Caller, MaxOps, MaxMs,
    Node, Endpoint, FaultEnd, MaxTime, FirstFault, Gap, Down, Latency, Extra, Quiet, Settle, MaxSends

VARIABLES part, machine, reference, slot,
          conn, conns, routes, io, running, dialer, owed, astray,
          history, nowMs,
          pc, now, events, draw, nextEvent, healed, alive, net, queue, sent, heard

(* Client 1's order asks at 1, so that it crosses every bid.               *)
SessionOrder == {[op |-> "new", side |-> 1, price |-> 1, qty |-> 2, id |-> 0]}
Book == INSTANCE OrderBook

(* Every type of message, and AppendEntries with 0 and 2 entries.          *)
Sample ==
    {[type |-> "RequestVote", term |-> 9, candidateId |-> 2, lastLogIndex |-> 3, lastLogTerm |-> 1],
     [type |-> "RequestVoteReply", term |-> 2, voteGranted |-> TRUE],
     [type |-> "AppendEntriesReply", term |-> 2, success |-> FALSE, conflictIndex |-> 8, conflictTerm |-> 1],
     [type |-> "ClientRequest", clientId |-> 1, seqNo |-> 3, command |-> <<1>>],
     [type |-> "ClientReply", status |-> 2, leaderHint |-> 1, result |-> <<2, 0>>]}
    \cup {[type |-> "AppendEntries", term |-> 2, leaderId |-> 1, prevLogIndex |-> 1, prevLogTerm |-> 1,
           leaderCommit |-> 1, entries |-> es] :
              es \in {<<>>,
                      <<[term |-> 1, command |-> <<3>>], [term |-> 2, command |-> <<>>]>>}}
Rpc == INSTANCE Messages

(* Two clients, one that sends twice, a node that sends two frames.        *)
Load == {<<1, 1, 0>>, <<2, 0, 0>>, <<0, 0, 2>>}
Net == INSTANCE Transport

(* Operations on two keys, each with results it may have been given.       *)
Observed ==
    LET op(type, key, arg) == [type |-> type, key |-> key, arg |-> arg, expect |-> <<>>]
        told(o, results) == {<<o, r>> : r \in results}
    IN  told(op("put", 1, <<1>>), {<<"O">>}) \cup told(op("append", 1, <<2>>), {<<"O", <<1, 2>>>>})
        \cup told(op("get", 1, <<>>), {<<"N">>, <<"O", <<1>>>>})
        \cup told(op("delete", 1, <<>>), {<<"N">>, <<"O">>})
        \cup told(op("cas", 1, <<1>>), {<<"F">>, <<"O">>})
        \cup told(op("get", 2, <<>>), {<<"N">>})
Checker == INSTANCE Linearizability

Chaos == INSTANCE Simulator

book == <<machine, reference>>
wires == <<conn, conns, routes, io, running, dialer, owed, astray>>
record == <<history, nowMs>>
simulation == <<pc, now, events, draw, nextEvent, healed, alive, net, queue, sent, heard>>
vars == <<part, book, slot, wires, record, simulation>>

Init ==
    /\ part \in {"book", "rpc", "net", "checker", "chaos"}
    /\ Book!Init /\ Rpc!Init /\ Net!Init /\ Checker!Init /\ Chaos!Init
    /\ part # "net" => dialer[1].sends = 2     \* one load, and one
    /\ part # "chaos" => draw = 0              \* schedule, will do

BookStep == part = "book" /\ Book!Next /\ UNCHANGED <<slot, wires, record, simulation>>
RpcStep == part = "rpc" /\ Rpc!Next /\ UNCHANGED <<book, wires, record, simulation>>
NetStep == part = "net" /\ Net!Next /\ UNCHANGED <<book, slot, record, simulation>>
CheckerStep == part = "checker" /\ Checker!Next /\ UNCHANGED <<book, slot, wires, simulation>>
ChaosStep == part = "chaos" /\ Chaos!Next /\ UNCHANGED <<book, slot, wires, record>>

Next == (BookStep \/ RpcStep \/ NetStep \/ CheckerStep \/ ChaosStep) /\ UNCHANGED part
Spec == Init /\ [][Next]_vars

(* What apply() of the order book answers is price-time priority.          *)
PriceTime == part = "book" => Book!PriceTime

(* deserialize() of the order book undoes serialize() and no more.         *)
SnapshotExact == part = "book" => Book!SnapshotExact

(* decodeMessageInto() shows nothing of the slot's earlier contents.       *)
OnlyEncodingsDecode == part = "rpc" => Rpc!OnlyEncodingsDecode

(* sendFrame() answers a client on a connection of that client.            *)
RepliesGoHome == part = "net" => Net!RepliesGoHome

(* The transport's handler gets whole frames, in order, once.              *)
FramesIntact == part = "net" => Net!FramesIntact

(* checkLinearizable() passes the linearizable histories and no other.     *)
CheckerIsExact == part = "checker" => Checker!CheckerIsExact

(* The simulator's faults hold while they last, and all of them end.       *)
FaultsHoldAndEnd == part = "chaos" => Chaos!FaultsHoldAndEnd
=============================================================================
