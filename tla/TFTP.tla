------------------------------- MODULE TFTP -------------------------------
(***************************************************************************)
(* The TFTP client of include/network/protocols/TFTP.hpp: a thread calls   *)
(* request for one file after the other and sleeps in semaphore_.p();      *)
(* update runs in the worker of the network device (NetworkDevice.cpp).    *)
(* The link keeps the order of its frames and may lose any of them.  The   *)
(* server is not part of the repository: it answers RRQ with OACK or       *)
(* ERROR, sends a block when the one before is acknowledged, and repeats   *)
(* its last packet on a timeout, early or late.                            *)
(***************************************************************************)
EXTENDS Integers, Sequences, SequencesExt

CONSTANTS
  Requests,    \* bound: calls of request, 1..Requests
  Size,        \* [1..Requests -> Nat] length of each file
  BufferSize,  \* [1..Requests -> Nat] buffer_size_ of each call
  BlockSize,   \* k_blksize_int (1468)
  MinLength,   \* what a DATA packet holds in the shortest Ethernet frame (14)
  Modulus,     \* 2^16: block numbers are uint16_t
  Capacity,    \* bound: frames under way in each direction
  MaxPermits   \* bound: value of semaphore_ that the model tells apart

ASSUME TFTPAssumption ==
  /\ Requests \in Nat /\ {Size, BufferSize} \subseteq [1..Requests -> Nat]
  /\ MinLength \in Nat /\ BlockSize \in Nat /\ MinLength < BlockSize
  /\ Modulus \in Nat \ {0, 1} /\ Capacity \in Nat \ {0} /\ MaxPermits \in Nat \ {0}

VARIABLES
  call,      \* number of the call of request that began last
  caller,    \* control point of the calling thread
  buffer,    \* what the caller's buffer holds
  received,  \* received_
  block,     \* block_
  done,      \* done_
  error,     \* error_
  permits,   \* value of semaphore_
  copying,   \* DATA packet that onData has acknowledged and not yet copied
  toClient, toServer,  \* frames under way
  server,    \* [1..Requests] the server's connection: "off", "on" or "over"
  sent,      \* [1..Requests] block it sent last; 0: the OACK
  result,    \* [1..Requests] what the call returned: the buffer's contents
  disturbed       \* an acknowledgement was lost, or a call failed (history)

transfer == <<received, block, done, error, permits, buffer, copying>>
link == <<toClient, toServer>>
servers == <<server, sent>>
vars == <<call, caller, transfer, link, servers, result, disturbed>>

Nothing == [op |-> "none"]
Pending == <<"pending">>
Padding == <<0, 0>>

Init ==
  /\ call = 0
  /\ caller = "out"
  /\ buffer = <<>>
  /\ received = 0
  /\ block \in 0..(Modulus - 1)  \* not initialised by the constructor
  /\ done = TRUE
  /\ error \in BOOLEAN           \* neither is error_
  /\ permits = 0
  /\ copying = Nothing
  /\ toClient = <<>>
  /\ toServer = <<>>
  /\ server = [r \in 1..Requests |-> "off"]
  /\ sent = [r \in 1..Requests |-> 0]
  /\ result = [r \in 1..Requests |-> Pending]
  /\ disturbed = FALSE

-----------------------------------------------------------------------------
(* Files, packets and the link.                                            *)

File(r) == [i \in 1..Size[r] |-> <<r, i>>]
Blocks(r) == Size[r] \div BlockSize + 1

\* The bytes of block b, as the client counts them: update takes the length
\* of the frame, in which Ethernet has padded short packets.
Bytes(r, b) ==
  LET bytes == SubSeq(File(r), (b - 1) * BlockSize + 1,
                      IF b < Blocks(r) THEN b * BlockSize ELSE Size[r])
  IN bytes \o [i \in 1..(MinLength - Len(bytes)) |-> Padding]

Data(r, b) == [op |-> "DATA", from |-> r, block |-> b % Modulus, bytes |-> Bytes(r, b)]
Packet(r, b) == IF b = 0 THEN [op |-> "OACK", from |-> r] ELSE Data(r, b)

\* A frame that finds the link full is lost.
Put(queue, packet) == IF Len(queue) < Capacity THEN Append(queue, packet) ELSE queue

\* TFTP::ack: to the port that the packet came from.
Ack(number, to) ==
  /\ toServer' = Put(toServer, [op |-> "ACK", block |-> number, to |-> to])
  /\ disturbed' = (disturbed \/ Len(toServer) = Capacity)

V == permits' = IF permits < MaxPermits THEN permits + 1 ELSE permits

-----------------------------------------------------------------------------
(* TFTP::request.                                                          *)

Goto(l) == caller' = l

\* request: buffer_, buffer_size_ and received_.
Begin ==
  /\ caller = "out" /\ call < Requests
  /\ call' = call + 1
  /\ buffer' = <<>>
  /\ received' = 0
  /\ Goto("block")
  /\ UNCHANGED <<block, done, error, permits, copying, link, servers, result, disturbed>>

ResetBlock ==
  /\ caller = "block"
  /\ block' = 1
  /\ Goto("done")
  /\ UNCHANGED <<call, received, done, error, permits, buffer, copying, link,
                 servers, result, disturbed>>

ResetDone ==
  /\ caller = "done"
  /\ done' = FALSE
  /\ Goto("error")
  /\ UNCHANGED <<call, received, block, error, permits, buffer, copying, link,
                 servers, result, disturbed>>

ResetError ==
  /\ caller = "error"
  /\ error' = FALSE
  /\ Goto("send")
  /\ UNCHANGED <<call, received, block, done, permits, buffer, copying, link,
                 servers, result, disturbed>>

\* The RRQ, sent once.
SendRequest ==
  /\ caller = "send"
  /\ toServer' = Put(toServer, [op |-> "RRQ", to |-> call])
  /\ Goto("wait")
  /\ UNCHANGED <<call, transfer, toClient, servers, result, disturbed>>

\* semaphore_.p(), and the return of received_ bytes, or of none after an error.
Return ==
  /\ caller = "wait" /\ permits > 0
  /\ permits' = permits - 1
  /\ result' = [result EXCEPT ![call] = IF error THEN <<>> ELSE SubSeq(buffer, 1, received)]
  /\ disturbed' = (disturbed \/ error)
  /\ Goto("out")
  /\ UNCHANGED <<call, received, block, done, error, buffer, copying, link, servers>>

-----------------------------------------------------------------------------
(* TFTP::update, in the worker: one packet after the other.                *)

\* The worker takes the next packet.
Take(op) ==
  /\ copying = Nothing
  /\ toClient # <<>> /\ Head(toClient).op = op
  /\ toClient' = Tail(toClient)

OnOack ==
  /\ Take("OACK")
  /\ Ack(0, Head(toClient).from)
  /\ UNCHANGED <<call, caller, transfer, servers, result>>

\* onError: done_ stays as it is.
OnErrorPacket ==
  /\ Take("ERROR")
  /\ error' = TRUE
  /\ V
  /\ disturbed' = TRUE
  /\ UNCHANGED <<call, caller, received, block, done, buffer, copying, toServer,
                 servers, result>>

\* Mutant: any block is taken for the one that is expected.
OnDataAnyBlock ==
  /\ Take("DATA")
  /\ LET p == Head(toClient)
     IN \/ /\ done
           /\ UNCHANGED <<transfer, toServer, disturbed>>
        \/ /\ ~done
           /\ block' = (block + 1) % Modulus
           /\ Ack(p.block, p.from)
           /\ copying' = p
           /\ UNCHANGED <<received, done, error, permits, buffer>>
  /\ UNCHANGED <<call, caller, servers, result>>

\* Mutant: a block that is not the expected one is not acknowledged again.
OnDataNoRepeat ==
  /\ Take("DATA")
  /\ LET p == Head(toClient)
     IN \/ /\ done \/ p.block # block
           /\ UNCHANGED <<transfer, toServer, disturbed>>
        \/ /\ ~done /\ p.block = block
           /\ block' = (block + 1) % Modulus
           /\ Ack(p.block, p.from)
           /\ copying' = p
           /\ UNCHANGED <<received, done, error, permits, buffer>>
  /\ UNCHANGED <<call, caller, servers, result>>

\* onData up to memcpy: a block of a finished transfer is ignored, one that
\* does not fit is an error, one that is not expected repeats the last
\* acknowledgement.
OnData ==
  /\ Take("DATA")
  /\ LET p == Head(toClient)
         fits == received + Len(p.bytes) <= BufferSize[call]
     IN \/ /\ done
           /\ UNCHANGED <<transfer, toServer, disturbed>>
        \/ /\ ~done /\ ~fits
           /\ error' = TRUE
           /\ V
           /\ disturbed' = TRUE
           /\ UNCHANGED <<received, block, done, buffer, copying, toServer>>
        \/ /\ ~done /\ fits /\ p.block # block
           /\ Ack((block + Modulus - 1) % Modulus, p.from)
           /\ UNCHANGED transfer
        \/ /\ ~done /\ fits /\ p.block = block
           /\ block' = (block + 1) % Modulus
           /\ Ack(p.block, p.from)
           /\ copying' = p
           /\ UNCHANGED <<received, done, error, permits, buffer>>
  /\ UNCHANGED <<call, caller, servers, result>>

\* The rest of onData: a short block is the last one.
Copy ==
  /\ copying # Nothing
  /\ buffer' = SubSeq(buffer, 1, received) \o copying.bytes
  /\ received' = received + Len(copying.bytes)
  /\ copying' = Nothing
  /\ \/ /\ Len(copying.bytes) < BlockSize
        /\ done' = TRUE
        /\ V
     \/ /\ Len(copying.bytes) >= BlockSize
        /\ UNCHANGED <<done, permits>>
  /\ UNCHANGED <<call, caller, block, error, link, servers, result, disturbed>>

-----------------------------------------------------------------------------
(* The server and the link.                                                *)

\* The server takes the next packet of connection r.
Arrives(r, op) ==
  /\ toServer # <<>> /\ Head(toServer).op = op /\ Head(toServer).to = r
  /\ toServer' = Tail(toServer)

ServerOpens(r) ==
  /\ Arrives(r, "RRQ")
  /\ \/ /\ server' = [server EXCEPT ![r] = "on"]
        /\ toClient' = Put(toClient, Packet(r, 0))
     \/ /\ server' = [server EXCEPT ![r] = "over"]
        /\ toClient' = Put(toClient, [op |-> "ERROR", from |-> r])
  /\ UNCHANGED <<call, caller, transfer, sent, result, disturbed>>

ServerAcked(r) ==
  /\ Arrives(r, "ACK")
  /\ LET number == Head(toServer).block
     IN \/ /\ server[r] = "on" /\ number = sent[r] % Modulus
           /\ \/ /\ sent[r] = Blocks(r)
                 /\ server' = [server EXCEPT ![r] = "over"]
                 /\ UNCHANGED <<sent, toClient>>
              \/ /\ sent[r] < Blocks(r)
                 /\ sent' = [sent EXCEPT ![r] = @ + 1]
                 /\ toClient' = Put(toClient, Packet(r, sent[r] + 1))
                 /\ UNCHANGED server
        \/ /\ ~(server[r] = "on" /\ number = sent[r] % Modulus)
           /\ UNCHANGED <<servers, toClient>>
  /\ UNCHANGED <<call, caller, transfer, result, disturbed>>

Timeout(r) ==
  /\ server[r] = "on" /\ Len(toClient) < Capacity
  /\ toClient' = Append(toClient, Packet(r, sent[r]))
  /\ UNCHANGED <<call, caller, transfer, toServer, servers, result, disturbed>>

\* A server that is not answered gives up, not before the call has returned.
GiveUp(r) ==
  /\ server[r] = "on" /\ result[r] # Pending
  /\ server' = [server EXCEPT ![r] = "over"]
  /\ UNCHANGED <<call, caller, transfer, link, sent, result, disturbed>>

LoseToClient ==
  /\ toClient # <<>>
  /\ toClient' = Tail(toClient)
  /\ UNCHANGED <<call, caller, transfer, toServer, servers, result, disturbed>>

LoseToServer ==
  /\ toServer # <<>>
  /\ toServer' = Tail(toServer)
  /\ disturbed' = (disturbed \/ Head(toServer).op = "ACK")
  /\ UNCHANGED <<call, caller, transfer, toClient, servers, result>>

-----------------------------------------------------------------------------
CallerStep ==
  Begin \/ ResetBlock \/ ResetDone \/ ResetError \/ SendRequest \/ Return

WorkerStep == OnOack \/ OnErrorPacket \/ OnData \/ Copy

Next ==
  \/ CallerStep
  \/ WorkerStep
  \/ \E r \in 1..Requests : ServerOpens(r) \/ ServerAcked(r) \/ Timeout(r) \/ GiveUp(r)
  \/ LoseToClient
  \/ LoseToServer

Spec == Init /\ [][Next]_vars

\* The threads run, and the server repeats its packets until it gives up; of
\* the packets that a connection repeats for ever, some are not lost.
Fairness ==
  /\ WF_vars(CallerStep) /\ WF_vars(WorkerStep)
  /\ \A r \in 1..Requests :
       /\ WF_vars(Timeout(r)) /\ WF_vars(GiveUp(r))
       /\ SF_vars(ServerAcked(r))
       /\ SF_vars((OnOack \/ OnData) /\ Head(toClient).from = r)

FairSpec == Spec /\ Fairness

-----------------------------------------------------------------------------
\* What a complete transfer leaves in the buffer: the file, and the padding of
\* a last packet that is shorter than an Ethernet frame.
Stored(r) == File(r) \o [i \in 1..(MinLength - (Size[r] % BlockSize)) |-> Padding]

\* A call returns the file it asked for.  As long as no acknowledgement is
\* lost, no call has failed and the last block of no earlier file is numbered
\* 1 like the first of the next, the buffer holds a prefix of the file at every
\* moment, whatever packets are lost or repeated, the permit of semaphore_ is
\* that of the transfer that has just ended, no block is copied into a buffer
\* after the call that owns it has returned, and what the call returns is the
\* whole file (TFTP.hpp:65-70, 98-126).  Outside of these conditions a block
\* of an earlier connection may be taken for one of this (no port is checked),
\* and a permit that an error has left ends the next call at once.
CleanTransfers ==
  ~disturbed /\ (\A r \in 1..(call - 1) : Blocks(r) % Modulus # 1) =>
    /\ \A r \in 1..Requests : result[r] # Pending => result[r] = Stored(r)
    /\ permits = (IF done /\ caller = "wait" THEN 1 ELSE 0)
    /\ copying # Nothing => caller = "wait"
    /\ caller = "wait" => IsPrefix(buffer, Stored(call))

\* Once the server has taken up a request, the call returns, whatever packets
\* of the transfer are lost (TFTP.hpp:65, 98-126), unless an earlier call has
\* failed: a full block of its connection, taken for the one expected now,
\* leaves client and server with different block numbers for ever.  (A lost
\* RRQ is not repeated.)
RequestReturns ==
  \A r \in 1..Requests :
    server[r] = "on" ~> \/ result[r] # Pending
                        \/ \E q \in 1..(r - 1) : result[q] = <<>>
=============================================================================
