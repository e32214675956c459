----------------------------- MODULE TFTPProofs -----------------------------
(***************************************************************************)
(* TFTP::Client::receive for any files, any size of the blocks, any number *)
(* of block numbers and any sequence of calls: while nothing is lost, late *)
(* or refused, the caller's buffer is the file.  The invariant says what   *)
(* may be under way when the client has taken p blocks of this call.  The  *)
(* server has sent p of them or p + 1.  The client may find the last block *)
(* of the call before (only while p = 0), block p again, and then p + 1;   *)
(* the server may find acknowledgements of p - 1 and then of p.  Numbers   *)
(* modulo Modulus tell these apart, so onReply takes the expected one.     *)
(***************************************************************************)
EXTENDS TFTP, SequenceTheorems, TLAPS

-----------------------------------------------------------------------------
(* The caller's buffer.                                                    *)

\* What a file leaves after b blocks: so many cells.
Length(r, b) == IF b < Blocks(r) THEN b * BlockSize ELSE Len(Stored(r))
Cell(r, i) == IF i <= Size[r] THEN <<r, i>> ELSE Padding
Part(r, n) == [i \in 1..n |-> Cell(r, i)]
Contents(r, b) == Part(r, Length(r, b))

-----------------------------------------------------------------------------
(* What may be under way when the client has taken p blocks of call c and  *)
(* the server has sent s.                                                   *)

Errors == {[op |-> "ERROR", from |-> r] : r \in 1..Requests}
Packets == Errors \cup {Packet(r, b) : r \in 1..Requests, b \in Nat}
Rrqs == {[op |-> "RRQ", to |-> r] : r \in 1..Requests}
Acks == [op : {"ACK"}, block : 0..(Modulus - 1), to : 1..Requests]

\* The last block of the call before may still come, before any packet of this.
IsLate(f, c, p) == c > 1 /\ p = 0 /\ f = Packet(c - 1, Blocks(c - 1))
IsOld(f, c, p) == f = Packet(c, p)
IsNew(f, c, p) == f = Packet(c, p + 1)

ClientQueue(q, c, p, s, state) ==
  /\ q \in Seq(Packets)
  /\ \A i \in 1..Len(q) :
       \/ q[i].op = "ERROR"
       \/ IsLate(q[i], c, p)
       \/ state # "off" /\ IsOld(q[i], c, p)
       \/ state # "off" /\ s = p + 1 /\ IsNew(q[i], c, p)
  /\ \A i, j \in 1..Len(q) : i < j =>
       /\ IsOld(q[i], c, p) =>
            q[j].op = "ERROR" \/ IsOld(q[j], c, p) \/ IsNew(q[j], c, p)
       /\ IsNew(q[i], c, p) => q[j].op = "ERROR" \/ IsNew(q[j], c, p)

IsAck(f, r, b) == f.op = "ACK" /\ f.to = r /\ b >= 0 /\ f.block = b % Modulus

ServerQueue(q, c, p, s, state, where) ==
  /\ q \in Seq(Rrqs \cup Acks)
  /\ \A i \in 1..Len(q) :
       \/ q[i].op = "RRQ" /\ q[i].to = c /\ state = "off" /\ where = "wait"
       \/ q[i].op = "ACK" /\ q[i].to < c
       \/ state # "off" /\ IsAck(q[i], c, p)
       \/ state # "off" /\ s = p /\ IsAck(q[i], c, p - 1)
  /\ \A i, j \in 1..Len(q) : i < j =>
       /\ q[i].op = "RRQ" => q[j].op # "RRQ"
       /\ IsAck(q[i], c, p) => ~IsAck(q[j], c, p - 1)

\* The last acknowledgement of call r is under way, before any request.
LastAck(q, r) ==
  \E i \in 1..Len(q) :
    /\ IsAck(q[i], r, Blocks(r))
    /\ \A j \in 1..i : q[j].op # "RRQ"

Connections(c, p) ==
  /\ server \in [1..Requests -> {"off", "on", "over"}]
  /\ sent \in [1..Requests -> Nat]
  /\ \A r \in 1..Requests :
       /\ r > c => server[r] = "off"
       /\ server[r] = "off" => sent[r] = 0
       /\ r < c - 1 => server[r] # "on"
  /\ p \in 0..Blocks(c) /\ sent[c] \in {p, p + 1} /\ sent[c] <= Blocks(c)
  /\ p = Blocks(c) /\ server[c] = "on" => LastAck(toServer, c)
  /\ c > 1 /\ server[c - 1] = "on" =>
       /\ server[c] = "off" /\ sent[c - 1] = Blocks(c - 1)
       /\ LastAck(toServer, c - 1)

Begun == {"block", "done", "error", "send"}

Client(c, p) ==
  /\ caller \in Begun \cup {"wait", "out"}
  /\ caller = "out" =>
       done /\ permits = 0 /\ copying = Nothing /\ p = Blocks(c)
  /\ caller \in Begun =>
       /\ p = 0 /\ server[c] = "off" /\ permits = 0 /\ copying = Nothing
       /\ buffer = <<>> /\ received = 0
       /\ caller # "block" => block = 1
       /\ done <=> caller \in {"block", "done"}
       /\ caller = "send" => ~error
  /\ caller = "wait" =>
       /\ ~error
       /\ block = (p + 1) % Modulus
       /\ received = Len(buffer)
       /\ done <=> p = Blocks(c) /\ copying = Nothing
       /\ permits = IF done THEN 1 ELSE 0
       /\ \/ copying = Nothing /\ buffer = Contents(c, p)
          \/ p > 0 /\ copying = Data(c, p) /\ buffer = Contents(c, p - 1)

Results(c) ==
  /\ DOMAIN result = 1..Requests
  /\ \A r \in 1..Requests :
       result[r] # Pending =>
         (r < c \/ (r = c /\ caller = "out")) /\ result[r] = Stored(r)

Progress(p) ==
  /\ Connections(call, p)
  /\ Client(call, p)
  /\ ClientQueue(toClient, call, p, sent[call], server[call])
  /\ ServerQueue(toServer, call, p, sent[call], server[call], caller)
  /\ Len(toServer) <= Capacity
  /\ Results(call)

Fresh ==
  /\ call = 0 /\ caller = "out"
  /\ done /\ permits = 0 /\ copying = Nothing
  /\ toClient = <<>> /\ toServer = <<>>
  /\ server = [r \in 1..Requests |-> "off"]
  /\ sent = [r \in 1..Requests |-> 0]
  /\ result = [r \in 1..Requests |-> Pending]

Clean == ~disturbed /\ \A r \in 1..(call - 1) : Blocks(r) % Modulus # 1

TransferInvariant ==
  /\ call \in 0..Requests
  /\ Clean => Fresh \/ (call # 0 /\ \E p \in Nat : Progress(p))

-----------------------------------------------------------------------------
(* Files and blocks.                                                       *)

Cells == Nat \X Nat

\* The first cells of a sequence.
LEMMA FirstCells ==
  ASSUME NEW S, NEW s \in Seq(S), NEW n \in Nat, n <= Len(s)
  PROVE  /\ SubSeq(s, 1, n) \in Seq(S) /\ Len(SubSeq(s, 1, n)) = n
         /\ \A i \in 1..n : SubSeq(s, 1, n)[i] = s[i]
<1>1. \A i \in 1..n : s[i] \in S
  <2>1. Len(s) \in Nat /\ \A i \in 1..Len(s) : s[i] \in S
    BY ElementOfSeq, LenProperties
  <2> QED BY <2>1
<1>2. /\ SubSeq(s, 1, n) \in Seq(S)
      /\ Len(SubSeq(s, 1, n)) = IF 1 <= n THEN n - 1 + 1 ELSE 0
      /\ \A i \in 1..(n - 1 + 1) : SubSeq(s, 1, n)[i] = s[1 + i - 1]
  BY <1>1, SubSeqProperties
<1> DEFINE q == SubSeq(s, 1, n)
<1> HIDE DEF q
<1>3. /\ q \in Seq(S) /\ Len(q) = IF 1 <= n THEN n - 1 + 1 ELSE 0
      /\ \A i \in 1..(n - 1 + 1) : q[i] = s[1 + i - 1]
  BY <1>2 DEF q
<1>4. Len(q) = n
  BY <1>3
<1>5. ASSUME NEW i \in 1..n  PROVE q[i] = s[i]
  <2>1. i \in 1..(n - 1 + 1) /\ 1 + i - 1 = i
    OBVIOUS
  <2> QED BY <1>3, <2>1
<1> QED BY <1>3, <1>4, <1>5 DEF q

\* A file is its full blocks and a shorter one.
LEMMA FileBlocks ==
  ASSUME TFTPAssumption, NEW r \in 1..Requests
  PROVE  /\ Size[r] \in Nat /\ Blocks(r) \in Nat \ {0}
         /\ Size[r] % BlockSize \in 0..(BlockSize - 1)
         /\ (Blocks(r) - 1) * BlockSize \in Nat
         /\ Size[r] = (Blocks(r) - 1) * BlockSize + (Size[r] % BlockSize)
<1> DEFINE z == Size[r]
<1>1. z \in Nat /\ BlockSize \in Nat \ {0}
  BY DEF TFTPAssumption
<1>2. Blocks(r) = z \div BlockSize + 1
  BY DEF Blocks
<1> HIDE DEF z
<1>3. /\ z % BlockSize \in 0..(BlockSize - 1) /\ z \div BlockSize \in Int
      /\ z = BlockSize * (z \div BlockSize) + (z % BlockSize)
  BY <1>1
<1>4. PICK d \in Int : d = z \div BlockSize
  BY <1>3
<1>5. PICK e \in 0..(BlockSize - 1) : e = z % BlockSize
  BY <1>3
<1>6. z = BlockSize * d + e
  BY <1>3, <1>4, <1>5
<1>7. d >= 0
  <2>1. PICK y \in Int : y = BlockSize * d
    BY <1>1
  <2>2. d <= -1 => y <= -BlockSize
    BY <1>1, <2>1
  <2>3. y + e >= 0
    BY <1>1, <1>6, <2>1
  <2> QED BY <1>1, <1>5, <2>2, <2>3
<1>8. BlockSize * d = d * BlockSize /\ d * BlockSize \in Nat
  BY <1>1, <1>7
<1>9. Blocks(r) = d + 1
  BY <1>2, <1>4
<1>10. (d + 1) - 1 = d
  OBVIOUS
<1>11. z = d * BlockSize + e
  BY <1>6, <1>8
<1> QED BY <1>1, <1>5, <1>7, <1>8, <1>9, <1>10, <1>11 DEF z

\* Full blocks end where the next one begins, inside the file.
LEMMA FullBlocks ==
  ASSUME TFTPAssumption, NEW r \in 1..Requests, NEW b \in 1..Blocks(r)
  PROVE  /\ (b - 1) * BlockSize \in Nat
         /\ b * BlockSize = (b - 1) * BlockSize + BlockSize
         /\ b < Blocks(r) => b * BlockSize <= Size[r]
<1>1. BlockSize \in Nat \ {0} /\ b \in Nat /\ b >= 1
  BY FileBlocks DEF TFTPAssumption
<1>2. b * BlockSize = (b - 1) * BlockSize + BlockSize
  BY <1>1
<1>3. (b - 1) * BlockSize \in Nat
  BY <1>1
<1>4. ASSUME b < Blocks(r)  PROVE b * BlockSize <= Size[r]
  <2>1. PICK a \in Nat : Blocks(r) - 1 = b + a
    <3>1. PICK n \in Nat : n = Blocks(r)
      BY FileBlocks
    <3>2. n - 1 - b \in Nat /\ n - 1 = b + (n - 1 - b)
      BY <1>1, <1>4, <3>1
    <3> QED BY <3>1, <3>2
  <2>2. (b + a) * BlockSize = b * BlockSize + a * BlockSize /\ a * BlockSize >= 0
    BY <1>1
  <2>3. PICK e \in 0..(BlockSize - 1) : Size[r] = (b + a) * BlockSize + e
    BY <2>1, FileBlocks
  <2>4. PICK x \in Int, y \in Nat : x = b * BlockSize /\ y = a * BlockSize
    BY <1>1
  <2>5. Size[r] = x + y + e
    BY <2>2, <2>3, <2>4, Zenon
  <2>6. x <= Size[r]
    BY <1>1, <2>5
  <2> QED BY <2>4, <2>6
<1> QED BY <1>2, <1>3, <1>4

\* The first n cells.
LEMMA Parts ==
  ASSUME TFTPAssumption, NEW r \in 1..Requests, NEW n \in Nat
  PROVE  /\ Part(r, n) \in Seq(Cells) /\ Len(Part(r, n)) = n
         /\ \A i \in 1..n : Part(r, n)[i] = Cell(r, i)
<1>1. \A i \in 1..n : Cell(r, i) \in Cells
  BY DEF Cell, Cells, Padding, TFTPAssumption
<1> QED BY <1>1 DEF Part

\* A transfer leaves the whole file, and perhaps some padding.
LEMMA StoredCells ==
  ASSUME TFTPAssumption, NEW r \in 1..Requests
  PROVE  /\ Len(Stored(r)) = Size[r] + (IF MinLength > Size[r] % BlockSize
                                        THEN MinLength - (Size[r] % BlockSize) ELSE 0)
         /\ Stored(r) = Part(r, Len(Stored(r)))
<1>1. PICK e \in 0..(BlockSize - 1) : e = Size[r] % BlockSize
  BY FileBlocks
<1>2. Size[r] \in Nat /\ MinLength \in Nat /\ BlockSize \in Nat /\ r \in Nat
  BY DEF TFTPAssumption
<1> DEFINE l == IF MinLength > e THEN MinLength - e ELSE 0
           padding == [i \in 1..(MinLength - e) |-> Padding]
<1>3. File(r) \in Seq(Cells) /\ Len(File(r)) = Size[r]
      /\ \A i \in 1..Size[r] : File(r)[i] = <<r, i>>
  <2>1. PICK z \in Nat : z = Size[r]
    BY <1>2
  <2>2. \A i \in 1..z : <<r, i>> \in Cells
    BY <1>2 DEF Cells
  <2> DEFINE f == [i \in 1..z |-> <<r, i>>]
  <2>3. File(r) = f
    BY <2>1 DEF File
  <2>4. f \in Seq(Cells) /\ Len(f) = z
    BY <2>2
  <2>5. \A i \in 1..z : f[i] = <<r, i>>
    OBVIOUS
  <2> HIDE DEF f
  <2> QED BY <2>1, <2>3, <2>4, <2>5
<1>4. l \in Nat
  BY <1>1, <1>2
<1>20. 1..(MinLength - e) = 1..l
  BY <1>1, <1>2
<1>5. padding \in Seq(Cells) /\ Len(padding) = l /\ \A i \in 1..l : padding[i] = Padding
  <2>1. padding = [i \in 1..l |-> Padding]
    BY <1>20, Zenon
  <2>2. Padding \in Cells
    BY DEF Padding, Cells
  <2> HIDE DEF l, padding
  <2> QED BY <1>4, <2>1, <2>2
<1>6. Stored(r) = File(r) \o padding
  BY <1>1 DEF Stored
<1>7. l = IF MinLength > Size[r] % BlockSize THEN MinLength - (Size[r] % BlockSize) ELSE 0
  BY <1>1
<1> HIDE DEF l, padding
<1> DEFINE s == File(r)
<1>8. /\ s \o padding \in Seq(Cells) /\ Len(s \o padding) = Size[r] + l
      /\ \A i \in 1..(Size[r] + l) :
           (s \o padding)[i] = IF i <= Size[r] THEN s[i] ELSE padding[i - Size[r]]
  <2>1. s \in Seq(Cells) /\ Len(s) = Size[r]
    BY <1>3
  <2> HIDE DEF s
  <2>2. /\ s \o padding \in Seq(Cells) /\ Len(s \o padding) = Len(s) + Len(padding)
        /\ \A i \in 1..(Len(s) + Len(padding)) :
             (s \o padding)[i] = IF i <= Len(s) THEN s[i] ELSE padding[i - Len(s)]
    BY <1>5, <2>1, ConcatProperties
  <2> QED BY <1>5, <2>1, <2>2
<1>9. \A i \in 1..(Size[r] + l) : (s \o padding)[i] = Cell(r, i)
  <2> TAKE i \in 1..(Size[r] + l)
  <2>1. CASE i <= Size[r]
    <3>1. i \in 1..Size[r]
      BY <1>2, <1>4, <2>1
    <3>2. (s \o padding)[i] = s[i]
      BY <1>8, <2>1
    <3> QED BY <1>3, <2>1, <3>1, <3>2 DEF Cell
  <2>2. CASE i > Size[r]
    <3>1. i - Size[r] \in 1..l
      BY <1>2, <1>4, <2>2
    <3>2. (s \o padding)[i] = padding[i - Size[r]]
      BY <1>2, <1>8, <2>2
    <3>3. padding[i - Size[r]] = Padding
      BY <1>5, <3>1
    <3>4. Cell(r, i) = Padding
      BY <1>2, <1>4, <2>2 DEF Cell
    <3> QED BY <3>2, <3>3, <3>4
  <2>3. i <= Size[r] \/ i > Size[r]
    BY <1>2, <1>4
  <2> QED BY <2>1, <2>2, <2>3, Zenon
<1>10. Size[r] + l \in Nat
  BY <1>2, <1>4
<1>11. s \o padding = Part(r, Size[r] + l)
  <2>1. PICK n \in Nat : n = Size[r] + l
    BY <1>10
  <2> DEFINE t == s \o padding
             u == Part(r, n)
  <2>2. t \in Seq(Cells) /\ Len(t) = n /\ \A i \in 1..n : t[i] = Cell(r, i)
    BY <1>8, <1>9, <2>1
  <2>3. u \in Seq(Cells) /\ Len(u) = n /\ \A i \in 1..n : u[i] = Cell(r, i)
    BY Parts
  <2> HIDE DEF t, u
  <2>4. t = u
    BY <2>2, <2>3, SeqEqual
  <2> QED BY <2>1, <2>4 DEF t, u
<1>12. Len(Stored(r)) = Size[r] + l /\ Stored(r) = Part(r, Size[r] + l)
  BY <1>6, <1>8, <1>11
<1> QED BY <1>7, <1>12

\* A block holds the cells that follow the blocks before it; the last block,
\* and no other, is short.
LEMMA BlockCells ==
  ASSUME TFTPAssumption, NEW r \in 1..Requests, NEW b \in 1..Blocks(r)
  PROVE  /\ Bytes(r, b) \in Seq(Cells) /\ Len(Bytes(r, b)) \in Nat
         /\ Length(r, b) = (b - 1) * BlockSize + Len(Bytes(r, b))
         /\ \A i \in 1..Len(Bytes(r, b)) :
              Bytes(r, b)[i] = Cell(r, (b - 1) * BlockSize + i)
         /\ Len(Bytes(r, b)) < BlockSize <=> b = Blocks(r)
<1>1. PICK x \in Nat : x = (b - 1) * BlockSize
  BY FullBlocks
<1>2. PICK e \in 0..(BlockSize - 1) : e = Size[r] % BlockSize
  BY FileBlocks
<1>3. /\ Size[r] \in Nat /\ MinLength \in Nat /\ BlockSize \in Nat /\ r \in Nat
      /\ MinLength < BlockSize
  BY DEF TFTPAssumption
<1>4. PICK y \in Nat : y = IF b < Blocks(r) THEN b * BlockSize ELSE Size[r]
  BY <1>1, <1>3, FullBlocks
<1> DEFINE n == y - x
           l == IF MinLength > n THEN MinLength - n ELSE 0
           bytes == SubSeq(File(r), x + 1, y)
           padding == [i \in 1..(MinLength - n) |-> Padding]
<1>5. Blocks(r) \in Nat /\ b \in Nat /\ b <= Blocks(r)
  BY FileBlocks
<1>6. b < Blocks(r) => n = BlockSize /\ y <= Size[r] /\ l = 0
  BY <1>1, <1>3, <1>4, FullBlocks
<1>7. b = Blocks(r) => n = e /\ y = Size[r]
  <2>1. b = Blocks(r) => Size[r] = x + e
    BY <1>1, <1>2, FileBlocks
  <2>2. b = Blocks(r) => y = Size[r]
    BY <1>4, <1>5
  <2> QED BY <1>1, <1>2, <2>1, <2>2
<1>8. n \in Nat /\ n <= BlockSize /\ y <= Size[r] /\ (n < BlockSize <=> b = Blocks(r))
  <2>1. CASE b < Blocks(r)
    BY <1>3, <1>5, <1>6, <2>1
  <2>2. CASE b = Blocks(r)
    BY <1>2, <1>3, <1>7, <2>2
  <2> QED BY <1>5, <2>1, <2>2
<1>9. /\ bytes \in Seq(Cells) /\ Len(bytes) = n
      /\ \A i \in 1..n : bytes[i] = Cell(r, x + i)
  <2>1. \A i \in 1..Size[r] : File(r)[i] = <<r, i>> /\ File(r)[i] \in Cells
    BY <1>3 DEF File, Cells
  <2>2. \A i \in (x + 1)..y : File(r)[i] \in Cells
    <3>1. y <= Size[r]
      BY <1>8
    <3>2. (x + 1)..y \subseteq 1..Size[r]
      BY <1>3, <3>1
    <3> QED BY <2>1, <3>2
  <2>3. /\ bytes \in Seq(Cells) /\ Len(bytes) = IF x + 1 <= y THEN y - (x + 1) + 1 ELSE 0
        /\ \A i \in 1..(y - (x + 1) + 1) : bytes[i] = File(r)[(x + 1) + i - 1]
    BY <2>2, SubSeqProperties
  <2>4. Len(bytes) = n
    BY <1>8, <2>3
  <2>5. \A i \in 1..n : bytes[i] = Cell(r, x + i)
    <3> TAKE i \in 1..n
    <3>1. (x + 1) + i - 1 = x + i /\ x + i \in 1..Size[r]
          /\ i \in 1..(y - (x + 1) + 1)
      BY <1>8
    <3>2. bytes[i] = File(r)[x + i]
      BY <2>3, <3>1
    <3> HIDE DEF bytes
    <3> QED BY <2>1, <3>1, <3>2, <1>3 DEF Cell
  <2> HIDE DEF bytes, n
  <2> QED BY <2>3, <2>4, <2>5
<1>10. l \in Nat
  BY <1>3, <1>8
<1>21. 1..(MinLength - n) = 1..l
  BY <1>3, <1>8
<1>11. padding \in Seq(Cells) /\ Len(padding) = l /\ \A i \in 1..l : padding[i] = Padding
  <2>1. padding = [i \in 1..l |-> Padding]
    BY <1>21, Zenon
  <2>2. Padding \in Cells
    BY DEF Padding, Cells
  <2> HIDE DEF l, padding
  <2> QED BY <1>10, <2>1, <2>2
<1>12. Bytes(r, b) = bytes \o padding
  BY <1>1, <1>4, <1>9, Zenon DEF Bytes
<1>13. n + l < BlockSize <=> b = Blocks(r)
  BY <1>3, <1>5, <1>6, <1>8
<1>14. x + n + l = Length(r, b)
  <2>1. CASE b < Blocks(r)
    BY <1>1, <1>3, <1>4, <1>6, <2>1 DEF Length
  <2>2. CASE b = Blocks(r)
    <3>1. l = IF MinLength > e THEN MinLength - e ELSE 0
      BY <1>7, <2>2
    <3>2. Length(r, b) = Size[r] + (IF MinLength > e THEN MinLength - e ELSE 0)
      <4>1. Length(r, b) = Len(Stored(r))
        BY <1>5, <2>2 DEF Length
      <4>2. Len(Stored(r)) = Size[r] + (IF MinLength > Size[r] % BlockSize
                                        THEN MinLength - (Size[r] % BlockSize) ELSE 0)
        BY StoredCells
      <4> QED BY <1>2, <4>1, <4>2
    <3> HIDE DEF l
    <3> QED BY <1>3, <1>7, <1>10, <2>2, <3>1, <3>2
  <2> QED BY <1>5, <2>1, <2>2
<1>15. b = Blocks(r) \/ l = 0
  BY <1>5, <1>6
<1>16. b = Blocks(r) => x + n = Size[r]
  BY <1>7
<1> HIDE DEF n, l, bytes, padding
<1>17. /\ bytes \o padding \in Seq(Cells) /\ Len(bytes \o padding) = n + l
       /\ \A i \in 1..(n + l) :
            (bytes \o padding)[i] = IF i <= n THEN bytes[i] ELSE padding[i - n]
  <2>1. /\ bytes \in Seq(Cells) /\ Len(bytes) = n
        /\ padding \in Seq(Cells) /\ Len(padding) = l
    BY <1>9, <1>11, Zenon
  <2>2. /\ bytes \o padding \in Seq(Cells)
        /\ Len(bytes \o padding) = Len(bytes) + Len(padding)
        /\ \A i \in 1..(Len(bytes) + Len(padding)) :
             (bytes \o padding)[i] =
               IF i <= Len(bytes) THEN bytes[i] ELSE padding[i - Len(bytes)]
    BY <2>1, ConcatProperties, Zenon
  <2> QED BY <2>1, <2>2, Zenon
<1>18. \A i \in 1..(n + l) : (bytes \o padding)[i] = Cell(r, x + i)
  <2> TAKE i \in 1..(n + l)
  <2>1. CASE i <= n
    BY <1>8, <1>9, <1>10, <1>17, <2>1
  <2>2. CASE i > n
    <3>1. i - n \in 1..l /\ b = Blocks(r) /\ x + i > Size[r]
      BY <1>8, <1>10, <1>15, <1>16, <2>2
    <3>2. Cell(r, x + i) = Padding
      BY <1>3, <3>1 DEF Cell
    <3>3. (bytes \o padding)[i] = padding[i - n]
      <4>1. ~(i <= n)
        BY <1>8, <1>10, <2>2
      <4> QED BY <1>17, <4>1, Zenon
    <3>4. padding[i - n] = Padding
      BY <1>11, <3>1
    <3> QED BY <3>2, <3>3, <3>4
  <2>3. i <= n \/ i > n
    BY <1>8, <1>10
  <2> QED BY <2>1, <2>2, <2>3, Zenon
<1>19. Length(r, b) = x + (n + l)
  BY <1>8, <1>10, <1>14
<1>20. n + l \in Nat
  BY <1>8, <1>10
<1> QED BY <1>1, <1>12, <1>13, <1>17, <1>18, <1>19, <1>20

\* One block after the other spells the file.
LEMMA BlockByBlock ==
  ASSUME TFTPAssumption, NEW r \in 1..Requests
  PROVE  /\ Contents(r, 0) = <<>>
         /\ Contents(r, Blocks(r)) = Stored(r)
         /\ \A b \in 1..Blocks(r) :
              /\ Contents(r, b - 1) \o Bytes(r, b) = Contents(r, b)
              /\ Len(Bytes(r, b)) \in Nat
              /\ Len(Contents(r, b)) = Len(Contents(r, b - 1)) + Len(Bytes(r, b))
         /\ \A b \in 0..Blocks(r) :
              /\ Contents(r, b) \in Seq(Cells) /\ Len(Contents(r, b)) \in Nat
              /\ SubSeq(Contents(r, b), 1, Len(Contents(r, b))) = Contents(r, b)
              /\ IsPrefix(Contents(r, b), Stored(r))
<1>1. Blocks(r) \in Nat \ {0} /\ Size[r] \in Nat /\ BlockSize \in Nat /\ MinLength \in Nat
  BY FileBlocks DEF TFTPAssumption
<1>2. Length(r, 0) = 0
  BY <1>1 DEF Length
<1>3. Contents(r, 0) = <<>>
  <2>1. 0 \in Nat
    OBVIOUS
  <2>2. Contents(r, 0) \in Seq(Cells) /\ Len(Contents(r, 0)) = 0
    BY <1>2, <2>1, Parts DEF Contents
  <2> QED BY <2>2, EmptySeq
<1>4. Length(r, Blocks(r)) = Len(Stored(r))
  BY <1>1 DEF Length
<1>5. Contents(r, Blocks(r)) = Stored(r)
  BY <1>4, StoredCells DEF Contents
<1>6. ASSUME NEW b \in 1..Blocks(r)
      PROVE  /\ Len(Bytes(r, b)) \in Nat /\ Length(r, b) \in Nat
             /\ Length(r, b - 1) = (b - 1) * BlockSize
             /\ Length(r, b - 1) \in Nat
             /\ Length(r, b) = Length(r, b - 1) + Len(Bytes(r, b))
  <2>1. b - 1 < Blocks(r) /\ b - 1 \in Nat
    BY <1>1
  <2>2. Length(r, b - 1) = (b - 1) * BlockSize
    BY <2>1 DEF Length
  <2>3. (b - 1) * BlockSize \in Nat
    BY FullBlocks
  <2>4. Len(Bytes(r, b)) \in Nat /\ Length(r, b) = (b - 1) * BlockSize + Len(Bytes(r, b))
    BY BlockCells
  <2> DEFINE x == (b - 1) * BlockSize
             y == Len(Bytes(r, b))
  <2>5. x \in Nat /\ y \in Nat /\ Length(r, b - 1) = x /\ Length(r, b) = x + y
    BY <2>2, <2>3, <2>4, Zenon
  <2>6. Length(r, b - 1) = (b - 1) * BlockSize
    BY <2>2
  <2>7. Length(r, b) \in Nat /\ Length(r, b - 1) \in Nat
        /\ Length(r, b) = Length(r, b - 1) + y
    <3> HIDE DEF x, y
    <3> QED BY <2>5
  <2> QED BY <2>5, <2>6, <2>7, Zenon
<1>7. ASSUME NEW b \in 0..Blocks(r)
      PROVE  Length(r, b) \in Nat
  BY <1>1, <1>2, <1>6
<1>8. ASSUME NEW b \in 0..Blocks(r)
      PROVE  /\ Contents(r, b) \in Seq(Cells) /\ Len(Contents(r, b)) = Length(r, b)
             /\ \A i \in 1..Length(r, b) : Contents(r, b)[i] = Cell(r, i)
  BY <1>7, Parts DEF Contents
<1>9. ASSUME NEW b \in 1..Blocks(r)
      PROVE  /\ Contents(r, b - 1) \o Bytes(r, b) = Contents(r, b)
             /\ Len(Contents(r, b)) = Len(Contents(r, b - 1)) + Len(Bytes(r, b))
  <2>1. b - 1 \in 0..Blocks(r) /\ b \in 0..Blocks(r)
    BY <1>1
  <2> DEFINE s == Contents(r, b - 1)
             t == Bytes(r, b)
  <2>2. PICK x \in Nat : x = (b - 1) * BlockSize
    BY FullBlocks
  <2>3. /\ s \in Seq(Cells) /\ Len(s) = x /\ \A i \in 1..x : s[i] = Cell(r, i)
    BY <1>6, <1>8, <2>1, <2>2
  <2>4. /\ t \in Seq(Cells) /\ \A i \in 1..Len(t) : t[i] = Cell(r, x + i)
        /\ Len(t) \in Nat
    BY <2>2, BlockCells
  <2>5. /\ Contents(r, b) \in Seq(Cells) /\ Len(Contents(r, b)) = x + Len(t)
        /\ \A i \in 1..(x + Len(t)) : Contents(r, b)[i] = Cell(r, i)
    <3>1. Length(r, b) = x + Len(t)
      BY <2>2, BlockCells
    <3> QED BY <1>8, <2>1, <3>1
  <2> HIDE DEF s, t
  <2>6. /\ s \o t \in Seq(Cells) /\ Len(s \o t) = x + Len(t)
        /\ \A i \in 1..(x + Len(t)) : (s \o t)[i] = IF i <= x THEN s[i] ELSE t[i - x]
    <3>1. s \in Seq(Cells) /\ Len(s) = x /\ t \in Seq(Cells)
      BY <2>3, <2>4, Zenon
    <3>2. /\ s \o t \in Seq(Cells) /\ Len(s \o t) = Len(s) + Len(t)
          /\ \A i \in 1..(Len(s) + Len(t)) :
               (s \o t)[i] = IF i <= Len(s) THEN s[i] ELSE t[i - Len(s)]
      BY <3>1, ConcatProperties, Zenon
    <3> QED BY <3>1, <3>2, Zenon
  <2>7. \A i \in 1..(x + Len(t)) : (s \o t)[i] = Cell(r, i)
    <3> TAKE i \in 1..(x + Len(t))
    <3>1. CASE i <= x
      BY <2>3, <2>4, <2>6, <3>1
    <3>2. CASE i > x
      <4>1. i - x \in 1..Len(t) /\ x + (i - x) = i
        BY <2>4, <3>2
      <4>2. (s \o t)[i] = t[i - x]
        BY <2>6, <3>2
      <4>3. t[i - x] = Cell(r, x + (i - x))
        BY <2>4, <4>1
      <4> QED BY <4>1, <4>2, <4>3
    <3>3. i <= x \/ i > x
      BY <2>4
    <3> QED BY <3>1, <3>2, <3>3, Zenon
  <2>8. s \o t = Contents(r, b)
    <3> DEFINE u == s \o t
               v == Contents(r, b)
    <3>1. u \in Seq(Cells) /\ v \in Seq(Cells) /\ Len(u) = Len(v)
          /\ \A i \in 1..Len(u) : u[i] = v[i]
      BY <2>5, <2>6, <2>7
    <3> HIDE DEF u, v
    <3>2. u = v
      BY <3>1, SeqEqual
    <3> QED BY <3>2 DEF u, v
  <2> QED BY <2>3, <2>5, <2>8 DEF s, t
<1>10. ASSUME NEW b \in 0..Blocks(r)
       PROVE  /\ Len(Contents(r, b)) \in Nat
              /\ SubSeq(Contents(r, b), 1, Len(Contents(r, b))) = Contents(r, b)
  BY <1>8, LenProperties, SubSeqFull
<1>11. ASSUME NEW b \in 0..Blocks(r)
       PROVE  IsPrefix(Contents(r, b), Stored(r))
  <2> DEFINE s == Contents(r, b)
             t == Stored(r)
  <2>1. Blocks(r) \in 0..Blocks(r)
    BY <1>1
  <2>2. /\ t \in Seq(Cells) /\ Len(t) \in Nat /\ \A i \in 1..Len(t) : t[i] = Cell(r, i)
    BY <1>4, <1>5, <1>7, <1>8, <2>1
  <2>3. Length(r, b) <= Len(t)
    <3>1. CASE b = 0
      BY <1>2, <2>2, <3>1
    <3>2. CASE b \in 1..Blocks(r) /\ b < Blocks(r)
      <4>1. b * BlockSize <= Size[r] /\ Length(r, b) = b * BlockSize
        BY <3>2, FullBlocks DEF Length
      <4>2. PICK e \in Int : e = Size[r] % BlockSize
        BY FileBlocks
      <4>5. Len(t) = Size[r] + (IF MinLength > e THEN MinLength - e ELSE 0)
        BY <4>2, StoredCells
      <4>3. Len(t) >= Size[r]
        BY <1>1, <4>5
      <4>4. PICK x \in Int : x = Length(r, b)
        BY <1>7
      <4> HIDE DEF t
      <4> QED BY <1>1, <2>2, <4>1, <4>3, <4>4
    <3>3. CASE b = Blocks(r)
      BY <1>4, <2>2, <3>3
    <3> QED BY <1>1, <3>1, <3>2, <3>3
  <2>4. /\ s \in Seq(Cells) /\ Len(s) = Length(r, b) /\ Len(s) \in Nat
        /\ \A i \in 1..Len(s) : s[i] = Cell(r, i)
    BY <1>7, <1>8
  <2> HIDE DEF s, t
  <2>5. Len(s) <= Len(t)
    BY <2>3, <2>4
  <2>6. /\ SubSeq(s, 1, Len(s)) \in Seq(Cells) /\ Len(SubSeq(s, 1, Len(s))) = Len(s)
        /\ \A i \in 1..Len(s) : SubSeq(s, 1, Len(s))[i] = s[i]
    <3>1. Len(s) <= Len(s)
      BY <2>4
    <3> QED BY <2>4, <3>1, FirstCells, Zenon
  <2>7. /\ SubSeq(t, 1, Len(s)) \in Seq(Cells) /\ Len(SubSeq(t, 1, Len(s))) = Len(s)
        /\ \A i \in 1..Len(s) : SubSeq(t, 1, Len(s))[i] = t[i]
    BY <2>2, <2>4, <2>5, FirstCells, Zenon
  <2>8. SubSeq(s, 1, Len(s)) = SubSeq(t, 1, Len(s))
    <3> DEFINE u == SubSeq(s, 1, Len(s))
               v == SubSeq(t, 1, Len(s))
    <3>1. \A i \in 1..Len(s) : s[i] = t[i]
      BY <2>2, <2>4, <2>5
    <3>2. /\ u \in Seq(Cells) /\ v \in Seq(Cells) /\ Len(u) = Len(v)
          /\ \A i \in 1..Len(u) : u[i] = v[i]
      BY <2>6, <2>7, <3>1, Zenon
    <3> HIDE DEF u, v
    <3>3. u = v
      BY <3>2, SeqEqual, Zenon
    <3> QED BY <3>3 DEF u, v
  <2> QED BY <2>5, <2>8 DEF IsPrefix, s, t
<1> QED BY <1>3, <1>5, <1>6, <1>8, <1>9, <1>10, <1>11

-----------------------------------------------------------------------------
(* Remainders, and what may be under way.                                  *)

\* A number is its quotient and its remainder.
LEMMA Division ==
  ASSUME NEW n \in Nat \ {0}, NEW x \in Int
  PROVE  /\ x % n \in 0..(n - 1)
         /\ \E k \in Int : x = n * k + (x % n)
<1> DEFINE k == x \div n
           r == x % n
<1>1. r \in 0..(n - 1)
  OBVIOUS
<1>2. k \in Int
  OBVIOUS
<1>3. x = n * k + r
  OBVIOUS
<1>4. QED  BY <1>1, <1>2, <1>3

\* A multiple of n between -n and n is zero.
LEMMA SmallMultiple ==
  ASSUME NEW n \in Nat \ {0}, NEW d \in Int, -n < n * d, n * d < n
  PROVE  d = 0
<1>1. ASSUME d >= 1  PROVE n * d >= n
  BY <1>1
<1>2. ASSUME d <= -1  PROVE n * d <= -n
  BY <1>2
<1>3. QED  BY <1>1, <1>2

\* There is one remainder in range.
LEMMA RemainderUnique ==
  ASSUME NEW n \in Nat \ {0}, NEW k \in Int, NEW r \in 0..(n - 1),
         NEW x \in Int, x = n * k + r
  PROVE  x % n = r
<1>1. PICK q \in Int : x = n * q + (x % n)
  BY Division
<1>2. x % n \in 0..(n - 1)
  BY Division
<1> DEFINE m == x % n
<1> HIDE DEF m
<1>3. m \in 0..(n - 1)
  BY <1>2 DEF m
<1>8. x = n * q + m
  BY <1>1 DEF m
<1>4. n * (k - q) = m - r
  BY <1>3, <1>8
<1>5. k - q = 0
  BY <1>3, <1>4, SmallMultiple
<1>6. m = r
  BY <1>3, <1>8, <1>5
<1>7. QED  BY <1>6 DEF m

-----------------------------------------------------------------------------
(* Packets and numbers.                                                    *)

\* Block numbers in a row differ, and the client's arithmetic is that of the
\* blocks.
LEMMA BlockNumbers ==
  ASSUME TFTPAssumption, NEW b \in Nat
  PROVE  /\ b % Modulus \in 0..(Modulus - 1)
         /\ b % Modulus # (b + 1) % Modulus
         /\ ((b % Modulus) + 1) % Modulus = (b + 1) % Modulus
         /\ (((b + 1) % Modulus) + Modulus - 1) % Modulus = b % Modulus
         /\ 1 % Modulus = 1 /\ 0 % Modulus = 0
<1>1. Modulus \in Nat /\ Modulus >= 2
  BY DEF TFTPAssumption
<1>11. \A k \in Int, y \in 0..(Modulus - 1), x \in Int :
         x = Modulus * k + y => x % Modulus = y
  BY <1>1, RemainderUnique
<1>12. 0 \in Int /\ 1 \in Int
  OBVIOUS
<1>2. PICK r \in 0..(Modulus - 1) : r = b % Modulus
  BY <1>1
<1>3. PICK d \in Int : b = Modulus * d + r
  <2>1. b = Modulus * (b \div Modulus) + (b % Modulus) /\ b \div Modulus \in Int
    BY <1>1
  <2> QED BY <1>2, <2>1
<1>4. /\ r # Modulus - 1 => (b + 1) % Modulus = r + 1 /\ (r + 1) % Modulus = r + 1
      /\ r = Modulus - 1 => (b + 1) % Modulus = 0 /\ (r + 1) % Modulus = 0
  <2>1. CASE r # Modulus - 1
    <3>1. r + 1 \in 0..(Modulus - 1) /\ b + 1 = Modulus * d + (r + 1)
          /\ r + 1 = Modulus * 0 + (r + 1) /\ r + 1 \in Int /\ b + 1 \in Int
      BY <1>1, <1>2, <1>3, <2>1
    <3>2. (b + 1) % Modulus = r + 1
      BY <1>11, <1>12, <3>1, Zenon
    <3>3. (r + 1) % Modulus = r + 1
      <4>1. r + 1 \in 0..(Modulus - 1) /\ r + 1 = Modulus * 0 + (r + 1) /\ r + 1 \in Int
        BY <3>1
      <4> QED BY <1>11, <1>12, <4>1, Zenon
    <3> QED BY <2>1, <3>2, <3>3
  <2>2. CASE r = Modulus - 1
    <3>1. 0 \in 0..(Modulus - 1) /\ b + 1 = Modulus * (d + 1) + 0 /\ d + 1 \in Int
          /\ r + 1 = Modulus * 1 + 0 /\ r + 1 \in Int /\ b + 1 \in Int
      <4>1. PICK y \in Int : y = Modulus * d
        BY <1>1
      <4>2. Modulus * (d + 1) = y + Modulus
        BY <1>1, <4>1
      <4>3. b + 1 = y + Modulus
        BY <1>1, <1>2, <1>3, <2>2, <4>1
      <4> QED BY <1>1, <1>2, <2>2, <4>2, <4>3
    <3>2. (b + 1) % Modulus = 0
      BY <1>11, <1>12, <3>1, Zenon
    <3>3. (r + 1) % Modulus = 0
      BY <1>11, <1>12, <3>1, Zenon
    <3> QED BY <2>2, <3>2, <3>3
  <2> QED BY <2>1, <2>2
<1>5. ASSUME NEW x \in 0..(Modulus - 1)
      PROVE  /\ x > 0 => (x + Modulus - 1) % Modulus = x - 1
             /\ x = 0 => (x + Modulus - 1) % Modulus = Modulus - 1
  <2>1. CASE x > 0
    <3>1. x - 1 \in 0..(Modulus - 1) /\ x + Modulus - 1 = Modulus * 1 + (x - 1)
          /\ x + Modulus - 1 \in Int
      BY <1>1, <2>1
    <3>2. (x + Modulus - 1) % Modulus = x - 1
      BY <1>11, <1>12, <3>1, Zenon
    <3> QED BY <2>1, <3>2
  <2>2. CASE x = 0
    <3>1. Modulus - 1 \in 0..(Modulus - 1) /\ x + Modulus - 1 = Modulus * 0 + (Modulus - 1)
          /\ x + Modulus - 1 \in Int
      BY <1>1, <2>2
    <3>2. (x + Modulus - 1) % Modulus = Modulus - 1
      BY <1>11, <1>12, <3>1, Zenon
    <3> QED BY <2>2, <3>2
  <2> QED BY <1>1, <2>1, <2>2
<1>6. PICK t \in 0..(Modulus - 1) : t = (b + 1) % Modulus
  BY <1>1, <1>2, <1>4
<1>7. (t + Modulus - 1) % Modulus = r
  <2>1. CASE r # Modulus - 1
    <3>1. t = r + 1
      BY <1>4, <1>6, <2>1
    <3>2. t > 0 /\ t - 1 = r
      BY <1>2, <3>1
    <3> QED BY <1>5, <3>2
  <2>2. CASE r = Modulus - 1
    <3>1. t = 0
      BY <1>4, <1>6, <2>2
    <3> QED BY <1>5, <3>1, <2>2
  <2> QED BY <2>1, <2>2
<1>8. r # t
  BY <1>1, <1>2, <1>4, <1>6
<1>9. (r + 1) % Modulus = t
  BY <1>4, <1>6
<1>10. 1 % Modulus = 1 /\ 0 % Modulus = 0
  <2>1. /\ 1 = Modulus * 0 + 1 /\ 0 = Modulus * 0 + 0
        /\ 0 \in 0..(Modulus - 1) /\ 1 \in 0..(Modulus - 1)
    BY <1>1
  <2> QED BY <1>1, <2>1, RemainderUnique
<1> QED BY <1>2, <1>6, <1>7, <1>8, <1>9, <1>10

\* What the client reads of a packet.
LEMMA PacketFields ==
  ASSUME TFTPAssumption, NEW r \in 1..Requests, NEW b \in Nat
  PROVE  /\ Packet(r, b) \in Packets /\ Packet(r, b).from = r
         /\ b = 0 => Packet(r, b).op = "OACK"
         /\ b # 0 => /\ Packet(r, b) = Data(r, b) /\ Packet(r, b).op = "DATA"
                     /\ Packet(r, b).block = b % Modulus
                     /\ Packet(r, b).bytes = Bytes(r, b)
         /\ Packet(r, b) # Packet(r, b + 1)
<1>1. /\ Packet(r, b).from = r
      /\ b = 0 => Packet(r, b).op = "OACK"
      /\ b # 0 => /\ Packet(r, b) = Data(r, b) /\ Packet(r, b).op = "DATA"
                  /\ Packet(r, b).block = b % Modulus
                  /\ Packet(r, b).bytes = Bytes(r, b)
  BY DEF Packet, Data
<1>2. Packet(r, b) \in Packets
  BY DEF Packets
<1>3. Packet(r, b) # Packet(r, b + 1)
  <2>1. b + 1 # 0 /\ b + 1 \in Nat
    OBVIOUS
  <2>2. Packet(r, b + 1).op = "DATA" /\ Packet(r, b + 1).block = (b + 1) % Modulus
    BY <2>1 DEF Packet, Data
  <2>3. CASE b = 0
    BY <1>1, <2>2, <2>3
  <2>4. CASE b # 0
    <3>1. b % Modulus # (b + 1) % Modulus
      BY BlockNumbers
    <3> QED BY <1>1, <2>2, <2>4, <3>1, Zenon
  <2> QED BY <2>3, <2>4
<1> QED BY <1>1, <1>2, <1>3

\* The data packets.
LEMMA DataPackets ==
  ASSUME NEW r, NEW b, b # 0
  PROVE  /\ Packet(r, b) = Data(r, b) /\ Packet(r, b).op = "DATA"
         /\ Packet(r, b).from = r /\ Packet(r, b).block = b % Modulus
         /\ Packet(r, b).bytes = Bytes(r, b)
BY DEF Packet, Data

-----------------------------------------------------------------------------
(* The frames that come to the client.                                     *)

\* A frame comes out of a queue, another goes in.
LEMMA QueueEnds ==
  ASSUME NEW S, NEW q \in Seq(S)
  PROVE  /\ Len(q) \in Nat
         /\ q # <<>> => /\ Len(q) >= 1 /\ Head(q) = q[1] /\ q[1] \in S
                        /\ Tail(q) \in Seq(S) /\ Len(Tail(q)) = Len(q) - 1
                        /\ \A i \in 1..(Len(q) - 1) : Tail(q)[i] = q[i + 1]
         /\ \A f \in S : /\ Append(q, f) \in Seq(S) /\ Len(Append(q, f)) = Len(q) + 1
                         /\ Append(q, f)[Len(q) + 1] = f
                         /\ \A i \in 1..Len(q) : Append(q, f)[i] = q[i]
         /\ \A i \in 1..Len(q) : q[i] \in S
OBVIOUS

\* The kinds of frames that the invariant distinguishes are different.
LEMMA FramesDiffer ==
  ASSUME TFTPAssumption, NEW c \in 1..Requests, NEW p \in Nat, NEW f
  PROVE  /\ IsOld(f, c, p) => ~IsNew(f, c, p)
         /\ IsNew(f, c, p) <=> IsOld(f, c, p + 1)
         /\ IsNew(f, c, p) => ~IsNew(f, c, p + 1)
         /\ IsOld(f, c, p) \/ IsNew(f, c, p) =>
              f.op # "ERROR" /\ f.from = c /\ f \in Packets
         /\ IsLate(f, c, p) =>
              f.op # "ERROR" /\ f.from = c - 1 /\ f \in Packets
              /\ ~IsOld(f, c, p) /\ ~IsNew(f, c, p)
<1>1. p + 1 \in Nat
  OBVIOUS
<1>2. /\ Packet(c, p) # Packet(c, p + 1) /\ Packet(c, p + 1) # Packet(c, p + 1 + 1)
      /\ Packet(c, p).from = c /\ Packet(c, p + 1).from = c
      /\ Packet(c, p).op # "ERROR" /\ Packet(c, p + 1).op # "ERROR"
      /\ Packet(c, p) \in Packets /\ Packet(c, p + 1) \in Packets
  <2>1. \A b \in Nat : /\ Packet(c, b) # Packet(c, b + 1) /\ Packet(c, b).from = c
                         /\ Packet(c, b).op # "ERROR" /\ Packet(c, b) \in Packets
    BY PacketFields
  <2> QED BY <1>1, <2>1, Zenon
<1>3. ASSUME c > 1
      PROVE  /\ Packet(c - 1, Blocks(c - 1)).from = c - 1
             /\ Packet(c - 1, Blocks(c - 1)).op # "ERROR"
             /\ Packet(c - 1, Blocks(c - 1)) \in Packets
  <2>1. c - 1 \in 1..Requests
    BY <1>3 DEF TFTPAssumption
  <2>2. Blocks(c - 1) \in Nat
    BY <2>1, FileBlocks
  <2> QED BY <2>1, <2>2, PacketFields
<1>4. c - 1 # c
  OBVIOUS
<1>5. IsLate(f, c, p) => /\ f.op # "ERROR" /\ f.from = c - 1 /\ f \in Packets
                         /\ ~IsOld(f, c, p) /\ ~IsNew(f, c, p)
  BY <1>2, <1>3, <1>4 DEF IsOld, IsNew, IsLate
<1>6. /\ IsOld(f, c, p) \/ IsNew(f, c, p) =>
           f.op # "ERROR" /\ f.from = c /\ f \in Packets
      /\ IsOld(f, c, p) => ~IsNew(f, c, p)
      /\ IsNew(f, c, p) <=> IsOld(f, c, p + 1)
      /\ IsNew(f, c, p) => ~IsNew(f, c, p + 1)
  BY <1>2 DEF IsOld, IsNew
<1> QED BY <1>5, <1>6

\* The client takes a frame, or one is lost.
LEMMA ClientTail ==
  ASSUME TFTPAssumption, NEW c, NEW p, NEW s, NEW state, NEW q,
         ClientQueue(q, c, p, s, state), q # <<>>
  PROVE  ClientQueue(Tail(q), c, p, s, state)
<1>1. q \in Seq(Packets)
  BY DEF ClientQueue
<1>2. /\ Len(q) \in Nat /\ Len(q) >= 1
      /\ Tail(q) \in Seq(Packets) /\ Len(Tail(q)) = Len(q) - 1
      /\ \A i \in 1..(Len(q) - 1) : Tail(q)[i] = q[i + 1]
  BY <1>1, QueueEnds
<1>3. \A i \in 1..Len(Tail(q)) : Tail(q)[i] = q[i + 1] /\ i + 1 \in 1..Len(q)
  BY <1>2
<1>4. \A i \in 1..Len(Tail(q)) :
        \/ Tail(q)[i].op = "ERROR"
        \/ IsLate(Tail(q)[i], c, p)
        \/ state # "off" /\ IsOld(Tail(q)[i], c, p)
        \/ state # "off" /\ s = p + 1 /\ IsNew(Tail(q)[i], c, p)
  BY <1>3 DEF ClientQueue
<1>5. ASSUME NEW i \in 1..Len(Tail(q)), NEW j \in 1..Len(Tail(q)), i < j
      PROVE  /\ IsOld(Tail(q)[i], c, p) =>
                  \/ Tail(q)[j].op = "ERROR"
                  \/ IsOld(Tail(q)[j], c, p) \/ IsNew(Tail(q)[j], c, p)
             /\ IsNew(Tail(q)[i], c, p) =>
                  Tail(q)[j].op = "ERROR" \/ IsNew(Tail(q)[j], c, p)
  <2>1. i + 1 < j + 1
    BY <1>2, <1>5
  <2> QED BY <1>3, <2>1 DEF ClientQueue
<1> QED BY <1>2, <1>4, <1>5 DEF ClientQueue

\* A frame is sent to the client: an error, the last block of the call before,
\* the packet that the client has, or the next one.
LEMMA ClientAppend ==
  ASSUME TFTPAssumption, NEW c \in 1..Requests, NEW p \in Nat, NEW s, NEW state, NEW q,
         ClientQueue(q, c, p, s, state),
         NEW f \in Packets,
         \/ f.op = "ERROR"
         \/ state = "off" /\ IsLate(f, c, p)
         \/ state # "off" /\ s = p /\ IsOld(f, c, p)
         \/ state # "off" /\ s = p + 1 /\ IsNew(f, c, p)
  PROVE  ClientQueue(Append(q, f), c, p, s, state)
<1> DEFINE t == Append(q, f)
<1>1. q \in Seq(Packets)
  BY DEF ClientQueue
<1>2. /\ Len(q) \in Nat /\ t \in Seq(Packets) /\ Len(t) = Len(q) + 1
      /\ t[Len(q) + 1] = f /\ \A i \in 1..Len(q) : t[i] = q[i]
  BY <1>1, QueueEnds
<1> HIDE DEF t
<1>3. \A i \in 1..Len(t) : i \in 1..Len(q) \/ i = Len(q) + 1
  BY <1>2
<1>4. \A i \in 1..Len(t) :
        \/ t[i].op = "ERROR"
        \/ IsLate(t[i], c, p)
        \/ state # "off" /\ IsOld(t[i], c, p)
        \/ state # "off" /\ s = p + 1 /\ IsNew(t[i], c, p)
  BY <1>2, <1>3 DEF ClientQueue
<1>5. ASSUME NEW i \in 1..Len(t), NEW j \in 1..Len(t), i < j
      PROVE  /\ IsOld(t[i], c, p) =>
                  t[j].op = "ERROR" \/ IsOld(t[j], c, p) \/ IsNew(t[j], c, p)
             /\ IsNew(t[i], c, p) => t[j].op = "ERROR" \/ IsNew(t[j], c, p)
  <2>1. i \in 1..Len(q) /\ t[i] = q[i]
    BY <1>2, <1>5
  <2>2. CASE j \in 1..Len(q)
    BY <1>2, <1>5, <2>1, <2>2 DEF ClientQueue
  <2>3. CASE j = Len(q) + 1
    <3>1. t[j] = f
      BY <1>2, <2>3
    <3>2. \/ q[i].op = "ERROR"
          \/ IsLate(q[i], c, p)
          \/ state # "off" /\ IsOld(q[i], c, p)
          \/ state # "off" /\ s = p + 1 /\ IsNew(q[i], c, p)
      BY <2>1 DEF ClientQueue
    <3>3. s = p => s # p + 1
      OBVIOUS
    <3>4. /\ IsOld(q[i], c, p) \/ IsNew(q[i], c, p) => q[i].op # "ERROR"
          /\ IsLate(q[i], c, p) => ~IsOld(q[i], c, p) /\ ~IsNew(q[i], c, p)
          /\ IsOld(q[i], c, p) => ~IsNew(q[i], c, p)
      BY FramesDiffer
    <3> QED BY <2>1, <3>1, <3>2, <3>3, <3>4, Zenon
  <2> QED BY <1>3, <2>2, <2>3
<1> QED BY <1>2, <1>4, <1>5 DEF ClientQueue, t

\* The server takes up the request, or sends the next packet.
LEMMA ClientMore ==
  ASSUME NEW c, NEW p, NEW s, NEW state, NEW q, ClientQueue(q, c, p, s, state),
         NEW z, NEW also, state # "off" => also # "off", s = p + 1 => z = p + 1
  PROVE  ClientQueue(q, c, p, z, also)
BY DEF ClientQueue

\* The client takes the next block.
LEMMA ClientAdvance ==
  ASSUME TFTPAssumption, NEW c \in 1..Requests, NEW p \in Nat, NEW s, NEW state, NEW q,
         ClientQueue(q, c, p, s, state), q # <<>>, IsNew(q[1], c, p)
  PROVE  s = p + 1 /\ state # "off" /\ ClientQueue(Tail(q), c, p + 1, s, state)
<1>1. q \in Seq(Packets)
  BY DEF ClientQueue
<1>2. /\ Len(q) \in Nat /\ Len(q) >= 1
      /\ Tail(q) \in Seq(Packets) /\ Len(Tail(q)) = Len(q) - 1
      /\ \A i \in 1..(Len(q) - 1) : Tail(q)[i] = q[i + 1]
  BY <1>1, QueueEnds
<1>3. s = p + 1 /\ state # "off"
  <2>1. 1 \in 1..Len(q)
    BY <1>2
  <2>2. \/ q[1].op = "ERROR"
        \/ IsLate(q[1], c, p)
        \/ state # "off" /\ IsOld(q[1], c, p)
        \/ state # "off" /\ s = p + 1 /\ IsNew(q[1], c, p)
    BY <2>1 DEF ClientQueue
  <2> QED BY <2>2, FramesDiffer, Zenon
<1>4. \A i \in 1..Len(Tail(q)) : Tail(q)[i].op = "ERROR" \/ IsNew(Tail(q)[i], c, p)
  <2> TAKE i \in 1..Len(Tail(q))
  <2>1. Tail(q)[i] = q[i + 1] /\ 1 \in 1..Len(q) /\ i + 1 \in 1..Len(q) /\ 1 < i + 1
    BY <1>2
  <2> QED BY <2>1 DEF ClientQueue
<1>5. \A f : /\ IsNew(f, c, p) => IsOld(f, c, p + 1) /\ ~IsNew(f, c, p + 1)
             /\ IsNew(f, c, p + 1) => f.op # "ERROR"
  <2>1. p + 1 \in Nat
    OBVIOUS
  <2> QED BY <2>1, FramesDiffer, Zenon
<1>6. \A i \in 1..Len(Tail(q)) :
        /\ Tail(q)[i].op = "ERROR" \/ IsOld(Tail(q)[i], c, p + 1)
        /\ ~IsNew(Tail(q)[i], c, p + 1)
  BY <1>4, <1>5, Zenon
<1>7. ClientQueue(Tail(q), c, p + 1, s, state)
  BY <1>2, <1>3, <1>6, Zenon DEF ClientQueue
<1> QED BY <1>3, <1>7

\* The next call begins: what comes again is the last block of this one.
LEMMA ClientTurn ==
  ASSUME TFTPAssumption, NEW c \in 1..Requests, NEW p \in Nat, NEW s, NEW state, NEW q,
         ClientQueue(q, c, p, s, state), p = Blocks(c), s <= Blocks(c),
         c + 1 \in 1..Requests
  PROVE  ClientQueue(q, c + 1, 0, 0, "off")
<1>1. q \in Seq(Packets)
  BY DEF ClientQueue
<1>2. s # p + 1 /\ p # 0
  BY FileBlocks
<1>3. \A i \in 1..Len(q) : q[i].op = "ERROR" \/ IsOld(q[i], c, p)
  BY <1>2 DEF ClientQueue, IsLate
<1>4. \A f : IsOld(f, c, p) => IsLate(f, c + 1, 0)
  <2>1. c + 1 > 1 /\ (c + 1) - 1 = c
    OBVIOUS
  <2> QED BY <2>1 DEF IsOld, IsLate
<1>5. \A f : /\ IsLate(f, c + 1, 0) => ~IsOld(f, c + 1, 0) /\ ~IsNew(f, c + 1, 0)
             /\ IsOld(f, c + 1, 0) \/ IsNew(f, c + 1, 0) => f.op # "ERROR"
  <2>1. 0 \in Nat
    OBVIOUS
  <2> QED BY <2>1, FramesDiffer, Zenon
<1>6. \A i \in 1..Len(q) :
        /\ q[i].op = "ERROR" \/ IsLate(q[i], c + 1, 0)
        /\ ~IsOld(q[i], c + 1, 0) /\ ~IsNew(q[i], c + 1, 0)
  BY <1>3, <1>4, <1>5, Zenon
<1> QED BY <1>1, <1>6, Zenon DEF ClientQueue

-----------------------------------------------------------------------------
(* The frames that come to the server.                                     *)

Messages == Rrqs \cup Acks

\* Two acknowledgements in a row differ.
LEMMA AcksDiffer ==
  ASSUME TFTPAssumption, NEW p \in Nat, NEW f, NEW r
  PROVE  /\ IsAck(f, r, p) => ~IsAck(f, r, p - 1) /\ ~IsAck(f, r, p + 1)
         /\ IsAck(f, r, p) => f.op = "ACK" /\ f.to = r /\ f.block = p % Modulus
         /\ f.op = "ACK" /\ f.to = r /\ f.block = p % Modulus => IsAck(f, r, p)
<1>1. p % Modulus # (p + 1) % Modulus
  BY BlockNumbers
<1>2. p - 1 >= 0 => p % Modulus # (p - 1) % Modulus
  <2>1. \A b \in Nat : b % Modulus # (b + 1) % Modulus
    BY BlockNumbers
  <2>2. CASE p - 1 >= 0
    <3>1. p - 1 \in Nat /\ (p - 1) + 1 = p
      BY <2>2
    <3> QED BY <2>1, <3>1
  <2> QED BY <2>2
<1>3. IsAck(f, r, p) => ~IsAck(f, r, p - 1)
  BY <1>2, Zenon DEF IsAck
<1>4. IsAck(f, r, p) => ~IsAck(f, r, p + 1)
  BY <1>1, Zenon DEF IsAck
<1>5. p >= 0
  OBVIOUS
<1> QED BY <1>3, <1>4, <1>5, Zenon DEF IsAck

\* The server takes a frame, or one is lost.
LEMMA ServerTail ==
  ASSUME TFTPAssumption, NEW c, NEW p, NEW s, NEW state, NEW where, NEW q,
         ServerQueue(q, c, p, s, state, where), q # <<>>
  PROVE  ServerQueue(Tail(q), c, p, s, state, where)
<1>1. q \in Seq(Messages)
  BY DEF ServerQueue, Messages
<1>2. /\ Len(q) \in Nat /\ Len(q) >= 1
      /\ Tail(q) \in Seq(Messages) /\ Len(Tail(q)) = Len(q) - 1
      /\ \A i \in 1..(Len(q) - 1) : Tail(q)[i] = q[i + 1]
  BY <1>1, QueueEnds
<1>3. \A i \in 1..Len(Tail(q)) : Tail(q)[i] = q[i + 1] /\ i + 1 \in 1..Len(q)
  BY <1>2
<1>4. \A i \in 1..Len(Tail(q)) :
        \/ Tail(q)[i].op = "RRQ" /\ Tail(q)[i].to = c /\ state = "off" /\ where = "wait"
        \/ Tail(q)[i].op = "ACK" /\ Tail(q)[i].to < c
        \/ state # "off" /\ IsAck(Tail(q)[i], c, p)
        \/ state # "off" /\ s = p /\ IsAck(Tail(q)[i], c, p - 1)
  BY <1>3, Zenon DEF ServerQueue
<1>5. ASSUME NEW i \in 1..Len(Tail(q)), NEW j \in 1..Len(Tail(q)), i < j
      PROVE  /\ Tail(q)[i].op = "RRQ" => Tail(q)[j].op # "RRQ"
             /\ IsAck(Tail(q)[i], c, p) => ~IsAck(Tail(q)[j], c, p - 1)
  <2>1. i + 1 < j + 1
    BY <1>2, <1>5
  <2> QED BY <1>3, <2>1, Zenon DEF ServerQueue
<1> QED BY <1>2, <1>4, <1>5, Zenon DEF ServerQueue, Messages

\* An acknowledgement is sent: to a call before, or of what the client has.
LEMMA ServerAppend ==
  ASSUME TFTPAssumption, NEW c \in 1..Requests, NEW p \in Nat, NEW s, NEW state, NEW where,
         NEW q, ServerQueue(q, c, p, s, state, where),
         NEW f \in Messages, f.op = "ACK",
         f.to < c \/ (state # "off" /\ IsAck(f, c, p))
  PROVE  ServerQueue(Append(q, f), c, p, s, state, where)
<1> DEFINE t == Append(q, f)
<1>1. q \in Seq(Messages)
  BY DEF ServerQueue, Messages
<1>2. /\ Len(q) \in Nat /\ t \in Seq(Messages) /\ Len(t) = Len(q) + 1
      /\ t[Len(q) + 1] = f /\ \A i \in 1..Len(q) : t[i] = q[i]
  BY <1>1, QueueEnds
<1> HIDE DEF t
<1>3. \A i \in 1..Len(t) : i \in 1..Len(q) \/ i = Len(q) + 1
  BY <1>2
<1>4. \A i \in 1..Len(t) :
        \/ t[i].op = "RRQ" /\ t[i].to = c /\ state = "off" /\ where = "wait"
        \/ t[i].op = "ACK" /\ t[i].to < c
        \/ state # "off" /\ IsAck(t[i], c, p)
        \/ state # "off" /\ s = p /\ IsAck(t[i], c, p - 1)
  BY <1>2, <1>3, Zenon DEF ServerQueue
<1>5. ASSUME NEW i \in 1..Len(t), NEW j \in 1..Len(t), i < j
      PROVE  /\ t[i].op = "RRQ" => t[j].op # "RRQ"
             /\ IsAck(t[i], c, p) => ~IsAck(t[j], c, p - 1)
  <2>1. i \in 1..Len(q) /\ t[i] = q[i]
    BY <1>2, <1>5
  <2>2. CASE j \in 1..Len(q)
    BY <1>2, <1>5, <2>1, <2>2, Zenon DEF ServerQueue
  <2>3. CASE j = Len(q) + 1
    <3>1. t[j] = f
      BY <1>2, <2>3
    <3>2. ~IsAck(f, c, p - 1)
      <4>1. CASE f.to < c
        <5>1. f.to # c
          BY <4>1
        <5> QED BY <5>1 DEF IsAck
      <4>2. CASE IsAck(f, c, p)
        BY <4>2, AcksDiffer
      <4> QED BY <4>1, <4>2
    <3> QED BY <3>1, <3>2
  <2> QED BY <1>3, <2>2, <2>3
<1> QED BY <1>2, <1>4, <1>5, Zenon DEF ServerQueue, t, Messages

\* The client asks for a file.
LEMMA ServerAsked ==
  ASSUME TFTPAssumption, NEW c \in 1..Requests, NEW p \in Nat, NEW s, NEW where, NEW q,
         ServerQueue(q, c, p, s, "off", where), where # "wait",
         NEW f \in Messages, f.op = "RRQ", f.to = c
  PROVE  /\ ServerQueue(Append(q, f), c, p, s, "off", "wait")
         /\ ServerQueue(q, c, p, s, "off", "wait")
<1> DEFINE t == Append(q, f)
<1>1. q \in Seq(Messages)
  BY DEF ServerQueue, Messages
<1>2. /\ Len(q) \in Nat /\ t \in Seq(Messages) /\ Len(t) = Len(q) + 1
      /\ t[Len(q) + 1] = f /\ \A i \in 1..Len(q) : t[i] = q[i]
  BY <1>1, QueueEnds
<1> HIDE DEF t
<1>3. \A i \in 1..Len(t) : i \in 1..Len(q) \/ i = Len(q) + 1
  BY <1>2
<1>4. \A i \in 1..Len(q) : q[i].op = "ACK" /\ q[i].to < c
  BY DEF ServerQueue
<1>5. \A i, j \in 1..Len(t) : i < j => i \in 1..Len(q)
  BY <1>2
<1>6. ~IsAck(f, c, p - 1)
  BY DEF IsAck
<1>7. \A i \in 1..Len(q) : q[i].op # "RRQ" /\ q[i].op = "ACK"
  BY <1>4
<1>8. \A i \in 1..Len(q) : q[i].to # c
  BY <1>4, SMT
<1>11. \A i \in 1..Len(t) : \/ t[i].op = "RRQ" /\ t[i].to = c
                            \/ t[i].op = "ACK" /\ t[i].to < c
  BY <1>2, <1>3, <1>4, Zenon
<1>12. \A i, j \in 1..Len(t) : i < j => t[i].op # "RRQ" /\ t[i].to # c
  <2> TAKE i, j \in 1..Len(t)
  <2>1. ASSUME i < j  PROVE t[i].op # "RRQ" /\ t[i].to # c
    <3>1. i \in 1..Len(q)
      BY <1>5, <2>1
    <3>2. t[i] = q[i]
      BY <1>2, <3>1
    <3> QED BY <1>7, <1>8, <3>1, <3>2, Zenon
  <2> QED BY <2>1
<1>9. ServerQueue(t, c, p, s, "off", "wait")
  BY <1>2, <1>11, <1>12, Zenon DEF ServerQueue, Messages, IsAck
<1>10. ServerQueue(q, c, p, s, "off", "wait")
  BY <1>1, <1>4, <1>7, <1>8, Zenon DEF ServerQueue, Messages, IsAck
<1> QED BY <1>9, <1>10 DEF t

\* The server takes up the request: no other one is under way.
LEMMA ServerOpened ==
  ASSUME TFTPAssumption, NEW c \in 1..Requests, NEW p \in Nat, NEW s, NEW where, NEW q,
         ServerQueue(q, c, p, s, "off", where), q # <<>>, q[1].op = "RRQ",
         NEW also
  PROVE  ServerQueue(Tail(q), c, p, s, also, where)
<1>1. q \in Seq(Messages)
  BY DEF ServerQueue, Messages
<1>2. /\ Len(q) \in Nat /\ Len(q) >= 1
      /\ Tail(q) \in Seq(Messages) /\ Len(Tail(q)) = Len(q) - 1
      /\ \A i \in 1..(Len(q) - 1) : Tail(q)[i] = q[i + 1]
  BY <1>1, QueueEnds
<1>3. \A i \in 1..Len(Tail(q)) :
        Tail(q)[i] = q[i + 1] /\ i + 1 \in 1..Len(q) /\ 1 \in 1..Len(q) /\ 1 < i + 1
  BY <1>2
<1>4. \A i \in 1..Len(q) : q[i].op = "RRQ" \/ (q[i].op = "ACK" /\ q[i].to < c)
  BY DEF ServerQueue
<1>5. \A i \in 1..Len(Tail(q)) : Tail(q)[i].op # "RRQ"
  BY <1>3, Zenon DEF ServerQueue
<1>6. \A i \in 1..Len(Tail(q)) : Tail(q)[i].op = "ACK" /\ Tail(q)[i].to < c
  <2> TAKE i \in 1..Len(Tail(q))
  <2>1. Tail(q)[i] = q[i + 1] /\ i + 1 \in 1..Len(q)
    BY <1>3, Zenon
  <2>2. Tail(q)[i].op # "RRQ"
    BY <1>5, Zenon
  <2> QED BY <1>4, <2>1, <2>2, Zenon
<1>7. \A i \in 1..Len(Tail(q)) : Tail(q)[i].to # c
  <2> TAKE i \in 1..Len(Tail(q))
  <2>1. PICK x : x = Tail(q)[i].to
    OBVIOUS
  <2>2. x < c
    BY <1>6, <2>1, Zenon
  <2>3. x # c
    BY <2>2
  <2> QED BY <2>1, <2>3
<1> QED BY <1>2, <1>5, <1>6, <1>7, Zenon DEF ServerQueue, Messages, IsAck

\* The server sends the next block.
LEMMA ServerSends ==
  ASSUME TFTPAssumption, NEW c \in 1..Requests, NEW p \in Nat, NEW s, NEW state, NEW where,
         NEW q, ServerQueue(q, c, p, s, state, where), q # <<>>, IsAck(q[1], c, p),
         state # "off", NEW z
  PROVE  ServerQueue(Tail(q), c, p, z, state, where)
<1>1. ServerQueue(Tail(q), c, p, s, state, where)
  BY ServerTail
<1>2. q \in Seq(Messages)
  BY DEF ServerQueue, Messages
<1>3. /\ Len(q) \in Nat /\ Len(q) >= 1
      /\ Tail(q) \in Seq(Messages) /\ Len(Tail(q)) = Len(q) - 1
      /\ \A i \in 1..(Len(q) - 1) : Tail(q)[i] = q[i + 1]
  BY <1>2, QueueEnds
<1>4. \A i \in 1..Len(Tail(q)) :
        Tail(q)[i] = q[i + 1] /\ i + 1 \in 1..Len(q) /\ 1 \in 1..Len(q) /\ 1 < i + 1
  BY <1>3
<1>5. \A i \in 1..Len(Tail(q)) : ~IsAck(Tail(q)[i], c, p - 1)
  BY <1>4, Zenon DEF ServerQueue
<1> QED BY <1>1, <1>5, Zenon DEF ServerQueue

\* The client acknowledges the next block.
LEMMA ServerAdvance ==
  ASSUME TFTPAssumption, NEW c \in 1..Requests, NEW p \in Nat, NEW s, NEW state, NEW where,
         NEW q, ServerQueue(q, c, p, s, state, where), s = p + 1, state # "off",
         NEW f \in Messages, IsAck(f, c, p + 1)
  PROVE  ServerQueue(Append(q, f), c, p + 1, s, state, where)
<1> DEFINE t == Append(q, f)
<1>1. q \in Seq(Messages)
  BY DEF ServerQueue, Messages
<1>2. /\ Len(q) \in Nat /\ t \in Seq(Messages) /\ Len(t) = Len(q) + 1
      /\ t[Len(q) + 1] = f /\ \A i \in 1..Len(q) : t[i] = q[i]
  BY <1>1, QueueEnds
<1> HIDE DEF t
<1>3. \A i \in 1..Len(t) : i \in 1..Len(q) \/ i = Len(q) + 1
  BY <1>2
<1>4. s # p /\ p + 1 - 1 = p
  OBVIOUS
<1>5. \A i \in 1..Len(q) : (q[i].op = "ACK" /\ q[i].to < c) \/ IsAck(q[i], c, p)
  BY <1>4, Zenon DEF ServerQueue
<1>6. \A i \in 1..Len(q) : q[i].op # "RRQ" /\ ~IsAck(q[i], c, p + 1)
  <2> TAKE i \in 1..Len(q)
  <2>1. CASE q[i].op = "ACK" /\ q[i].to < c
    <3>1. q[i].to # c
      BY <2>1
    <3> QED BY <2>1, <3>1 DEF IsAck
  <2>2. CASE IsAck(q[i], c, p)
    <3>1. ~IsAck(q[i], c, p + 1)
      BY <2>2, AcksDiffer
    <3> QED BY <2>2, <3>1 DEF IsAck
  <2> QED BY <1>5, <2>1, <2>2
<1>7. \A i, j \in 1..Len(t) : i < j => i \in 1..Len(q)
  BY <1>2
<1>8. \A i \in 1..Len(t) :
        \/ t[i].op = "ACK" /\ t[i].to < c
        \/ state # "off" /\ IsAck(t[i], c, p + 1)
        \/ state # "off" /\ s = p + 1 /\ IsAck(t[i], c, p + 1 - 1)
  BY <1>2, <1>3, <1>4, <1>5, Zenon
<1>9. \A i, j \in 1..Len(t) : i < j =>
        t[i].op # "RRQ" /\ ~IsAck(t[i], c, p + 1)
  <2> TAKE i, j \in 1..Len(t)
  <2>1. ASSUME i < j  PROVE t[i].op # "RRQ" /\ ~IsAck(t[i], c, p + 1)
    <3>1. i \in 1..Len(q)
      BY <1>7, <2>1
    <3>2. t[i] = q[i]
      BY <1>2, <3>1
    <3> QED BY <1>6, <3>1, <3>2, Zenon
  <2> QED BY <2>1
<1>10. \A i, j \in 1..Len(t) : i < j =>
         /\ t[i].op = "RRQ" => t[j].op # "RRQ"
         /\ IsAck(t[i], c, p + 1) => ~IsAck(t[j], c, p + 1 - 1)
  BY <1>9, Zenon
<1>11. \A i \in 1..Len(t) :
         \/ t[i].op = "RRQ" /\ t[i].to = c /\ state = "off" /\ where = "wait"
         \/ t[i].op = "ACK" /\ t[i].to < c
         \/ state # "off" /\ IsAck(t[i], c, p + 1)
         \/ state # "off" /\ s = p + 1 /\ IsAck(t[i], c, p + 1 - 1)
  BY <1>8, Zenon
<1>12. t \in Seq(Rrqs \cup Acks)
  BY <1>2 DEF Messages
<1>13. ServerQueue(t, c, p + 1, s, state, where)
  BY <1>10, <1>11, <1>12 DEF ServerQueue
<1> QED BY <1>13 DEF t

\* The next call begins, or a call returns.
LEMMA ServerTurn ==
  ASSUME TFTPAssumption, NEW c \in 1..Requests, NEW p \in Nat, NEW s, NEW state, NEW where,
         NEW q, ServerQueue(q, c, p, s, state, where)
  PROVE  /\ where # "wait" => ServerQueue(q, c + 1, 0, 0, "off", "block")
         /\ state # "off" \/ where # "wait" =>
              \A there : ServerQueue(q, c, p, s, state, there)
<1>1. q \in Seq(Messages) /\ Len(q) \in Nat
  BY DEF ServerQueue, Messages
<1>2. ASSUME where # "wait"  PROVE ServerQueue(q, c + 1, 0, 0, "off", "block")
  <2>1. \A i \in 1..Len(q) : q[i].op = "ACK" /\ (q[i].to < c \/ q[i].to = c)
    BY <1>2, Zenon DEF ServerQueue, IsAck
  <2>2. \A i \in 1..Len(q) : q[i].to < c + 1 /\ q[i].to # c + 1
    <3> TAKE i \in 1..Len(q)
    <3>1. q[i] \in Acks
      BY <1>1, <2>1, QueueEnds DEF Messages, Rrqs
    <3>2. q[i].to \in 1..Requests
      BY <3>1 DEF Acks
    <3>3. PICK x \in 1..Requests : x = q[i].to
      BY <3>2
    <3>4. x < c \/ x = c
      BY <2>1, <3>3, Zenon
    <3>5. x < c + 1 /\ x # c + 1
      BY <3>4
    <3> QED BY <3>3, <3>5, Zenon
  <2>3. \A i \in 1..Len(q) : q[i].op # "RRQ"
    BY <2>1
  <2> QED BY <1>1, <2>1, <2>2, <2>3, Zenon DEF ServerQueue, Messages, IsAck
<1>3. ASSUME state # "off" \/ where # "wait", NEW there
      PROVE  ServerQueue(q, c, p, s, state, there)
  BY <1>3, Zenon DEF ServerQueue
<1> QED BY <1>2, <1>3

\* The last acknowledgement stays under way until the server takes it.
LEMMA LastAcks ==
  ASSUME TFTPAssumption, NEW q \in Seq(Messages), NEW r
  PROVE  /\ LastAck(q, r) => q # <<>> /\ q[1].op # "RRQ"
         /\ LastAck(q, r) /\ ~IsAck(q[1], r, Blocks(r)) => LastAck(Tail(q), r)
         /\ \A f \in Messages : LastAck(q, r) => LastAck(Append(q, f), r)
         /\ \A f \in Messages :
              /\ IsAck(f, r, Blocks(r)) /\ f.op # "RRQ"
              /\ \A i \in 1..Len(q) : q[i].op # "RRQ"
              => LastAck(Append(q, f), r)
<1>1. Len(q) \in Nat
  OBVIOUS
<1>2. ASSUME LastAck(q, r)  PROVE q # <<>> /\ q[1].op # "RRQ"
  <2>1. PICK i \in 1..Len(q) : \A j \in 1..i : q[j].op # "RRQ"
    BY <1>2 DEF LastAck
  <2>2. 1 \in 1..i /\ Len(q) # 0
    BY <1>1, <2>1
  <2> QED BY <2>1, <2>2
<1>3. ASSUME LastAck(q, r), ~IsAck(q[1], r, Blocks(r))  PROVE LastAck(Tail(q), r)
  <2>1. PICK i \in 1..Len(q) : IsAck(q[i], r, Blocks(r)) /\ \A j \in 1..i : q[j].op # "RRQ"
    BY <1>3 DEF LastAck
  <2>2. i # 1
    BY <1>3, <2>1
  <2>3. /\ Len(Tail(q)) = Len(q) - 1
        /\ \A j \in 1..(Len(q) - 1) : Tail(q)[j] = q[j + 1]
    BY <1>2, <1>3, QueueEnds
  <2>4. i - 1 \in 1..Len(Tail(q)) /\ Tail(q)[i - 1] = q[i]
    BY <1>1, <2>2, <2>3
  <2>5. \A j \in 1..(i - 1) : Tail(q)[j].op # "RRQ"
    <3> TAKE j \in 1..(i - 1)
    <3>1. j + 1 \in 1..i /\ Tail(q)[j] = q[j + 1]
      BY <1>1, <2>3
    <3> QED BY <2>1, <3>1
  <2> QED BY <2>1, <2>4, <2>5, Zenon DEF LastAck
<1>4. ASSUME NEW f \in Messages
      PROVE  /\ Len(Append(q, f)) = Len(q) + 1 /\ Append(q, f)[Len(q) + 1] = f
             /\ \A i \in 1..Len(q) : Append(q, f)[i] = q[i]
  BY QueueEnds
<1>5. ASSUME NEW f \in Messages, LastAck(q, r)  PROVE LastAck(Append(q, f), r)
  <2> DEFINE t == Append(q, f)
  <2>1. PICK i \in 1..Len(q) : IsAck(q[i], r, Blocks(r)) /\ \A j \in 1..i : q[j].op # "RRQ"
    BY <1>5 DEF LastAck
  <2>2. Len(t) = Len(q) + 1 /\ \A j \in 1..Len(q) : t[j] = q[j]
    BY <1>4
  <2> HIDE DEF t
  <2>3. i \in 1..Len(t) /\ t[i] = q[i]
    BY <1>1, <2>2
  <2>4. \A j \in 1..i : t[j].op # "RRQ"
    <3> TAKE j \in 1..i
    <3>1. j \in 1..Len(q)
      BY <1>1
    <3> QED BY <2>1, <2>2, <3>1
  <2>5. LastAck(t, r)
    BY <2>1, <2>3, <2>4, Zenon DEF LastAck
  <2> QED BY <2>5 DEF t
<1>6. ASSUME NEW f \in Messages, IsAck(f, r, Blocks(r)), f.op # "RRQ",
             \A i \in 1..Len(q) : q[i].op # "RRQ"
      PROVE  LastAck(Append(q, f), r)
  <2> DEFINE t == Append(q, f)
  <2>2. Len(t) = Len(q) + 1 /\ t[Len(q) + 1] = f /\ \A j \in 1..Len(q) : t[j] = q[j]
    BY <1>4
  <2> HIDE DEF t
  <2>3. Len(q) + 1 \in 1..Len(t)
    BY <1>1, <2>2
  <2>4. \A j \in 1..(Len(q) + 1) : t[j].op # "RRQ"
    <3> TAKE j \in 1..(Len(q) + 1)
    <3>1. j \in 1..Len(q) \/ j = Len(q) + 1
      BY <1>1
    <3> QED BY <1>6, <2>2, <3>1, Zenon
  <2>5. LastAck(t, r)
    BY <1>6, <2>2, <2>3, <2>4, Zenon DEF LastAck
  <2> QED BY <2>5 DEF t
<1> QED BY <1>2, <1>3, <1>5, <1>6, Zenon

\* Another connection state, or a server that has sent more.
LEMMA ServerMore ==
  ASSUME NEW c, NEW p, NEW s, NEW state, NEW where, NEW q,
         ServerQueue(q, c, p, s, state, where), state # "off",
         NEW also, also # "off"
  PROVE  ServerQueue(q, c, p, s, also, where)
BY Zenon DEF ServerQueue

-----------------------------------------------------------------------------
(* The steps of the caller.                                                *)

\* What the invariant says of the numbers and the queues.
LEMMA Basics ==
  ASSUME TFTPAssumption, call \in 1..Requests, NEW p \in Nat, Progress(p)
  PROVE  /\ call \in Nat /\ Blocks(call) \in Nat \ {0} /\ p <= Blocks(call)
         /\ sent[call] \in {p, p + 1} /\ sent[call] <= Blocks(call)
         /\ server[call] = "off" => p = 0 /\ sent[call] = 0
         /\ toServer \in Seq(Messages) /\ toClient \in Seq(Packets)
         /\ Contents(call, 0) = <<>> /\ Contents(call, Blocks(call)) = Stored(call)
         /\ Len(Contents(call, p)) \in Nat
         /\ SubSeq(Contents(call, p), 1, Len(Contents(call, p))) = Contents(call, p)
         /\ IsPrefix(Contents(call, p), Stored(call))
<1>1. call \in Nat /\ Blocks(call) \in Nat \ {0}
  BY FileBlocks DEF TFTPAssumption
<1>2. p <= Blocks(call) /\ sent[call] \in {p, p + 1} /\ sent[call] <= Blocks(call)
  BY <1>1 DEF Progress, Connections
<1>3. server[call] = "off" => p = 0 /\ sent[call] = 0
  <2>1. server[call] = "off" => sent[call] = 0
    BY DEF Progress, Connections
  <2> QED BY <1>2, <2>1
<1>4. toServer \in Seq(Messages) /\ toClient \in Seq(Packets)
  BY DEF Progress, ServerQueue, ClientQueue, Messages
<1>5. p \in 0..Blocks(call)
  BY <1>1, <1>2
<1> QED BY <1>1, <1>2, <1>3, <1>4, <1>5, BlockByBlock

\* The stores of request.
LEMMA ResetSteps ==
  ASSUME TFTPAssumption, call \in 1..Requests, NEW p \in Nat, Progress(p),
         ResetBlock \/ ResetDone \/ ResetError
  PROVE  Progress(p)'
<1>1. /\ call' = call /\ toClient' = toClient /\ toServer' = toServer
      /\ server' = server /\ sent' = sent /\ result' = result
      /\ caller # "wait" /\ caller # "out" /\ caller' # "wait" /\ caller' # "out"
  BY DEF ResetBlock, ResetDone, ResetError, transfer, link, servers, Goto
<1>2. Connections(call, p)'
  BY <1>1 DEF Progress, Connections
<1>3. Client(call, p)'
  BY DEF Progress, Client, Begun, ResetBlock, ResetDone, ResetError, transfer, link,
         servers, Goto
<1>4. ClientQueue(toClient, call, p, sent[call], server[call])'
  BY <1>1 DEF Progress
<1>5. ServerQueue(toServer, call, p, sent[call], server[call], caller)'
  <2>1. ServerQueue(toServer, call, p, sent[call], server[call], caller)
    BY DEF Progress
  <2>2. ServerQueue(toServer, call, p, sent[call], server[call], caller')
    BY <1>1, <2>1, ServerTurn
  <2> QED BY <1>1, <2>2
<1>6. Results(call)'
  BY <1>1 DEF Progress, Results
<1>7. (Len(toServer) <= Capacity)'
  BY <1>1 DEF Progress
<1> QED BY <1>2, <1>3, <1>4, <1>5, <1>6, <1>7 DEF Progress

\* The request goes out.
LEMMA SendRequestStep ==
  ASSUME TFTPAssumption, call \in 1..Requests, NEW p \in Nat, Progress(p), SendRequest
  PROVE  Progress(p)'
<1> DEFINE f == [op |-> "RRQ", to |-> call]
<1>1. /\ call' = call /\ toClient' = toClient /\ server' = server /\ sent' = sent
      /\ result' = result /\ caller = "send" /\ caller' = "wait"
      /\ toServer' = Put(toServer, f)
      /\ received' = received /\ block' = block /\ done' = done /\ error' = error
      /\ permits' = permits /\ buffer' = buffer /\ copying' = copying
  BY DEF SendRequest, transfer, servers, Goto
<1>2. f \in Messages /\ f.op = "RRQ" /\ f.to = call
  BY DEF Messages, Rrqs
<1>3. /\ p = 0 /\ server[call] = "off" /\ permits = 0 /\ copying = Nothing
      /\ buffer = <<>> /\ received = 0 /\ block = 1 /\ ~done /\ ~error
  BY <1>1 DEF Progress, Client, Begun
<1> HIDE DEF f
<1>4. toServer' = toServer \/ (toServer' = Append(toServer, f) /\ Len(toServer) < Capacity)
  BY <1>1, Zenon DEF Put
<1>5. Connections(call, p)'
  <2>1. ASSUME NEW r, LastAck(toServer, r)  PROVE LastAck(toServer', r)
    <3>1. toServer \in Seq(Messages)
      BY Basics
    <3>2. LastAck(Append(toServer, f), r)
      BY <1>2, <2>1, <3>1, LastAcks
    <3> QED BY <1>4, <2>1, <3>2
  <2>2. p # Blocks(call)
    BY <1>3, Basics
  <2> QED BY <1>1, <2>1, <2>2 DEF Progress, Connections
<1>6. Client(call, p)'
  <2>1. (0 + 1) % Modulus = 1 /\ 0 # Blocks(call) /\ Contents(call, 0) = <<>>
    <3>1. 0 \in Nat /\ 0 + 1 = 1
      OBVIOUS
    <3> QED BY <1>3, <3>1, BlockNumbers, Basics
  <2>2. Len(<<>>) = 0
    OBVIOUS
  <2>3. (p + 1) % Modulus = 1
    BY <1>3, <2>1
  <2>4. done' <=> (p = Blocks(call) /\ copying = Nothing)'
    BY <1>1, <1>3, <2>1
  <2>5. /\ ~error' /\ block' = 1 /\ received' = Len(buffer') /\ ~done' /\ permits' = 0
        /\ copying' = Nothing /\ buffer' = Contents(call', p)
    BY <1>1, <1>3, <2>1, <2>2
  <2> QED BY <1>1, <2>3, <2>4, <2>5 DEF Client, Begun
<1>7. ClientQueue(toClient, call, p, sent[call], server[call])'
  BY <1>1 DEF Progress
<1>8. ServerQueue(toServer, call, p, sent[call], server[call], caller)'
  <2>1. ServerQueue(toServer, call, p, sent[call], "off", "send")
    BY <1>1, <1>3 DEF Progress
  <2>2. /\ ServerQueue(Append(toServer, f), call, p, sent[call], "off", "wait")
        /\ ServerQueue(toServer, call, p, sent[call], "off", "wait")
    BY <1>2, <2>1, ServerAsked
  <2> QED BY <1>1, <1>3, <1>4, <2>2
<1>9. Results(call)'
  BY <1>1 DEF Progress, Results
<1>10. (Len(toServer) <= Capacity)'
  <2>1. Capacity \in Nat /\ Len(toServer) <= Capacity /\ Len(toServer) \in Nat
    BY Basics DEF Progress, TFTPAssumption
  <2>2. Len(Append(toServer, f)) = Len(toServer) + 1
    BY <1>2, Basics, QueueEnds
  <2> QED BY <1>4, <2>1, <2>2
<1> QED BY <1>5, <1>6, <1>7, <1>8, <1>9, <1>10 DEF Progress

\* The call returns the file.
LEMMA ReturnStep ==
  ASSUME TFTPAssumption, call \in 1..Requests, NEW p \in Nat, Progress(p), Return
  PROVE  Progress(p)'
<1>1. /\ call' = call /\ toClient' = toClient /\ server' = server /\ sent' = sent
      /\ caller = "wait" /\ caller' = "out" /\ toServer' = toServer
      /\ permits > 0 /\ permits' = permits - 1
      /\ received' = received /\ block' = block /\ done' = done /\ error' = error
      /\ buffer' = buffer /\ copying' = copying
  BY DEF Return, link, servers, Goto
<1>2. /\ ~error /\ received = Len(buffer)
      /\ done => p = Blocks(call) /\ copying = Nothing
      /\ permits = (IF done THEN 1 ELSE 0)
      /\ copying = Nothing => buffer = Contents(call, p)
  <2>1. Client(call, p)
    BY DEF Progress
  <2>2. Data(call, p) # Nothing
    BY DEF Data, Nothing
  <2> QED BY <1>1, <2>1, <2>2 DEF Client, Begun
<1>3. done /\ p = Blocks(call) /\ copying = Nothing /\ permits' = 0
      /\ buffer = Contents(call, p)
  <2>1. CASE done
    BY <1>1, <1>2, <2>1
  <2>2. CASE ~done
    BY <1>1, <1>2, <2>2
  <2> QED BY <2>1, <2>2
<1>4. result' = [result EXCEPT ![call] = Stored(call)]
  <2>1. result' = [result EXCEPT ![call] = SubSeq(buffer, 1, received)]
    BY <1>2 DEF Return
  <2>2. SubSeq(buffer, 1, received) = Stored(call)
    BY <1>2, <1>3, Basics
  <2> QED BY <2>1, <2>2
<1>5. server[call] # "off"
  BY <1>3, Basics
<1>6. Connections(call, p)'
  BY <1>1 DEF Progress, Connections
<1>7. Client(call, p)'
  BY <1>1, <1>3 DEF Client, Begun
<1>8. ClientQueue(toClient, call, p, sent[call], server[call])'
  BY <1>1 DEF Progress
<1>9. ServerQueue(toServer, call, p, sent[call], server[call], caller)'
  <2>1. ServerQueue(toServer, call, p, sent[call], server[call], "wait")
    BY <1>1 DEF Progress
  <2>2. ServerQueue(toServer, call, p, sent[call], server[call], "out")
    BY <1>5, <2>1, ServerTurn
  <2> QED BY <1>1, <2>2
<1>10. Results(call)'
  <2>1. DOMAIN result' = 1..Requests
    BY <1>4 DEF Progress, Results
  <2>2. ASSUME NEW r \in 1..Requests, result'[r] # Pending
        PROVE  (r < call \/ r = call) /\ result'[r] = Stored(r)
    <3>1. DOMAIN result = 1..Requests
      BY DEF Progress, Results
    <3>2. CASE r = call
      BY <1>4, <3>1, <3>2
    <3>3. CASE r # call
      <4>1. result'[r] = result[r]
        BY <1>4, <3>1, <3>3
      <4> QED BY <2>2, <3>3, <4>1 DEF Progress, Results
    <3> QED BY <3>2, <3>3
  <2> QED BY <1>1, <2>1, <2>2 DEF Results
<1>11. (Len(toServer) <= Capacity)'
  BY <1>1 DEF Progress
<1> QED BY <1>6, <1>7, <1>8, <1>9, <1>10, <1>11 DEF Progress

\* The next call begins.
LEMMA BeginStep ==
  ASSUME TFTPAssumption, call \in 1..Requests, NEW p \in Nat, Progress(p), Begin
  PROVE  call' \in 1..Requests /\ Progress(0)'
<1>1. /\ call' = call + 1 /\ toClient' = toClient /\ server' = server /\ sent' = sent
      /\ caller = "out" /\ caller' = "block" /\ toServer' = toServer
      /\ received' = 0 /\ buffer' = <<>> /\ block' = block /\ done' = done
      /\ error' = error /\ permits' = permits /\ copying' = copying /\ result' = result
  BY DEF Begin, link, servers, Goto
<1>2. call' \in 1..Requests /\ call \in 1..Requests /\ call \in Int
  BY <1>1 DEF Begin, TFTPAssumption
<1>3. done /\ permits = 0 /\ copying = Nothing /\ p = Blocks(call)
  BY <1>1 DEF Progress, Client
<1>4. /\ Blocks(call) \in Nat \ {0} /\ server[call] # "off" /\ sent[call] = Blocks(call)
  <2>1. Blocks(call) \in Nat \ {0}
    BY Basics
  <2>2. sent[call] \in {p, p + 1} /\ sent[call] <= Blocks(call)
    BY Basics
  <2>3. server[call] = "off" => p = 0
    BY Basics
  <2> QED BY <1>3, <2>1, <2>2, <2>3
<1>5. server[call + 1] = "off" /\ sent[call + 1] = 0
  BY <1>1, <1>2 DEF Progress, Connections
<1>13. PICK d \in 1..Requests : d = call + 1
  BY <1>1, <1>2
<1>6. Connections(d, 0)'
  <2>1. server \in [1..Requests -> {"off", "on", "over"}] /\ sent \in [1..Requests -> Nat]
    BY DEF Progress, Connections
  <2>2. ASSUME NEW r \in 1..Requests
        PROVE  /\ r > d => server[r] = "off"
               /\ server[r] = "off" => sent[r] = 0
               /\ r < call => server[r] # "on"
    <3>1. r > d => r > call
      BY <1>2, <1>13
    <3>2. r < call => r < call - 1 \/ (r = call - 1 /\ call > 1)
      BY <1>2
    <3>3. call > 1 => server[call - 1] # "on"
      BY <1>4 DEF Progress, Connections
    <3> QED BY <3>1, <3>2, <3>3 DEF Progress, Connections
  <2>3. 0 \in 0..Blocks(d) /\ Blocks(d) \in Nat \ {0} /\ server[d] = "off" /\ sent[d] = 0
    <3>1. Blocks(d) \in Nat \ {0}
      BY FileBlocks
    <3> QED BY <1>5, <1>13, <3>1
  <2>4. server[call] = "on" => LastAck(toServer, call)
    BY <1>3 DEF Progress, Connections
  <2>5. d - 1 = call
    BY <1>2, <1>13
  <2>6. ASSUME NEW r \in 1..Requests
        PROVE  /\ r > d => server[r] = "off"
               /\ server[r] = "off" => sent[r] = 0
               /\ r < d - 1 => server[r] # "on"
    BY <2>2, <2>5
  <2>7. d > 1 /\ server[d - 1] = "on" =>
          server[d] = "off" /\ sent[d - 1] = Blocks(d - 1) /\ LastAck(toServer, d - 1)
    BY <1>4, <2>3, <2>4, <2>5
  <2>8. 0 # Blocks(d)
    BY <2>3
  <2> QED BY <1>1, <2>1, <2>3, <2>6, <2>7, <2>8 DEF Connections
<1>7. Client(call, 0)'
  BY <1>1, <1>3, <1>5 DEF Client, Begun
<1>8. ClientQueue(toClient, call, 0, sent[call], server[call])'
  <2>1. ClientQueue(toClient, call, p, sent[call], server[call])
    BY DEF Progress
  <2>2. ClientQueue(toClient, call + 1, 0, 0, "off")
    BY <1>1, <1>2, <1>3, <1>4, <2>1, ClientTurn
  <2> QED BY <1>1, <1>5, <2>2
<1>9. ServerQueue(toServer, call, 0, sent[call], server[call], caller)'
  <2>1. ServerQueue(toServer, call, p, sent[call], server[call], "out")
    BY <1>1 DEF Progress
  <2>2. ServerQueue(toServer, call + 1, 0, 0, "off", "block")
    BY <2>1, ServerTurn
  <2> QED BY <1>1, <1>5, <2>2
<1>10. Results(call)'
  BY <1>1, <1>2 DEF Progress, Results
<1>11. (Len(toServer) <= Capacity)'
  BY <1>1 DEF Progress
<1>12. Connections(call, 0)'
  BY <1>1, <1>6, <1>13
<1> QED BY <1>2, <1>7, <1>8, <1>9, <1>10, <1>11, <1>12 DEF Progress

-----------------------------------------------------------------------------
(* The steps of the worker.                                                *)

\* What the first frame that comes to the client may be.
LEMMA HeadOfClient ==
  ASSUME TFTPAssumption, call \in 1..Requests, NEW p \in Nat, Progress(p), toClient # <<>>
  PROVE  /\ Head(toClient) = toClient[1] /\ toClient[1] \in Packets
         /\ ClientQueue(Tail(toClient), call, p, sent[call], server[call])
         /\ \/ toClient[1].op = "ERROR"
            \/ IsLate(toClient[1], call, p)
            \/ server[call] # "off" /\ IsOld(toClient[1], call, p)
            \/ /\ server[call] # "off" /\ sent[call] = p + 1
               /\ IsNew(toClient[1], call, p)
<1>1. ClientQueue(toClient, call, p, sent[call], server[call])
  BY DEF Progress
<1>2. toClient \in Seq(Packets)
  BY Basics
<1>3. Head(toClient) = toClient[1] /\ toClient[1] \in Packets /\ 1 \in 1..Len(toClient)
  BY <1>2, QueueEnds
<1>4. ClientQueue(Tail(toClient), call, p, sent[call], server[call])
  BY <1>1, ClientTail
<1> QED BY <1>1, <1>3, <1>4, Zenon DEF ClientQueue

\* An acknowledgement of what the client has, or to an earlier call, is sent.
LEMMA AckStep ==
  ASSUME TFTPAssumption, call \in 1..Requests, NEW p \in Nat, Progress(p),
         NEW number, NEW to, Ack(number, to), ~disturbed',
         number \in 0..(Modulus - 1), to \in 1..Requests,
         to < call \/ (server[call] # "off" /\ to = call /\ number = p % Modulus)
  PROVE  /\ ServerQueue(toServer', call, p, sent[call], server[call], caller)
         /\ Len(toServer') <= Capacity
         /\ \A r : LastAck(toServer, r) => LastAck(toServer', r)
<1> DEFINE f == [op |-> "ACK", block |-> number, to |-> to]
<1>1. f \in Messages /\ f.op = "ACK" /\ f.to = to /\ f.block = number
  BY DEF Messages, Acks
<1>2. toServer' = Put(toServer, f) /\ Len(toServer) # Capacity
  BY Zenon DEF Ack
<1> HIDE DEF f
<1>3. toServer \in Seq(Messages) /\ Len(toServer) \in Nat /\ Len(toServer) <= Capacity
      /\ Capacity \in Nat
  BY Basics DEF Progress, TFTPAssumption
<1>4. Len(toServer) < Capacity
  BY <1>2, <1>3
<1>5. toServer' = Append(toServer, f)
  BY <1>2, <1>4 DEF Put
<1>6. Len(toServer') <= Capacity
  <2>1. Len(Append(toServer, f)) = Len(toServer) + 1
    BY <1>1, <1>3, QueueEnds
  <2> QED BY <1>3, <1>4, <1>5, <2>1
<1>7. ServerQueue(toServer', call, p, sent[call], server[call], caller)
  <2>1. ServerQueue(toServer, call, p, sent[call], server[call], caller)
    BY DEF Progress
  <2>2. f.to < call \/ (server[call] # "off" /\ IsAck(f, call, p))
    <3>1. to = call /\ number = p % Modulus => IsAck(f, call, p)
      BY <1>1, AcksDiffer
    <3> QED BY <1>1, <3>1, Zenon
  <2>3. ServerQueue(Append(toServer, f), call, p, sent[call], server[call], caller)
    BY <1>1, <2>1, <2>2, ServerAppend
  <2> QED BY <1>5, <2>3
<1>8. \A r : LastAck(toServer, r) => LastAck(toServer', r)
  BY <1>1, <1>3, <1>5, LastAcks
<1> QED BY <1>6, <1>7, <1>8

\* The server has taken up the request; the client has nothing yet.
LEMMA OnOackStep ==
  ASSUME TFTPAssumption, call \in 1..Requests, NEW p \in Nat, Progress(p),
         OnOack, ~disturbed'
  PROVE  Progress(p)'
<1>1. /\ toClient # <<>> /\ Head(toClient).op = "OACK" /\ toClient' = Tail(toClient)
      /\ Ack(0, Head(toClient).from)
      /\ call' = call /\ caller' = caller /\ server' = server /\ sent' = sent
      /\ received' = received /\ block' = block /\ done' = done /\ error' = error
      /\ permits' = permits /\ buffer' = buffer /\ copying' = copying /\ result' = result
  BY DEF OnOack, Take, transfer, servers
<1>2. /\ Head(toClient) = toClient[1]
      /\ ClientQueue(Tail(toClient), call, p, sent[call], server[call])
      /\ \/ toClient[1].op = "ERROR"
         \/ IsLate(toClient[1], call, p)
         \/ server[call] # "off" /\ IsOld(toClient[1], call, p)
         \/ IsNew(toClient[1], call, p)
  BY <1>1, HeadOfClient
<1>3. IsOld(toClient[1], call, p) /\ server[call] # "off"
  <2>1. ~IsLate(toClient[1], call, p)
    <3>1. ASSUME call > 1  PROVE Packet(call - 1, Blocks(call - 1)).op = "DATA"
      <4>1. call - 1 \in 1..Requests
        BY <3>1 DEF TFTPAssumption
      <4>2. Blocks(call - 1) \in Nat /\ Blocks(call - 1) # 0
        BY <4>1, FileBlocks
      <4> QED BY <4>1, <4>2, DataPackets
    <3> QED BY <1>1, <1>2, <3>1 DEF IsLate
  <2>2. ~IsNew(toClient[1], call, p)
    <3>1. p + 1 \in Nat /\ p + 1 # 0
      OBVIOUS
    <3>2. Packet(call, p + 1).op = "DATA"
      BY <3>1, DataPackets
    <3> QED BY <1>1, <1>2, <3>2 DEF IsNew
  <2>3. toClient[1].op # "ERROR"
    BY <1>1, <1>2
  <2> QED BY <1>2, <2>1, <2>2, <2>3
<1>4. p = 0 /\ toClient[1].from = call
  <2>1. toClient[1] = Packet(call, p) /\ toClient[1].op = "OACK"
    BY <1>1, <1>2, <1>3 DEF IsOld
  <2>2. p # 0 => Packet(call, p).op = "DATA"
    BY DataPackets
  <2>3. toClient[1].from = call
    BY <1>3, FramesDiffer
  <2> QED BY <2>1, <2>2, <2>3
<1>5. /\ ServerQueue(toServer', call, p, sent[call], server[call], caller)
      /\ Len(toServer') <= Capacity
      /\ \A r : LastAck(toServer, r) => LastAck(toServer', r)
  <2>1. 0 % Modulus = 0 /\ 0 \in 0..(Modulus - 1)
    BY <1>4, BlockNumbers DEF TFTPAssumption
  <2>2. Ack(0, call) /\ 0 = p % Modulus
    BY <1>1, <1>2, <1>4, <2>1
  <2> QED BY <1>3, <2>1, <2>2, AckStep
<1>6. Connections(call, p)'
  BY <1>1, <1>5 DEF Progress, Connections
<1>7. Client(call, p)'
  BY <1>1 DEF Progress, Client
<1>8. Results(call)'
  BY <1>1 DEF Progress, Results
<1> QED BY <1>1, <1>2, <1>5, <1>6, <1>7, <1>8 DEF Progress

\* A block that is not the expected one, or comes when the transfer is over,
\* is dropped.
LEMMA RepeatedStep ==
  ASSUME TFTPAssumption, call \in 1..Requests, NEW p \in Nat, Progress(p), Clean,
         toClient # <<>>, toClient' = Tail(toClient), toClient[1].op = "DATA",
         \/ done /\ toServer' = toServer
         \/ /\ ~done /\ toClient[1].block # block /\ ~disturbed'
            /\ Ack((block + Modulus - 1) % Modulus, toClient[1].from),
         call' = call, caller' = caller, server' = server, sent' = sent,
         received' = received, block' = block, done' = done, error' = error,
         permits' = permits, buffer' = buffer, copying' = copying, result' = result
  PROVE  Progress(p)'
<1>1. /\ ClientQueue(Tail(toClient), call, p, sent[call], server[call])
      /\ \/ IsLate(toClient[1], call, p)
         \/ server[call] # "off" /\ IsOld(toClient[1], call, p)
         \/ server[call] # "off" /\ IsNew(toClient[1], call, p)
  BY HeadOfClient
<1>2. /\ ServerQueue(toServer', call, p, sent[call], server[call], caller)
      /\ Len(toServer') <= Capacity
      /\ \A r : LastAck(toServer, r) => LastAck(toServer', r)
  <2>1. CASE done /\ toServer' = toServer
    BY <2>1 DEF Progress
  <2>2. CASE /\ ~done /\ toClient[1].block # block /\ ~disturbed'
             /\ Ack((block + Modulus - 1) % Modulus, toClient[1].from)
    <3>1. CASE IsLate(toClient[1], call, p)
      <4>1. toClient[1].from = call - 1 /\ call > 1
        BY <3>1, FramesDiffer DEF IsLate
      <4>2. call - 1 \in 1..Requests /\ call - 1 < call
        BY <4>1 DEF TFTPAssumption
      <4>3. (block + Modulus - 1) % Modulus \in 0..(Modulus - 1)
        <5>1. block = (p + 1) % Modulus
          <6>1. caller \in Begun => p = 0 /\ block = 1
            BY <2>2 DEF Progress, Client, Begun
          <6>2. caller = "wait" => block = (p + 1) % Modulus
            BY DEF Progress, Client
          <6>3. caller \in Begun \/ caller = "wait"
            BY <2>2 DEF Progress, Client
          <6>4. (0 + 1) % Modulus = 1
            <7>1. 0 \in Nat /\ 0 + 1 = 1
              OBVIOUS
            <7> QED BY <7>1, BlockNumbers
          <6> QED BY <6>1, <6>2, <6>3, <6>4
        <5> QED BY <5>1, BlockNumbers
      <4>4. Ack((block + Modulus - 1) % Modulus, call - 1)
        BY <2>2, <4>1
      <4> QED BY <2>2, <4>2, <4>3, <4>4, AckStep
    <3>2. CASE server[call] # "off" /\ ~IsLate(toClient[1], call, p)
      <4>1. caller = "wait" /\ block = (p + 1) % Modulus
        BY <2>2, <3>2 DEF Progress, Client
      <4>2. ~IsNew(toClient[1], call, p)
        <5>1. p + 1 \in Nat /\ p + 1 # 0
          OBVIOUS
        <5>2. Packet(call, p + 1).block = (p + 1) % Modulus
          BY <5>1, DataPackets
        <5> QED BY <2>2, <4>1, <5>2 DEF IsNew
      <4>3. toClient[1].from = call
        BY <1>1, <3>2, <4>2, FramesDiffer
      <4>4. (block + Modulus - 1) % Modulus = p % Modulus /\ p % Modulus \in 0..(Modulus - 1)
        BY <4>1, BlockNumbers
      <4>5. Ack((block + Modulus - 1) % Modulus, call)
        BY <2>2, <4>3
      <4> QED BY <2>2, <3>2, <4>4, <4>5, AckStep
    <3> QED BY <1>1, <3>1, <3>2
  <2> QED BY <2>1, <2>2
<1>3. Connections(call, p)'
  BY <1>2 DEF Progress, Connections
<1>4. Client(call, p)'
  BY DEF Progress, Client
<1>5. Results(call)'
  BY DEF Progress, Results
<1> QED BY <1>1, <1>2, <1>3, <1>4, <1>5 DEF Progress

\* The client takes the block that it expects: of its own connection, as the
\* last block of the one before has another number.
LEMMA ExpectedStep ==
  ASSUME TFTPAssumption, call \in 1..Requests, NEW p \in Nat, Progress(p), Clean,
         toClient # <<>>, toClient' = Tail(toClient), toClient[1].op = "DATA",
         ~done, toClient[1].block = block, ~disturbed', copying = Nothing,
         block' = (block + 1) % Modulus, copying' = toClient[1],
         Ack(toClient[1].block, toClient[1].from),
         call' = call, caller' = caller, server' = server, sent' = sent,
         received' = received, done' = done, error' = error,
         permits' = permits, buffer' = buffer, result' = result
  PROVE  Progress(p + 1)'
<1>1. /\ \/ IsLate(toClient[1], call, p)
         \/ server[call] # "off" /\ IsOld(toClient[1], call, p)
         \/ server[call] # "off" /\ sent[call] = p + 1 /\ IsNew(toClient[1], call, p)
  BY HeadOfClient
<1>2. p + 1 \in Nat /\ p + 1 # 0 /\ p + 1 - 1 = p
  OBVIOUS
<1>3. ~IsLate(toClient[1], call, p)
  <2> SUFFICES ASSUME IsLate(toClient[1], call, p)  PROVE FALSE
    OBVIOUS
  <2>1. call > 1 /\ p = 0 /\ toClient[1] = Packet(call - 1, Blocks(call - 1))
    BY DEF IsLate
  <2>2. call - 1 \in 1..Requests /\ call - 1 \in 1..(call - 1)
    BY <2>1 DEF TFTPAssumption
  <2>3. toClient[1].block = Blocks(call - 1) % Modulus
    <3>1. Blocks(call - 1) \in Nat /\ Blocks(call - 1) # 0
      BY <2>2, FileBlocks
    <3>2. Packet(call - 1, Blocks(call - 1)).block = Blocks(call - 1) % Modulus
      BY <2>2, <3>1, DataPackets
    <3> QED BY <2>1, <3>2
  <2>4. block = 1
    <3>1. caller \in Begun \/ caller = "wait"
      BY DEF Progress, Client
    <3>2. caller \in Begun => block = 1
      BY DEF Progress, Client, Begun
    <3>3. caller = "wait" => block = (0 + 1) % Modulus
      BY <2>1 DEF Progress, Client
    <3>4. (0 + 1) % Modulus = 1
      <4>1. 0 \in Nat /\ 0 + 1 = 1
        OBVIOUS
      <4> QED BY <4>1, BlockNumbers
    <3> QED BY <3>1, <3>2, <3>3, <3>4
  <2> QED BY <2>2, <2>3, <2>4 DEF Clean
<1>4. server[call] # "off"
  BY <1>1, <1>3
<1>5. caller = "wait" /\ block = (p + 1) % Modulus /\ ~error /\ permits = 0
      /\ received = Len(buffer) /\ buffer = Contents(call, p)
  <2>1. caller = "wait"
    BY <1>4 DEF Progress, Client
  <2>2. Data(call, p) # Nothing
    BY DEF Data, Nothing
  <2> QED BY <2>1, <2>2 DEF Progress, Client, Begun
<1>6. ~IsOld(toClient[1], call, p)
  <2> SUFFICES ASSUME IsOld(toClient[1], call, p)  PROVE FALSE
    OBVIOUS
  <2>1. p # 0
    <3>1. p = 0 => Packet(call, p).op = "OACK"
      BY PacketFields
    <3> QED BY <3>1 DEF IsOld
  <2>2. Packet(call, p).block = p % Modulus
    BY <2>1, DataPackets
  <2>3. p % Modulus = (p + 1) % Modulus
    BY <1>5, <2>2 DEF IsOld
  <2> QED BY <2>3, BlockNumbers
<1>7. IsNew(toClient[1], call, p) /\ sent[call] = p + 1
  BY <1>1, <1>3, <1>6
<1>8. /\ toClient[1] = Data(call, p + 1) /\ toClient[1].block = (p + 1) % Modulus
      /\ toClient[1].from = call
  <2>1. /\ Packet(call, p + 1) = Data(call, p + 1) /\ Packet(call, p + 1).from = call
        /\ Packet(call, p + 1).block = (p + 1) % Modulus
    BY <1>2, DataPackets
  <2> QED BY <1>7, <2>1 DEF IsNew
<1> DEFINE f == [op |-> "ACK", block |-> (p + 1) % Modulus, to |-> call]
<1>9. f \in Messages /\ IsAck(f, call, p + 1) /\ f.op # "RRQ"
  <2>1. (p + 1) % Modulus \in 0..(Modulus - 1)
    BY <1>2, BlockNumbers
  <2> QED BY <1>2, <2>1 DEF Messages, Acks, IsAck
<1>10. toServer' = Put(toServer, f) /\ Len(toServer) # Capacity
  BY <1>8, Zenon DEF Ack
<1> HIDE DEF f
<1>11. /\ toServer \in Seq(Messages) /\ Len(toServer) \in Nat
       /\ Len(toServer) <= Capacity /\ Capacity \in Nat
  <2>1. toServer \in Seq(Messages)
    BY Basics
  <2> QED BY <2>1, QueueEnds DEF Progress, TFTPAssumption
<1>12. toServer' = Append(toServer, f)
  <2>1. Len(toServer) < Capacity
    BY <1>10, <1>11
  <2> QED BY <1>10, <2>1 DEF Put
<1>13. Len(toServer') <= Capacity
  <2>1. Len(Append(toServer, f)) = Len(toServer) + 1
    BY <1>9, <1>11, QueueEnds
  <2> QED BY <1>10, <1>11, <1>12, <2>1
<1>14. ServerQueue(toServer, call, p, sent[call], server[call], caller)
  BY DEF Progress
<1>15. ServerQueue(toServer', call, p + 1, sent[call], server[call], caller)
  <2>1. ServerQueue(Append(toServer, f), call, p + 1, sent[call], server[call], caller)
    BY <1>4, <1>7, <1>9, <1>14, ServerAdvance
  <2> QED BY <1>12, <2>1
<1>16. ClientQueue(toClient', call, p + 1, sent[call], server[call])
  <2>1. ClientQueue(toClient, call, p, sent[call], server[call])
    BY DEF Progress
  <2> QED BY <1>7, <2>1, ClientAdvance
<1>17. Connections(call, p + 1)'
  <2>1. p + 1 \in 0..Blocks(call) /\ sent[call] \in {p + 1, p + 1 + 1}
    BY <1>2, <1>7, Basics
  <2>2. ASSUME p + 1 = Blocks(call)  PROVE LastAck(toServer', call)
    <3>1. \A i \in 1..Len(toServer) : toServer[i].op # "RRQ"
      BY <1>4, <1>14, Zenon DEF ServerQueue, IsAck
    <3>2. IsAck(f, call, Blocks(call))
      BY <1>9, <2>2
    <3>3. LastAck(Append(toServer, f), call)
      BY <1>9, <1>11, <3>1, <3>2, LastAcks
    <3> QED BY <1>12, <3>3
  <2>3. ~(call > 1 /\ server[call - 1] = "on")
    BY <1>4 DEF Progress, Connections
  <2> QED BY <2>1, <2>2, <2>3 DEF Progress, Connections
<1>18. Client(call, p + 1)'
  <2>1. block' = (p + 1 + 1) % Modulus
    <3>1. (((p + 1) % Modulus) + 1) % Modulus = (p + 1 + 1) % Modulus
      BY <1>2, BlockNumbers
    <3> QED BY <1>5, <3>1
  <2>2. Data(call, p + 1) # Nothing
    BY DEF Data, Nothing
  <2>3. copying' = Data(call', p + 1) /\ copying' # Nothing
    BY <1>8, <2>2
  <2>4. p + 1 > 0 /\ buffer' = Contents(call', p + 1 - 1)
    BY <1>2, <1>5
  <2>5. ~error' /\ ~done' /\ permits' = 0 /\ received' = Len(buffer') /\ caller' = "wait"
    BY <1>5
  <2> QED BY <2>1, <2>3, <2>4, <2>5 DEF Client, Begun
<1>19. Results(call)'
  BY DEF Progress, Results
<1> QED BY <1>13, <1>15, <1>16, <1>17, <1>18, <1>19 DEF Progress

\* A data packet.
LEMMA OnDataStep ==
  ASSUME TFTPAssumption, call \in 1..Requests, NEW p \in Nat, Progress(p), Clean,
         OnData, ~disturbed'
  PROVE  \E z \in Nat : Progress(z)'
<1>1. /\ toClient # <<>> /\ Head(toClient).op = "DATA" /\ toClient' = Tail(toClient)
      /\ copying = Nothing
      /\ call' = call /\ caller' = caller /\ server' = server /\ sent' = sent
      /\ result' = result
  BY DEF OnData, Take, servers
<1>2. Head(toClient) = toClient[1]
  BY <1>1, HeadOfClient
<1> DEFINE fits == received + Len(Head(toClient).bytes) <= BufferSize[call]
<1>3. \/ done /\ UNCHANGED <<transfer, toServer, disturbed>>
      \/ ~done /\ ~fits /\ disturbed' = TRUE
      \/ /\ ~done /\ Head(toClient).block # block
         /\ Ack((block + Modulus - 1) % Modulus, Head(toClient).from)
         /\ UNCHANGED transfer
      \/ /\ ~done /\ Head(toClient).block = block
         /\ block' = (block + 1) % Modulus
         /\ Ack(Head(toClient).block, Head(toClient).from)
         /\ copying' = Head(toClient)
         /\ UNCHANGED <<received, done, error, permits, buffer>>
  BY Zenon DEF OnData
<1>4. CASE done /\ UNCHANGED <<transfer, toServer, disturbed>>
  BY <1>1, <1>2, <1>4, RepeatedStep DEF transfer
<1>5. CASE ~done /\ ~fits /\ disturbed' = TRUE
  BY <1>5
<1>6. CASE /\ ~done /\ Head(toClient).block # block
           /\ Ack((block + Modulus - 1) % Modulus, Head(toClient).from)
           /\ UNCHANGED transfer
  BY <1>1, <1>2, <1>6, RepeatedStep DEF transfer
<1>7. CASE /\ ~done /\ Head(toClient).block = block
           /\ block' = (block + 1) % Modulus
           /\ Ack(Head(toClient).block, Head(toClient).from)
           /\ copying' = Head(toClient)
           /\ UNCHANGED <<received, done, error, permits, buffer>>
  <2>1. Progress(p + 1)'
    BY <1>1, <1>2, <1>7, ExpectedStep
  <2>2. p + 1 \in Nat
    OBVIOUS
  <2> QED BY <2>1, <2>2
<1> QED BY <1>3, <1>4, <1>5, <1>6, <1>7, Zenon

\* The block is copied; a short one ends the transfer.
LEMMA CopyStep ==
  ASSUME TFTPAssumption, call \in 1..Requests, NEW p \in Nat, Progress(p), Copy
  PROVE  Progress(p)'
<1>1. /\ copying # Nothing /\ copying' = Nothing
      /\ call' = call /\ caller' = caller /\ server' = server /\ sent' = sent
      /\ result' = result /\ block' = block /\ error' = error
      /\ toClient' = toClient /\ toServer' = toServer
      /\ buffer' = SubSeq(buffer, 1, received) \o copying.bytes
      /\ received' = received + Len(copying.bytes)
  BY DEF Copy, link, servers
<1>2. /\ caller = "wait" /\ p > 0 /\ copying = Data(call, p)
      /\ buffer = Contents(call, p - 1) /\ received = Len(buffer)
      /\ ~error /\ block = (p + 1) % Modulus /\ ~done /\ permits = 0
  BY <1>1 DEF Progress, Client, Begun
<1>3. copying.bytes = Bytes(call, p)
  BY <1>2 DEF Data
<1>4. p \in 1..Blocks(call) /\ p - 1 \in 0..Blocks(call)
  BY <1>2, Basics
<1>5. /\ Contents(call, p - 1) \o Bytes(call, p) = Contents(call, p)
      /\ Len(Contents(call, p)) = Len(Contents(call, p - 1)) + Len(Bytes(call, p))
      /\ SubSeq(Contents(call, p - 1), 1, Len(Contents(call, p - 1))) = Contents(call, p - 1)
      /\ Len(Bytes(call, p)) \in Nat
  BY <1>4, BlockByBlock
<1>6. Len(Bytes(call, p)) < BlockSize <=> p = Blocks(call)
  BY <1>4, BlockCells
<1>7. buffer' = Contents(call, p) /\ received' = Len(buffer')
  BY <1>1, <1>2, <1>3, <1>5
<1>8. /\ p = Blocks(call) => done' /\ permits' = 1
      /\ p # Blocks(call) => ~done' /\ permits' = 0
  <2>1. BlockSize \in Nat /\ MaxPermits \in Nat \ {0}
    BY DEF TFTPAssumption
  <2>2. CASE p = Blocks(call)
    <3>1. ~(Len(copying.bytes) >= BlockSize)
      BY <1>3, <1>5, <1>6, <2>1, <2>2
    <3>2. done' = TRUE /\ V
      BY <3>1 DEF Copy
    <3>3. permits' = 1
      BY <1>2, <2>1, <3>2 DEF V
    <3> QED BY <2>2, <3>2, <3>3
  <2>3. CASE p # Blocks(call)
    <3>1. ~(Len(copying.bytes) < BlockSize)
      BY <1>3, <1>6, <2>3
    <3>2. UNCHANGED <<done, permits>>
      BY <3>1 DEF Copy
    <3> QED BY <1>2, <2>3, <3>2
  <2> QED BY <2>2, <2>3
<1>9. Client(call, p)'
  BY <1>1, <1>2, <1>7, <1>8 DEF Client, Begun
<1>10. Connections(call, p)'
  BY <1>1 DEF Progress, Connections
<1>11. Results(call)'
  BY <1>1 DEF Progress, Results
<1> QED BY <1>1, <1>9, <1>10, <1>11 DEF Progress

-----------------------------------------------------------------------------
(* The steps of the server and of the link.                                *)

\* What the first frame that comes to the server may be.
LEMMA HeadOfServer ==
  ASSUME TFTPAssumption, call \in 1..Requests, NEW p \in Nat, Progress(p), toServer # <<>>
  PROVE  /\ Head(toServer) = toServer[1]
         /\ ServerQueue(Tail(toServer), call, p, sent[call], server[call], caller)
         /\ Len(Tail(toServer)) <= Capacity
         /\ \/ /\ toServer[1].op = "RRQ" /\ toServer[1].to = call
               /\ server[call] = "off" /\ caller = "wait"
            \/ toServer[1].op = "ACK" /\ toServer[1].to < call
            \/ server[call] # "off" /\ IsAck(toServer[1], call, p)
            \/ /\ server[call] # "off" /\ sent[call] = p
               /\ IsAck(toServer[1], call, p - 1)
         /\ \A r : LastAck(toServer, r) => toServer[1].op # "RRQ"
         /\ \A r : LastAck(toServer, r) /\ ~IsAck(toServer[1], r, Blocks(r)) =>
              LastAck(Tail(toServer), r)
<1>1. ServerQueue(toServer, call, p, sent[call], server[call], caller)
  BY DEF Progress
<1>2. toServer \in Seq(Messages)
  BY Basics
<1>3. /\ Head(toServer) = toServer[1] /\ Len(toServer) \in Nat /\ Len(toServer) >= 1
      /\ Len(Tail(toServer)) = Len(toServer) - 1
  BY <1>2, QueueEnds
<1>4. 1 \in 1..Len(toServer)
  BY <1>3
<1>5. ServerQueue(Tail(toServer), call, p, sent[call], server[call], caller)
  BY <1>1, ServerTail
<1>6. Len(Tail(toServer)) <= Capacity
  <2>1. Len(toServer) <= Capacity /\ Capacity \in Nat
    BY DEF Progress, TFTPAssumption
  <2> QED BY <1>3, <2>1
<1>7. \/ /\ toServer[1].op = "RRQ" /\ toServer[1].to = call
         /\ server[call] = "off" /\ caller = "wait"
      \/ toServer[1].op = "ACK" /\ toServer[1].to < call
      \/ server[call] # "off" /\ IsAck(toServer[1], call, p)
      \/ server[call] # "off" /\ sent[call] = p /\ IsAck(toServer[1], call, p - 1)
  BY <1>1, <1>4, Zenon DEF ServerQueue
<1>8. \A r : /\ LastAck(toServer, r) => toServer[1].op # "RRQ"
             /\ LastAck(toServer, r) /\ ~IsAck(toServer[1], r, Blocks(r)) =>
                  LastAck(Tail(toServer), r)
  BY <1>2, LastAcks
<1> QED BY <1>3, <1>5, <1>6, <1>7, <1>8

\* A frame to the client goes into the link, or is lost.
LEMMA PutToClient ==
  ASSUME TFTPAssumption, call \in 1..Requests, NEW p \in Nat, NEW s, NEW state, NEW q,
         ClientQueue(q, call, p, s, state), NEW f \in Packets,
         \/ f.op = "ERROR"
         \/ state # "off" /\ s = p /\ IsOld(f, call, p)
         \/ state # "off" /\ s = p + 1 /\ IsNew(f, call, p)
  PROVE  ClientQueue(Put(q, f), call, p, s, state)
<1>1. ClientQueue(Append(q, f), call, p, s, state)
  BY ClientAppend
<1> QED BY <1>1, Zenon DEF Put

\* The server takes up the request, or answers with an error.
LEMMA ServerOpensStep ==
  ASSUME TFTPAssumption, call \in 1..Requests, NEW p \in Nat, Progress(p),
         NEW r \in 1..Requests, ServerOpens(r)
  PROVE  Progress(p)'
<1>1. /\ toServer # <<>> /\ Head(toServer).op = "RRQ" /\ Head(toServer).to = r
      /\ toServer' = Tail(toServer) /\ sent' = sent /\ call' = call /\ caller' = caller
      /\ received' = received /\ block' = block /\ done' = done /\ error' = error
      /\ permits' = permits /\ buffer' = buffer /\ copying' = copying /\ result' = result
  BY DEF ServerOpens, Arrives, transfer
<1>2. PICK also \in {"on", "over"}, f \in Packets :
        /\ server' = [server EXCEPT ![r] = also]
        /\ toClient' = Put(toClient, f)
        /\ f.op = "ERROR" \/ f = Packet(r, 0)
  <2>1. Packet(r, 0) \in Packets
    BY PacketFields
  <2>2. [op |-> "ERROR", from |-> r] \in Packets /\ [op |-> "ERROR", from |-> r].op = "ERROR"
    BY DEF Packets, Errors
  <2> QED BY <2>1, <2>2, Zenon DEF ServerOpens
<1>3. /\ toServer[1].op = "RRQ" /\ r = call /\ server[call] = "off" /\ caller = "wait"
      /\ Len(Tail(toServer)) <= Capacity
      /\ \A b : ~LastAck(toServer, b)
  BY <1>1, HeadOfServer DEF IsAck
<1>4. p = 0 /\ sent[call] = 0 /\ p # Blocks(call) /\ also # "off"
  BY <1>2, <1>3, Basics
<1>5. server \in [1..Requests -> {"off", "on", "over"}]
  BY DEF Progress, Connections
<1>6. /\ server' \in [1..Requests -> {"off", "on", "over"}] /\ server'[call] = also
      /\ \A b \in 1..Requests : b # call => server'[b] = server[b]
  BY <1>2, <1>3, <1>5
<1>7. Connections(call, p)'
  <2>1. ~(call > 1 /\ server[call - 1] = "on")
    BY <1>3 DEF Progress, Connections
  <2>2. call > 1 => server'[call - 1] = server[call - 1]
    <3>1. call > 1 => call - 1 \in 1..Requests /\ call - 1 # call
      BY DEF TFTPAssumption
    <3> QED BY <1>6, <3>1
  <2>3. ASSUME NEW b \in 1..Requests
        PROVE  /\ b > call => server'[b] = "off"
               /\ server'[b] = "off" => sent[b] = 0
               /\ b < call - 1 => server'[b] # "on"
    <3>1. CASE b = call
      <4>1. ~(b > call) /\ ~(b < call - 1)
        BY <3>1, Basics
      <4> QED BY <1>4, <1>6, <3>1, <4>1
    <3>2. CASE b # call
      BY <1>6, <3>2 DEF Progress, Connections
    <3> QED BY <3>1, <3>2
  <2> QED BY <1>1, <1>4, <1>6, <2>1, <2>2, <2>3 DEF Progress, Connections
<1>8. Client(call, p)'
  BY <1>1, <1>3 DEF Progress, Client, Begun
<1>9. ClientQueue(toClient, call, p, sent[call], server[call])'
  <2>1. ClientQueue(toClient, call, p, sent[call], "off")
    BY <1>3 DEF Progress
  <2>2. ClientQueue(toClient, call, p, sent[call], also)
    BY <2>1, ClientMore
  <2>3. f.op = "ERROR" \/ (also # "off" /\ sent[call] = p /\ IsOld(f, call, p))
    BY <1>2, <1>3, <1>4 DEF IsOld
  <2>4. ClientQueue(Put(toClient, f), call, p, sent[call], also)
    BY <2>2, <2>3, PutToClient
  <2> QED BY <1>1, <1>2, <1>6, <2>4
<1>10. ServerQueue(toServer, call, p, sent[call], server[call], caller)'
  <2>1. ServerQueue(toServer, call, p, sent[call], "off", caller)
    BY <1>3 DEF Progress
  <2>2. ServerQueue(Tail(toServer), call, p, sent[call], also, caller)
    BY <1>1, <1>3, <2>1, ServerOpened
  <2> QED BY <1>1, <1>6, <2>2
<1>11. Results(call)'
  BY <1>1 DEF Progress, Results
<1> QED BY <1>1, <1>3, <1>7, <1>8, <1>9, <1>10, <1>11 DEF Progress

\* A connection ends: its last block was acknowledged, or the server gives up.
LEMMA ServerOver ==
  ASSUME TFTPAssumption, call \in 1..Requests, NEW p \in Nat, Progress(p),
         NEW r \in 1..Requests, server[r] = "on",
         server' = [server EXCEPT ![r] = "over"],
         toServer' = toServer \/ (toServer # <<>> /\ toServer' = Tail(toServer)),
         r # call => toServer' = toServer \/ ~IsAck(toServer[1], call, Blocks(call)),
         toClient' = toClient, sent' = sent, call' = call, caller' = caller,
         received' = received, block' = block, done' = done, error' = error,
         permits' = permits, buffer' = buffer, copying' = copying, result' = result
  PROVE  Progress(p)'
<1>1. r = call \/ (call > 1 /\ r = call - 1 /\ server[call] = "off" /\ p # Blocks(call))
  <2>1. ~(r > call) /\ ~(r < call - 1)
    BY DEF Progress, Connections
  <2>2. r \in Int /\ call \in Int
    BY DEF TFTPAssumption
  <2>3. r = call \/ (call > 1 /\ r = call - 1)
    BY <2>1, <2>2
  <2>4. call > 1 /\ r = call - 1 => server[call] = "off"
    BY DEF Progress, Connections
  <2> QED BY <2>3, <2>4, Basics
<1>2. server \in [1..Requests -> {"off", "on", "over"}]
  BY DEF Progress, Connections
<1>3. /\ server' \in [1..Requests -> {"off", "on", "over"}] /\ server'[r] = "over"
      /\ \A b \in 1..Requests : b # r => server'[b] = server[b]
  BY <1>2
<1>4. server[call] = "off" <=> server'[call] = "off"
  <2>1. CASE r = call
    BY <1>3, <2>1
  <2>2. CASE r # call
    BY <1>3, <2>2
  <2> QED BY <2>1, <2>2
<1>5. Connections(call, p)'
  <2>1. ~(p = Blocks(call) /\ server'[call] = "on")
    BY <1>1, <1>3
  <2>2. ~(call > 1 /\ server'[call - 1] = "on")
    <3>1. CASE r = call
      <4>1. ~(call > 1 /\ server[call - 1] = "on")
        BY <3>1 DEF Progress, Connections
      <4>2. call > 1 => call - 1 \in 1..Requests /\ call - 1 # call
        BY DEF TFTPAssumption
      <4> QED BY <1>3, <3>1, <4>1, <4>2
    <3>2. CASE r = call - 1
      BY <1>3, <3>2
    <3> QED BY <1>1, <3>1, <3>2
  <2>3. ASSUME NEW b \in 1..Requests
        PROVE  /\ b > call => server'[b] = "off"
               /\ server'[b] = "off" => sent[b] = 0
               /\ b < call - 1 => server'[b] # "on"
    <3>1. CASE b = r
      <4>1. ~(b > call)
        BY <3>1 DEF Progress, Connections
      <4> QED BY <1>3, <3>1, <4>1
    <3>2. CASE b # r
      BY <1>3, <3>2 DEF Progress, Connections
    <3> QED BY <3>1, <3>2
  <2> QED BY <1>3, <2>1, <2>2, <2>3 DEF Progress, Connections
<1>6. Client(call, p)'
  BY <1>4 DEF Progress, Client, Begun
<1>7. ClientQueue(toClient, call, p, sent[call], server[call])'
  <2>1. ClientQueue(toClient, call, p, sent[call], server[call])
    BY DEF Progress
  <2>2. ClientQueue(toClient, call, p, sent[call], server'[call])
    BY <1>4, <2>1, ClientMore
  <2> QED BY <2>2
<1>8. ServerQueue(toServer', call, p, sent[call], server'[call], caller)
      /\ Len(toServer') <= Capacity
  <2>1. ServerQueue(toServer', call, p, sent[call], server[call], caller)
        /\ Len(toServer') <= Capacity
    BY HeadOfServer DEF Progress
  <2>2. CASE server[call] = "off"
    <3>1. server'[call] = server[call]
      BY <1>4, <2>2
    <3> QED BY <2>1, <3>1
  <2>3. CASE server[call] # "off"
    BY <1>4, <2>1, <2>3, ServerMore
  <2> QED BY <2>2, <2>3
<1>9. Results(call)'
  BY DEF Progress, Results
<1> QED BY <1>5, <1>6, <1>7, <1>8, <1>9 DEF Progress

\* The server is acknowledged.
LEMMA ServerAckedStep ==
  ASSUME TFTPAssumption, call \in 1..Requests, NEW p \in Nat, Progress(p),
         NEW r \in 1..Requests, ServerAcked(r)
  PROVE  Progress(p)'
<1>1. /\ toServer # <<>> /\ toServer[1].op = "ACK" /\ toServer[1].to = r
      /\ toServer' = Tail(toServer) /\ call' = call /\ caller' = caller
      /\ received' = received /\ block' = block /\ done' = done /\ error' = error
      /\ permits' = permits /\ buffer' = buffer /\ copying' = copying /\ result' = result
  BY HeadOfServer DEF ServerAcked, Arrives, transfer
<1> DEFINE matches == server[r] = "on" /\ toServer[1].block = sent[r] % Modulus
<1>2. \/ /\ matches /\ sent[r] = Blocks(r) /\ server' = [server EXCEPT ![r] = "over"]
         /\ sent' = sent /\ toClient' = toClient
      \/ /\ matches /\ sent[r] < Blocks(r) /\ sent' = [sent EXCEPT ![r] = @ + 1]
         /\ toClient' = Put(toClient, Packet(r, sent[r] + 1)) /\ server' = server
      \/ ~matches /\ server' = server /\ sent' = sent /\ toClient' = toClient
  <2>1. Head(toServer) = toServer[1]
    BY <1>1, HeadOfServer
  <2> QED BY <2>1, Zenon DEF ServerAcked, servers
<1>3. ~(r > call) => r = call \/ r < call
  BY DEF TFTPAssumption
<1>4. /\ ServerQueue(Tail(toServer), call, p, sent[call], server[call], caller)
      /\ Len(Tail(toServer)) <= Capacity
  BY <1>1, HeadOfServer
<1>5. IsAck(toServer[1], r, Blocks(r)) => toServer[1].block = Blocks(r) % Modulus
  BY DEF IsAck
<1>6. Results(call)'
  BY <1>1 DEF Progress, Results
<1>7. CASE ~matches /\ server' = server /\ sent' = sent /\ toClient' = toClient
  <2>1. ASSUME NEW b \in {call, call - 1}, b = call => p = Blocks(call), server[b] = "on",
               b = call - 1 => call > 1
        PROVE  LastAck(Tail(toServer), b)
    <3>1. LastAck(toServer, b) /\ sent[b] = Blocks(b)
      <4>1. CASE b = call
        <5>2. p = Blocks(call)
          BY <2>1, <4>1
        <5>1. sent[call] = Blocks(call)
          <6>1. PICK n \in Nat : n = Blocks(call)
            BY Basics
          <6>2. sent[call] \in {n, n + 1} /\ sent[call] <= n
            BY <5>2, <6>1, Basics
          <6> QED BY <6>1, <6>2
        <5> QED BY <2>1, <4>1, <5>1 DEF Progress, Connections
      <4>2. CASE b = call - 1
        BY <2>1, <4>2 DEF Progress, Connections
      <4> QED BY <4>1, <4>2
    <3>2. ~IsAck(toServer[1], b, Blocks(b))
      <4> SUFFICES ASSUME IsAck(toServer[1], b, Blocks(b))  PROVE FALSE
        OBVIOUS
      <4>1. b = r /\ toServer[1].block = Blocks(b) % Modulus
        BY <1>1 DEF IsAck
      <4> QED BY <1>7, <2>1, <3>1, <4>1
    <3> QED BY <1>1, <3>1, <3>2, HeadOfServer
  <2>2. Connections(call, p)'
    <3>1. p = Blocks(call) /\ server[call] = "on" => LastAck(Tail(toServer), call)
      <4>1. call # call - 1
        BY Basics
      <4> QED BY <2>1, <4>1
    <3>2. call > 1 /\ server[call - 1] = "on" => LastAck(Tail(toServer), call - 1)
      <4>1. call # call - 1
        BY Basics
      <4> QED BY <2>1, <4>1
    <3> QED BY <1>1, <1>7, <3>1, <3>2 DEF Progress, Connections
  <2>3. Client(call, p)'
    BY <1>1, <1>7 DEF Progress, Client, Begun
  <2> QED BY <1>1, <1>4, <1>6, <1>7, <2>2, <2>3 DEF Progress
<1>8. CASE /\ matches /\ sent[r] = Blocks(r) /\ server' = [server EXCEPT ![r] = "over"]
           /\ sent' = sent /\ toClient' = toClient
  <2>1. r # call => ~IsAck(toServer[1], call, Blocks(call))
    BY <1>1 DEF IsAck
  <2> QED BY <1>1, <1>8, <2>1, ServerOver
<1>9. CASE /\ matches /\ sent[r] < Blocks(r) /\ sent' = [sent EXCEPT ![r] = @ + 1]
           /\ toClient' = Put(toClient, Packet(r, sent[r] + 1)) /\ server' = server
  <2>1. r = call
    <3>1. ~(r > call) /\ ~(r < call - 1)
      BY <1>9 DEF Progress, Connections
    <3>2. ~(call > 1 /\ r = call - 1)
      <4>1. call > 1 /\ r = call - 1 => sent[r] = Blocks(r)
        BY <1>9 DEF Progress, Connections
      <4>2. Blocks(r) \in Nat
        BY FileBlocks
      <4> QED BY <1>9, <4>1, <4>2
    <3>3. r \in Int /\ call \in Int /\ r >= 1
      BY DEF TFTPAssumption
    <3> QED BY <3>1, <3>2, <3>3
  <2>2. server[call] = "on" /\ sent[call] < Blocks(call) /\ p \in Nat
        /\ toServer[1].block = sent[call] % Modulus
    BY <1>9, <2>1
  <2>3. IsAck(toServer[1], call, p) /\ sent[call] = p
    <3>1. \/ IsAck(toServer[1], call, p)
          \/ sent[call] = p /\ IsAck(toServer[1], call, p - 1)
      <4>1. ~(toServer[1].to < call)
        BY <1>1, <2>1, Basics
      <4>2. toServer[1].op # "RRQ"
        BY <1>1
      <4> QED BY <1>1, <4>1, <4>2, HeadOfServer
    <3>2. IsAck(toServer[1], call, p) => toServer[1].block = p % Modulus
      BY DEF IsAck
    <3>3. p % Modulus # (p + 1) % Modulus
      BY BlockNumbers
    <3>4. sent[call] = p \/ sent[call] = p + 1
      BY Basics
    <3>5. sent[call] = p => IsAck(toServer[1], call, p)
      BY <1>1, <2>1, <2>2, AcksDiffer
    <3> QED BY <2>2, <3>1, <3>2, <3>3, <3>4, <3>5
  <2>4. sent \in [1..Requests -> Nat] /\ p + 1 <= Blocks(call) /\ p # Blocks(call)
    <3>1. Blocks(call) \in Nat
      BY Basics
    <3>2. p < Blocks(call)
      BY <2>2, <2>3
    <3>3. p + 1 <= Blocks(call) /\ p # Blocks(call)
      BY <3>1, <3>2
    <3>4. sent \in [1..Requests -> Nat]
      BY DEF Progress, Connections
    <3> QED BY <3>3, <3>4
  <2>5. /\ sent' \in [1..Requests -> Nat] /\ sent'[call] = p + 1
        /\ \A b \in 1..Requests : b # call => sent'[b] = sent[b]
    BY <1>9, <2>1, <2>3, <2>4
  <2>6. Connections(call, p)'
    <3>1. ~(call > 1 /\ server[call - 1] = "on")
      BY <2>2 DEF Progress, Connections
    <3>2. \A b \in 1..Requests : server[b] = "off" => sent'[b] = 0
      <4> TAKE b \in 1..Requests
      <4>1. CASE b = call
        BY <2>2, <4>1
      <4>2. CASE b # call
        BY <2>5, <4>2 DEF Progress, Connections
      <4> QED BY <4>1, <4>2
    <3> QED BY <1>1, <1>9, <2>4, <2>5, <3>1, <3>2 DEF Progress, Connections
  <2>7. Client(call, p)'
    BY <1>1, <1>9 DEF Progress, Client, Begun
  <2>8. ClientQueue(toClient, call, p, sent[call], server[call])'
    <3>1. ClientQueue(toClient, call, p, sent[call], server[call])
      BY DEF Progress
    <3>2. ClientQueue(toClient, call, p, p + 1, server[call])
      BY <3>1, ClientMore
    <3>3. Packet(call, p + 1) \in Packets
      <4>1. p + 1 \in Nat
        OBVIOUS
      <4> QED BY <4>1, PacketFields
    <3>4. IsNew(Packet(call, p + 1), call, p) /\ server[call] # "off"
      BY <2>2 DEF IsNew
    <3>5. ClientQueue(Put(toClient, Packet(call, p + 1)), call, p, p + 1, server[call])
      BY <3>2, <3>3, <3>4, PutToClient
    <3> QED BY <1>1, <1>9, <2>1, <2>3, <2>5, <3>5
  <2>9. ServerQueue(toServer, call, p, sent[call], server[call], caller)'
    <3>1. ServerQueue(toServer, call, p, sent[call], server[call], caller)
      BY DEF Progress
    <3>2. ServerQueue(Tail(toServer), call, p, p + 1, server[call], caller)
      BY <1>1, <2>2, <2>3, <3>1, ServerSends
    <3> QED BY <1>1, <1>9, <2>5, <3>2
  <2> QED BY <1>1, <1>4, <1>6, <2>6, <2>7, <2>8, <2>9 DEF Progress
<1> QED BY <1>2, <1>7, <1>8, <1>9, Zenon

\* The server repeats its last packet.
LEMMA TimeoutStep ==
  ASSUME TFTPAssumption, call \in 1..Requests, NEW p \in Nat, Progress(p),
         NEW r \in 1..Requests, Timeout(r)
  PROVE  Progress(p)'
<1>1. /\ server[r] = "on" /\ toClient' = Append(toClient, Packet(r, sent[r]))
      /\ toServer' = toServer /\ call' = call /\ caller' = caller
      /\ server' = server /\ sent' = sent
      /\ received' = received /\ block' = block /\ done' = done /\ error' = error
      /\ permits' = permits /\ buffer' = buffer /\ copying' = copying /\ result' = result
  BY DEF Timeout, transfer, servers
<1> DEFINE f == Packet(r, sent[r])
<1>2. f \in Packets
  <2>1. sent[r] \in Nat
    BY DEF Progress, Connections
  <2> QED BY <2>1, PacketFields
<1>3. \/ server[call] = "off" /\ IsLate(f, call, p)
      \/ server[call] # "off" /\ sent[call] = p /\ IsOld(f, call, p)
      \/ server[call] # "off" /\ sent[call] = p + 1 /\ IsNew(f, call, p)
  <2>1. r = call \/ (call > 1 /\ r = call - 1)
    <3>1. ~(r > call) /\ ~(r < call - 1)
      BY <1>1 DEF Progress, Connections
    <3>2. r \in Int /\ call \in Int /\ r >= 1
      BY DEF TFTPAssumption
    <3> QED BY <3>1, <3>2
  <2>2. CASE r = call
    <3>1. sent[call] = p \/ sent[call] = p + 1
      BY Basics
    <3> QED BY <1>1, <2>2, <3>1 DEF IsOld, IsNew
  <2>3. CASE call > 1 /\ r = call - 1
    <3>1. server[call] = "off" /\ sent[r] = Blocks(r)
      BY <1>1, <2>3 DEF Progress, Connections
    <3>2. p = 0
      BY <3>1, Basics
    <3> QED BY <2>3, <3>1, <3>2 DEF IsLate
  <2> QED BY <2>1, <2>2, <2>3
<1>4. ClientQueue(toClient, call, p, sent[call], server[call])
  BY DEF Progress
<1> HIDE DEF f
<1>5. ClientQueue(Append(toClient, f), call, p, sent[call], server[call])
  BY <1>2, <1>3, <1>4, ClientAppend
<1>6. Connections(call, p)' /\ Client(call, p)' /\ Results(call)'
  BY <1>1 DEF Progress, Connections, Client, Results
<1> QED BY <1>1, <1>5, <1>6 DEF Progress, f

\* The server gives up.
LEMMA GiveUpStep ==
  ASSUME TFTPAssumption, call \in 1..Requests, NEW p \in Nat, Progress(p),
         NEW r \in 1..Requests, GiveUp(r)
  PROVE  Progress(p)'
BY ServerOver DEF GiveUp, transfer, link

\* A frame is lost; an acknowledgement is not.
LEMMA LossSteps ==
  ASSUME TFTPAssumption, call \in 1..Requests, NEW p \in Nat, Progress(p),
         LoseToClient \/ LoseToServer, ~disturbed'
  PROVE  Progress(p)'
<1>1. /\ call' = call /\ caller' = caller /\ server' = server /\ sent' = sent
      /\ received' = received /\ block' = block /\ done' = done /\ error' = error
      /\ permits' = permits /\ buffer' = buffer /\ copying' = copying /\ result' = result
  BY DEF LoseToClient, LoseToServer, transfer, servers
<1>2. Client(call, p)' /\ Results(call)'
  BY <1>1 DEF Progress, Client, Results
<1>3. CASE LoseToClient
  <2>1. toClient # <<>> /\ toClient' = Tail(toClient) /\ toServer' = toServer
    BY <1>3 DEF LoseToClient
  <2>2. ClientQueue(Tail(toClient), call, p, sent[call], server[call])
    BY <2>1, HeadOfClient
  <2>3. Connections(call, p)'
    BY <1>1, <2>1 DEF Progress, Connections
  <2> QED BY <1>1, <1>2, <2>1, <2>2, <2>3 DEF Progress
<1>4. CASE LoseToServer
  <2>1. toServer # <<>> /\ toServer' = Tail(toServer) /\ toClient' = toClient
        /\ Head(toServer).op # "ACK"
    BY <1>4 DEF LoseToServer
  <2>2. /\ ServerQueue(Tail(toServer), call, p, sent[call], server[call], caller)
        /\ Len(Tail(toServer)) <= Capacity
        /\ \A r : ~LastAck(toServer, r)
    BY <2>1, HeadOfServer DEF IsAck
  <2>3. Connections(call, p)'
    BY <1>1, <2>2 DEF Progress, Connections
  <2> QED BY <1>1, <1>2, <2>1, <2>2, <2>3 DEF Progress
<1> QED BY <1>3, <1>4

-----------------------------------------------------------------------------
(* The invariant.                                                          *)

\* Before the first call nothing happens; then the first call begins.
LEMMA FreshSteps ==
  ASSUME TFTPAssumption, Fresh, Next
  PROVE  call' \in 1..Requests /\ Progress(0)'
<1>1. Begin
  <2>1. toClient = <<>> /\ toServer = <<>> /\ caller = "out" /\ permits = 0
        /\ copying = Nothing /\ \A r \in 1..Requests : server[r] = "off"
    BY DEF Fresh
  <2> QED BY <2>1 DEF Next, CallerStep, WorkerStep, ResetBlock, ResetDone, ResetError,
        SendRequest, Return, OnOack, OnErrorPacket, OnData, Copy, Take, ServerOpens,
        ServerAcked, Arrives, Timeout, GiveUp, LoseToClient, LoseToServer
<1>2. /\ call = 0 /\ call' = 1 /\ toClient' = <<>> /\ server' = server /\ sent' = sent
      /\ caller' = "block" /\ toServer' = <<>> /\ result' = result
      /\ received' = 0 /\ buffer' = <<>> /\ done' /\ permits' = 0 /\ copying' = Nothing
  BY <1>1 DEF Begin, Fresh, link, servers, Goto
<1>3. 1 \in 1..Requests
  BY <1>1, <1>2 DEF Begin, TFTPAssumption
<1>4. /\ server = [r \in 1..Requests |-> "off"] /\ sent = [r \in 1..Requests |-> 0]
      /\ result = [r \in 1..Requests |-> Pending]
  BY DEF Fresh
<1>5. Connections(1, 0)'
  <2>1. 0 \in 0..Blocks(1) /\ Blocks(1) # 0 /\ 0 <= Blocks(1)
    BY <1>3, FileBlocks
  <2> QED BY <1>2, <1>3, <1>4, <2>1 DEF Connections
<1>6. Client(1, 0)'
  BY <1>2, <1>3, <1>4 DEF Client, Begun
<1>7. ClientQueue(<<>>, 1, 0, 0, "off") /\ ServerQueue(<<>>, 1, 0, 0, "off", "block")
  <2>1. <<>> \in Seq(Packets) /\ <<>> \in Seq(Rrqs \cup Acks) /\ Len(<<>>) = 0 /\ 1..0 = {}
    OBVIOUS
  <2> QED BY <2>1 DEF ClientQueue, ServerQueue
<1>8. Results(1)'
  BY <1>2, <1>4 DEF Results
<1>9. Len(<<>>) <= Capacity
  BY DEF TFTPAssumption
<1> QED BY <1>2, <1>3, <1>4, <1>5, <1>6, <1>7, <1>8, <1>9 DEF Progress

\* Every step keeps the invariant.
LEMMA TransferStep ==
  ASSUME TFTPAssumption, TransferInvariant, [Next]_vars
  PROVE  TransferInvariant'
<1>1. CASE UNCHANGED vars
  <2>1. /\ call' = call /\ caller' = caller /\ server' = server /\ sent' = sent
        /\ received' = received /\ block' = block /\ done' = done /\ error' = error
        /\ permits' = permits /\ buffer' = buffer /\ copying' = copying
        /\ result' = result /\ toClient' = toClient /\ toServer' = toServer
        /\ disturbed' = disturbed
    BY <1>1 DEF vars, transfer, link, servers
  <2>2. (Clean' => Clean) /\ (Fresh => Fresh')
    BY <2>1 DEF Clean, Fresh
  <2>3. ASSUME NEW p \in Nat, Progress(p)  PROVE Progress(p)'
    <3>1. Connections(call, p)'
      BY <2>1, <2>3 DEF Progress, Connections
    <3>2. Client(call, p)'
      BY <2>1, <2>3 DEF Progress, Client
    <3>3. Results(call)'
      BY <2>1, <2>3 DEF Progress, Results
    <3> QED BY <2>1, <2>3, <3>1, <3>2, <3>3 DEF Progress
  <2> QED BY <2>1, <2>2, <2>3 DEF TransferInvariant
<1>2. CASE Next
  <2>1. call \in 0..Requests /\ Requests \in Nat
    BY DEF TransferInvariant, TFTPAssumption
  <2>2. call' = call \/ Begin
    BY <1>2 DEF Next, CallerStep, WorkerStep, ResetBlock, ResetDone, ResetError,
         SendRequest, Return, OnOack, OnErrorPacket, OnData, Copy, Take, ServerOpens,
         ServerAcked, Arrives, Timeout, GiveUp, LoseToClient, LoseToServer
  <2>3. call' \in 0..Requests /\ 1..(call - 1) \subseteq 1..(call' - 1)
    BY <2>1, <2>2 DEF Begin
  <2>4. ~disturbed' => ~disturbed
    BY <1>2, Zenon DEF Next, CallerStep, WorkerStep, Begin, ResetBlock, ResetDone,
         ResetError, SendRequest, Return, OnOack, OnErrorPacket, OnData, Copy, Ack,
         ServerOpens, ServerAcked, Timeout, GiveUp, LoseToClient, LoseToServer
  <2>5. ASSUME Clean'  PROVE call' # 0 /\ \E z \in Nat : Progress(z)'
    <3>1. Clean /\ ~disturbed'
      BY <2>3, <2>4, <2>5 DEF Clean
    <3>2. CASE Fresh
      <4>1. call' \in 1..Requests /\ Progress(0)'
        BY <1>2, <3>2, FreshSteps
      <4> QED BY <4>1
    <3>3. CASE call # 0 /\ \E p \in Nat : Progress(p)
      <4>1. call \in 1..Requests
        BY <2>1, <3>3
      <4>2. PICK p \in Nat : Progress(p)
        BY <3>3
      <4>3. call' # 0
        BY <2>1, <2>2, <3>3 DEF Begin
      <4>4. CASE Begin
        <5>1. Progress(0)'
          BY <4>1, <4>2, <4>4, BeginStep
        <5> QED BY <4>3, <5>1
      <4>5. CASE ResetBlock \/ ResetDone \/ ResetError
        BY <4>1, <4>2, <4>3, <4>5, ResetSteps
      <4>6. CASE SendRequest
        BY <4>1, <4>2, <4>3, <4>6, SendRequestStep
      <4>7. CASE Return
        BY <4>1, <4>2, <4>3, <4>7, ReturnStep
      <4>8. CASE OnOack
        BY <3>1, <4>1, <4>2, <4>3, <4>8, OnOackStep
      <4>9. CASE OnErrorPacket
        BY <3>1, <4>9 DEF OnErrorPacket
      <4>10. CASE OnData
        BY <3>1, <4>1, <4>2, <4>3, <4>10, OnDataStep
      <4>11. CASE Copy
        BY <4>1, <4>2, <4>3, <4>11, CopyStep
      <4>12. ASSUME NEW r \in 1..Requests, ServerOpens(r)
             PROVE  \E z \in Nat : Progress(z)'
        BY <4>1, <4>2, <4>12, ServerOpensStep
      <4>13. ASSUME NEW r \in 1..Requests, ServerAcked(r)
             PROVE  \E z \in Nat : Progress(z)'
        BY <4>1, <4>2, <4>13, ServerAckedStep
      <4>14. ASSUME NEW r \in 1..Requests, Timeout(r)
             PROVE  \E z \in Nat : Progress(z)'
        BY <4>1, <4>2, <4>14, TimeoutStep
      <4>15. ASSUME NEW r \in 1..Requests, GiveUp(r)
             PROVE  \E z \in Nat : Progress(z)'
        BY <4>1, <4>2, <4>15, GiveUpStep
      <4>16. CASE LoseToClient \/ LoseToServer
        BY <3>1, <4>1, <4>2, <4>3, <4>16, LossSteps
      <4> QED
        BY <1>2, <4>3, <4>4, <4>5, <4>6, <4>7, <4>8, <4>9, <4>10, <4>11, <4>12, <4>13,
           <4>14, <4>15, <4>16, Zenon DEF Next, CallerStep, WorkerStep
    <3> QED BY <3>1, <3>2, <3>3 DEF TransferInvariant
  <2> QED BY <2>3, <2>5 DEF TransferInvariant
<1> QED BY <1>1, <1>2

\* The invariant of a transfer: how far the client is, what the server has
\* sent, and which packets can still be under way.
THEOREM TransferInvariantHolds == Spec => []TransferInvariant
<1>1. Init => TransferInvariant
  <2> SUFFICES ASSUME Init  PROVE TransferInvariant
    OBVIOUS
  <2>1. Fresh
    BY DEF Init, Fresh
  <2>2. call \in 0..Requests
    BY TFTPAssumption DEF Init, TFTPAssumption
  <2> QED BY <2>1, <2>2 DEF TransferInvariant
<1>2. TransferInvariant /\ [Next]_vars => TransferInvariant'
  BY TFTPAssumption, TransferStep
<1> QED BY <1>1, <1>2, PTL DEF Spec

\* An undisturbed call returns the file it asked for, the whole file, and
\* keeps a prefix of it in the buffer until then (TFTP.hpp:65-70, 98-126),
\* for any files, blocks and range of block numbers.
THEOREM TransfersAreClean == Spec => []CleanTransfers
<1>1. TransferInvariant => CleanTransfers
  <2> SUFFICES ASSUME TransferInvariant, Clean
               PROVE  /\ \A r \in 1..Requests : result[r] # Pending => result[r] = Stored(r)
                      /\ permits = (IF done /\ caller = "wait" THEN 1 ELSE 0)
                      /\ copying # Nothing => caller = "wait"
                      /\ caller = "wait" => IsPrefix(buffer, Stored(call))
    BY DEF CleanTransfers, Clean
  <2>1. CASE Fresh
    BY <2>1 DEF Fresh
  <2>2. CASE call # 0 /\ \E p \in Nat : Progress(p)
    <3>1. PICK p \in Nat : Progress(p)
      BY <2>2
    <3>2. call \in 1..Requests
      BY <2>2 DEF TransferInvariant, TFTPAssumption
    <3>3. \A r \in 1..Requests : result[r] # Pending => result[r] = Stored(r)
      BY <3>1 DEF Progress, Results
    <3>4. permits = (IF done /\ caller = "wait" THEN 1 ELSE 0)
      BY <3>1 DEF Progress, Client, Begun
    <3>5. copying # Nothing => caller = "wait"
      BY <3>1 DEF Progress, Client
    <3>6. ASSUME caller = "wait"  PROVE IsPrefix(buffer, Stored(call))
      <4>1. buffer = Contents(call, p) \/ (p > 0 /\ buffer = Contents(call, p - 1))
        BY <3>1, <3>6 DEF Progress, Client, Begun
      <4>2. p \in 0..Blocks(call) /\ (p > 0 => p - 1 \in 0..Blocks(call))
        <5>1. p <= Blocks(call) /\ Blocks(call) \in Nat
          BY <3>1, <3>2, TFTPAssumption, Basics
        <5> QED BY <5>1
      <4>3. \A b \in 0..Blocks(call) : IsPrefix(Contents(call, b), Stored(call))
        BY <3>2, TFTPAssumption, BlockByBlock
      <4> QED BY <4>1, <4>2, <4>3
    <3> QED BY <3>3, <3>4, <3>5, <3>6
  <2> QED BY <2>1, <2>2 DEF TransferInvariant
<1> QED BY <1>1, TransferInvariantHolds, PTL
=============================================================================
