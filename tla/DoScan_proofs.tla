---------------------------- MODULE DoScan_proofs ----------------------------
(***************************************************************************)
(* Proofs about DoScan for every size of ring, record header, socket       *)
(* buffer, image and read: the inductive invariant IInv and the safety     *)
(* properties it implies.                                                  *)
(***************************************************************************)
EXTENDS DoScan, QueueLemmas, TLAPS

-----------------------------------------------------------------------------
\* Numbers around the ring.
LEMMA Constants ==
  /\ HdrLen \in Nat \ {0} /\ BufferSize \in Nat \ {0} /\ BufferSize >= 2 * HdrLen + 1
  /\ SocketBuf \in Nat \ {0} /\ ImageLen \in Nat /\ MaxLength \in Nat \ {0}
  /\ Cells = 0..(BufferSize - 1)
BY DoScanAssumption DEF Cells

LEMMA Wrap ==
  ASSUME NEW x \in 0..(2 * BufferSize - 1)
  PROVE  x % BufferSize = IF x < BufferSize THEN x ELSE x - BufferSize
<1>1. BufferSize \in Nat \ {0}
  BY Constants
<1>2. CASE x < BufferSize
  BY <1>1, <1>2
<1>3. CASE x >= BufferSize
  BY <1>1, <1>3
<1> QED BY <1>1, <1>2, <1>3

\* Where the cell behind b others is, seen from the one that is x behind the same.
LEMMA Offset ==
  ASSUME NEW w \in Cells, NEW x \in 0..(BufferSize - 1), NEW b \in 0..BufferSize
  PROVE  (((w + x) % BufferSize) - ((w + b) % BufferSize) + BufferSize) % BufferSize
           = IF x >= b THEN x - b ELSE x - b + BufferSize
<1>1. BufferSize \in Nat \ {0} /\ w \in 0..(BufferSize - 1)
  BY Constants
<1>2. /\ (w + x) % BufferSize = IF w + x < BufferSize THEN w + x ELSE w + x - BufferSize
      /\ (w + b) % BufferSize = IF w + b < BufferSize THEN w + b ELSE w + b - BufferSize
  <2> DEFINE u == w + x
             v == w + b
  <2>1. u \in 0..(2 * BufferSize - 1) /\ v \in 0..(2 * BufferSize - 1)
    BY <1>1
  <2> HIDE DEF u, v
  <2>2. /\ u % BufferSize = IF u < BufferSize THEN u ELSE u - BufferSize
        /\ v % BufferSize = IF v < BufferSize THEN v ELSE v - BufferSize
    BY <2>1, Wrap
  <2> QED BY <2>2, <1>1 DEF u, v
<1> DEFINE d == ((w + x) % BufferSize) - ((w + b) % BufferSize) + BufferSize
<1>3. d \in 0..(2 * BufferSize - 1) /\ d \in {x - b, x - b + BufferSize, x - b + 2 * BufferSize}
  BY <1>1, <1>2
<1>4. d % BufferSize = IF d < BufferSize THEN d ELSE d - BufferSize
  BY <1>3, Wrap
<1> HIDE DEF d
<1>5. d % BufferSize = IF x >= b THEN x - b ELSE x - b + BufferSize
  BY <1>1, <1>3, <1>4
<1> QED BY <1>5 DEF d

\* The cells of the ring from writer on, each one once.
LEMMA CellAt ==
  ASSUME NEW w \in Cells, NEW k \in 1..BufferSize
  PROVE  /\ (w + k - 1) % BufferSize \in Cells
         /\ (w + k - 1) % BufferSize = IF w + k <= BufferSize THEN w + k - 1
                                       ELSE w + k - 1 - BufferSize
<1>1. BufferSize \in Nat \ {0} /\ w \in 0..(BufferSize - 1) /\ Cells = 0..(BufferSize - 1)
  BY Constants
<1> DEFINE u == w + k - 1
<1>2. u \in 0..(2 * BufferSize - 1)
  BY <1>1
<1> HIDE DEF u
<1>3. u % BufferSize = IF u < BufferSize THEN u ELSE u - BufferSize
  BY <1>2, Wrap
<1> QED BY <1>1, <1>3 DEF u

LEMMA CellFacts ==
  ASSUME writer \in Cells
  PROVE  /\ \A k \in 1..BufferSize : /\ Cell(k) \in Cells
                                     /\ Cell(k) = IF writer + k <= BufferSize
                                                  THEN writer + k - 1
                                                  ELSE writer + k - 1 - BufferSize
         /\ \A j, k \in 1..BufferSize : j # k => Cell(j) # Cell(k)
<1>1. \A k \in 1..BufferSize : /\ Cell(k) \in Cells
                               /\ Cell(k) = IF writer + k <= BufferSize THEN writer + k - 1
                                            ELSE writer + k - 1 - BufferSize
  BY CellAt DEF Cell
<1> QED BY <1>1, Constants

-----------------------------------------------------------------------------
\* What a byte was stored as, it tells.
LEMMA TokenFacts ==
  /\ \A n, k, p : /\ LenByte(n, k, p).is = "len" /\ LenByte(n, k, p).val = n
                  /\ LenByte(n, k, p).nr = k /\ LenByte(n, k, p).pos = p
                  /\ LenByte(n, k, p) \in Token <=>
                       (n \in Lengths /\ k \in 1..HdrLen /\ p \in 0..ImageLen)
  /\ \A p, r : /\ ImageByte(p, r).is = "image" /\ ImageByte(p, r).nr = r
               /\ ImageByte(p, r).pos = p
               /\ ImageByte(p, r) \in Token <=> (p \in 1..ImageLen /\ r \in 0..BufferSize)
  /\ \A s, p : /\ StatusByte(s, p).is = "status" /\ StatusByte(s, p).val = s
               /\ StatusByte(s, p).pos = p
               /\ StatusByte(s, p) \in Token <=> (s \in EndStatus /\ p \in 0..ImageLen)
  /\ Junk.is = "junk" /\ Junk \in Token
<1> DEFINE L == {LenByte(n, k, p) : n \in Lengths, k \in 1..HdrLen, p \in 0..ImageLen}
           I == {ImageByte(p, r) : p \in 1..ImageLen, r \in 0..BufferSize}
           S == {StatusByte(s, p) : s \in EndStatus, p \in 0..ImageLen}
<1>t. Token = L \cup I \cup S \cup {Junk}
  BY DEF Token
<1>l. \A t \in L : /\ t.is = "len" /\ t.val \in Lengths /\ t.nr \in 1..HdrLen
                   /\ t.pos \in 0..ImageLen
  BY DEF LenByte, Byte
<1>m. \A t \in I : t.is = "image" /\ t.pos \in 1..ImageLen /\ t.nr \in 0..BufferSize
  BY DEF ImageByte, Byte
<1>s. \A t \in S : t.is = "status" /\ t.val \in EndStatus /\ t.pos \in 0..ImageLen
  BY DEF StatusByte, Byte
<1>4. /\ \A n \in Lengths, k \in 1..HdrLen, p \in 0..ImageLen : LenByte(n, k, p) \in L
      /\ \A p \in 1..ImageLen, r \in 0..BufferSize : ImageByte(p, r) \in I
      /\ \A s \in EndStatus, p \in 0..ImageLen : StatusByte(s, p) \in S
  OBVIOUS
<1>5. /\ \A n, k, p : /\ LenByte(n, k, p).is = "len" /\ LenByte(n, k, p).val = n
                      /\ LenByte(n, k, p).nr = k /\ LenByte(n, k, p).pos = p
      /\ \A p, r : /\ ImageByte(p, r).is = "image" /\ ImageByte(p, r).nr = r
                   /\ ImageByte(p, r).pos = p
      /\ \A s, p : /\ StatusByte(s, p).is = "status" /\ StatusByte(s, p).val = s
                   /\ StatusByte(s, p).pos = p
      /\ Junk.is = "junk"
  BY DEF LenByte, ImageByte, StatusByte, Junk, Byte
<1> HIDE DEF L, I, S
<1> QED BY <1>t, <1>l, <1>m, <1>s, <1>4, <1>5

\* From a byte of a record's length on, the length goes on to its end.
LEMMA HeaderRun ==
  ASSUME NEW s, NEW m \in Nat, NEW n, NEW i \in 1..HdrLen, NEW p,
         s[0] = LenByte(n, i, p), i + m <= HdrLen,
         \A k \in 0..(m - 1) : Follows(s[k], s[k + 1])
  PROVE  \A j \in 0..m : s[j] = LenByte(n, i + j, p)
<1> DEFINE T == {j \in 0..m : s[j] # LenByte(n, i + j, p)}
<1>1. ASSUME T # {} PROVE FALSE
  <2>1. T \in SUBSET Nat
    OBVIOUS
  <2>2. PICK j \in T : \A y \in T : j <= y
    BY <1>1, <2>1, LeastNumber
  <2>3. j \in Nat /\ j <= m /\ s[j] # LenByte(n, i + j, p) /\ i + 0 = i
    OBVIOUS
  <2>4. j # 0
    BY <2>3
  <2>5. j - 1 \in 0..(m - 1) /\ j - 1 \in 0..m /\ (j - 1) + 1 = j
    BY <2>3, <2>4
  <2>6. j - 1 \notin T
    BY <2>2, <2>3, <2>5
  <2>7. s[j - 1] = LenByte(n, i + (j - 1), p)
    BY <2>5, <2>6
  <2>8. i + (j - 1) < HdrLen /\ i + (j - 1) + 1 = i + j
    BY <2>3, Constants
  <2>9. Follows(s[j - 1], s[j])
    BY <2>5
  <2> QED BY <2>3, <2>7, <2>8, <2>9, TokenFacts DEF Follows
<1> QED BY <1>1

\* From a byte of the image on, the image goes on to the end of its record.
LEMMA ImageRun ==
  ASSUME NEW s, NEW m \in Nat, NEW p \in Nat, NEW r \in Nat,
         s[0] = ImageByte(p, r), m <= r,
         \A k \in 0..(m - 1) : Follows(s[k], s[k + 1])
  PROVE  \A j \in 0..m : s[j] = ImageByte(p + j, r - j)
<1> DEFINE T == {j \in 0..m : s[j] # ImageByte(p + j, r - j)}
<1>1. ASSUME T # {} PROVE FALSE
  <2>1. T \in SUBSET Nat
    OBVIOUS
  <2>2. PICK j \in T : \A y \in T : j <= y
    BY <1>1, <2>1, LeastNumber
  <2>3. j \in Nat /\ j <= m /\ s[j] # ImageByte(p + j, r - j) /\ p + 0 = p /\ r - 0 = r
    OBVIOUS
  <2>4. j # 0
    BY <2>3
  <2>5. j - 1 \in 0..(m - 1) /\ j - 1 \in 0..m /\ (j - 1) + 1 = j
    BY <2>3, <2>4
  <2>6. j - 1 \notin T
    BY <2>2, <2>3, <2>5
  <2>7. s[j - 1] = ImageByte(p + (j - 1), r - (j - 1))
    BY <2>5, <2>6
  <2>8. r - (j - 1) # 0 /\ p + (j - 1) + 1 = p + j /\ r - (j - 1) - 1 = r - j
    BY <2>3
  <2>9. Follows(s[j - 1], s[j])
    BY <2>5
  <2> QED BY <2>3, <2>7, <2>8, <2>9, TokenFacts DEF Follows
<1> QED BY <1>1

-----------------------------------------------------------------------------
\* The bytes on their way are bytes that were stored.
LEMMA PendingFacts ==
  ASSUME TypeOK
  PROVE  /\ Len(wire) \in Nat /\ Stored \in 0..BufferSize /\ Count \in Nat
         /\ Len(wire) <= Count /\ Count <= Len(wire) + BufferSize
         /\ DOMAIN wire = 1..Len(wire) /\ (wire = <<>> <=> Len(wire) = 0)
         /\ \A k \in 1..Len(wire) : wire[k] \in Token /\ Pending(k) = wire[k]
         /\ Pending(0) = Taken
         /\ \A k \in 1..BufferSize : /\ Pending(Len(wire) + k) = buf[Cell(k)]
                                     /\ buf[Cell(k)] \in Token
<1>1. /\ wire \in Seq(Token) /\ bytes_in_buf \in 0..BufferSize /\ writer \in Cells
      /\ buf \in [Cells -> Token]
  BY DEF TypeOK
<1>2. /\ Len(wire) \in Nat /\ DOMAIN wire = 1..Len(wire) /\ (wire = <<>> <=> Len(wire) = 0)
      /\ \A k \in 1..Len(wire) : wire[k] \in Token
  BY <1>1, LenProperties, ElementOfSeq, EmptySeq
<1>3. Stored \in 0..BufferSize
  BY <1>1, Constants DEF Stored
<1>4. \A k \in 1..BufferSize : buf[Cell(k)] \in Token
  BY <1>1, CellFacts
<1>5. /\ \A k \in 1..Len(wire) : Pending(k) = wire[k]
      /\ Pending(0) = Taken
  BY <1>2 DEF Pending
<1>6. ASSUME NEW k \in 1..BufferSize PROVE Pending(Len(wire) + k) = buf[Cell(k)]
  <2>1. Len(wire) + k # 0 /\ ~(Len(wire) + k <= Len(wire)) /\ Len(wire) + k - Len(wire) = k
    BY <1>2
  <2> QED BY <2>1 DEF Pending
<1> QED BY <1>2, <1>3, <1>4, <1>5, <1>6, Constants DEF Count

\* Nothing has been stored, sent or taken.
LEMMA InitIInv == Init => IInv
<1> SUFFICES ASSUME Init PROVE IInv
  OBVIOUS
<1> USE DEF Init
<1>1. TypeOK
  <2>1. /\ buf \in [Cells -> Token] /\ reader \in Cells /\ writer \in Cells
        /\ bytes_in_buf \in 0..BufferSize /\ got \in 0..ImageLen
        /\ bytes_remaining \in 0..BufferSize /\ {hang_over, left_over} \subseteq 0..ImageLen
    BY Constants, TokenFacts
  <2>2. /\ wire \in Seq(Token) /\ Len(wire) <= SocketBuf
        /\ reclen_buf \in Seq(Token) /\ Len(reclen_buf) < HdrLen /\ out \in Seq(1..ImageLen)
    BY Constants
  <2>3. be_fd \in BOOLEAN
    OBVIOUS
  <2> QED BY <2>1, <2>2, <2>3 DEF TypeOK, EndStatus
<1>2. Count = 0 /\ Stored = 0
  BY Constants DEF Count, Stored, Rewound
<1>3. Stream
  <2>1. Pending(0) = ImageByte(0, 0)
    BY DEF Pending, Taken
  <2>2. \A k \in 1..BufferSize : buf[Cell(k)] = Junk
    BY <1>1, CellFacts DEF TypeOK
  <2> QED BY <1>2, <2>1, <2>2 DEF Stream, EndsRecord
<1>4. Indices
  BY <1>2, Constants, Wrap DEF Indices, Rewound
<1>5. EndOfImage /\ EofIsComplete
  BY DEF EndOfImage, EofIsComplete
<1>6. Client
  BY DEF Client, Lengths
<1>7. NothingLost
  <2>1. {hang_over, left_over} \ {0} = {} /\ {out[k] : k \in DOMAIN out} = {} /\ Len(out) = 0
    OBVIOUS
  <2> QED BY <2>1, FS_EmptySet DEF NothingLost
<1> QED BY <1>1, <1>3, <1>4, <1>5, <1>6, <1>7 DEF IInv

-----------------------------------------------------------------------------
\* Steps that leave the bytes on their way alone.  Those in the ring are gone when
\* do_scan is done with it.
LEMMA StreamKept ==
  ASSUME TypeOK, Stream, UNCHANGED <<wire, got, bytes_remaining, reclen_buf>>,
         cli' = "status" <=> cli = "status", cli_data' => cli_data,
         InUse' => InUse /\ Stored' = Stored /\ UNCHANGED <<buf, writer, produced>>,
         Open' => Open
  PROVE  Stream'
<1>1. Taken' = Taken
  BY DEF Taken
<1>2. /\ Len(wire) \in Nat /\ Count \in Nat /\ Stored \in 0..BufferSize /\ Len(wire) <= Count
  BY PendingFacts
<1>3. PICK c \in Nat : c = Count'
  BY <1>2 DEF Count
<1>4. c <= Count /\ (InUse' => c = Count) /\ (~InUse' => c = Len(wire))
  BY <1>2, <1>3 DEF Count
<1>5. \A k \in 0..c : Pending(k)' = Pending(k)
  <2>1. CASE InUse'
    BY <2>1, <1>1 DEF Pending, Cell
  <2>2. CASE ~InUse'
    BY <2>2, <1>1, <1>2, <1>4 DEF Pending
  <2> QED BY <2>1, <2>2
<1> SUFFICES ASSUME cli_data' PROVE Stream'
  BY DEF Stream
<1>6. \A k \in 0..(c - 1) : Follows(Pending(k)', Pending(k + 1)')
  <2>1. \A k \in 0..(c - 1) : k \in 0..(Count - 1) /\ k \in 0..c /\ k + 1 \in 0..c
    BY <1>2, <1>4
  <2>2. \A k \in 0..(c - 1) : Follows(Pending(k), Pending(k + 1))
    BY <2>1 DEF Stream
  <2> QED BY <2>1, <2>2, <1>5
<1>7. Open' => /\ EndsRecord(Pending(c)', produced')
               /\ \A k \in (Stored' + 1)..BufferSize : buf'[Cell(k)'] = Junk
  <2>1. Open' => Open /\ c = Count /\ Stored' = Stored /\ UNCHANGED <<buf, writer, produced>>
    BY <1>4 DEF Open
  <2>2. Open => EndsRecord(Pending(Count), produced)
    BY DEF Stream
  <2>3. Open => \A k \in (Stored + 1)..BufferSize : buf[Cell(k)] = Junk
    BY DEF Stream
  <2>4. UNCHANGED writer => \A k : Cell(k)' = Cell(k)
    BY DEF Cell
  <2>5. Pending(c)' = Pending(c)
    BY <1>5
  <2> QED BY <2>1, <2>2, <2>3, <2>4, <2>5
<1> QED BY <1>3, <1>6, <1>7 DEF Stream

\* Taking n of b bytes from the front of the ring leaves its end where it is.
LEMMA Advance ==
  ASSUME NEW w \in Cells, NEW b \in 0..BufferSize, NEW n \in 0..b
  PROVE  /\ (w + n) % BufferSize \in Cells
         /\ (((w + n) % BufferSize) + (b - n)) % BufferSize = (w + b) % BufferSize
<1>1. BufferSize \in Nat \ {0} /\ w \in 0..(BufferSize - 1) /\ Cells = 0..(BufferSize - 1)
  BY Constants
<1> DEFINE x == w + n
           y == w + b
<1>2. x \in 0..(2 * BufferSize - 1) /\ y \in 0..(2 * BufferSize - 1) /\ x <= y
      /\ y - x = b - n /\ b - n <= BufferSize
  BY <1>1
<1> HIDE DEF x, y
<1>3. /\ x % BufferSize = IF x < BufferSize THEN x ELSE x - BufferSize
      /\ y % BufferSize = IF y < BufferSize THEN y ELSE y - BufferSize
  BY <1>2, Wrap
<1> DEFINE z == (x % BufferSize) + (b - n)
<1>4. z \in 0..(2 * BufferSize - 1) /\ z \in {y, y - BufferSize} /\ x % BufferSize \in Cells
  BY <1>1, <1>2, <1>3
<1> HIDE DEF z
<1>5. z % BufferSize = IF z < BufferSize THEN z ELSE z - BufferSize
  BY <1>4, Wrap
<1>6. z % BufferSize = y % BufferSize
  BY <1>1, <1>2, <1>3, <1>4, <1>5
<1> QED BY <1>4, <1>6 DEF x, y, z

\* Where a record is reserved, the ring does not end at its beginning.
LEMMA RecordMoves ==
  ASSUME NEW w \in Cells
  PROVE  (w + HdrLen) % BufferSize # w /\ (w + 0) % BufferSize = w
<1>1. BufferSize \in Nat \ {0} /\ w \in 0..(BufferSize - 1) /\ HdrLen \in Nat \ {0}
      /\ HdrLen < BufferSize
  BY Constants
<1> DEFINE x == w + HdrLen
<1>2. x \in 0..(2 * BufferSize - 1) /\ w \in 0..(2 * BufferSize - 1) /\ w + 0 = w
  BY <1>1
<1>3. x = w + HdrLen
  OBVIOUS
<1> HIDE DEF x
<1>4. /\ x % BufferSize = IF x < BufferSize THEN x ELSE x - BufferSize
      /\ w % BufferSize = IF w < BufferSize THEN w ELSE w - BufferSize
  BY <1>2, Wrap
<1>5. x % BufferSize # w /\ w % BufferSize = w
  BY <1>1, <1>2, <1>3, <1>4
<1> QED BY <1>2, <1>5 DEF x

\* saned changes nothing of what the client has.
LEMMA ClientKept ==
  ASSUME IInv, UNCHANGED client
  PROVE  /\ UNCHANGED <<cli, cli_data, reclen_buf, bytes_remaining, got, result, intact>>
         /\ UNCHANGED <<hang_over, left_over, out>>
         /\ Client' /\ NothingLost' /\ EofIsComplete' /\ intact'
<1>i. Client /\ NothingLost /\ EofIsComplete /\ intact
  BY DEF IInv
<1>1. /\ UNCHANGED <<cli, cli_data, reclen_buf, bytes_remaining, got, result, intact>>
      /\ UNCHANGED <<hang_over, left_over, out>>
  BY DEF client, order
<1> QED BY <1>i, <1>1 DEF Client, NothingLost, EofIsComplete

-----------------------------------------------------------------------------
\* saned.

\* A round that moves no byte.
LEMMA QuietStep ==
  ASSUME IInv, UNCHANGED client, UNCHANGED wire, TypeOK', Indices', EndOfImage',
         InUse' => InUse /\ Stored' = Stored /\ UNCHANGED <<buf, writer, produced>>,
         Open' => Open
  PROVE  IInv'
<1>1. /\ UNCHANGED <<cli, cli_data, reclen_buf, bytes_remaining, got>>
      /\ Client' /\ NothingLost' /\ EofIsComplete' /\ intact'
  BY ClientKept
<1>2. TypeOK /\ Stream
  BY DEF IInv
<1>3. cli' = "status" <=> cli = "status"
  BY <1>1
<1>4. Stream'
  BY <1>1, <1>2, <1>3, StreamKept
<1> QED BY <1>1, <1>4 DEF IInv

\* The buffer is allocated, or do_scan gives up at once.
LEMMA StartStep ==
  ASSUME IInv, Start
  PROVE  IInv'
<1>i. TypeOK /\ Indices /\ EndOfImage
  BY DEF IInv
<1>a. /\ pc = "start" /\ UNCHANGED client /\ UNCHANGED wire
      /\ \/ pc' = "top" /\ status' = status
         \/ pc' = "finish" /\ status' = "no_mem"
      /\ UNCHANGED <<buf, reader, writer, bytes_in_buf, status_dirty, be_fd, timeout,
                     produced, be_closed, rpc_ready, docancel, scanning, srv_data,
                     request, reply>>
  BY DEF Start, device, control
<1>b. UNCHANGED <<cli, cli_data, reclen_buf, bytes_remaining, got, result, intact, hang_over,
                  left_over, out>>
  BY <1>a, ClientKept
<1>1. TypeOK'
  BY <1>i, <1>a, <1>b DEF TypeOK
<1>2. UNCHANGED <<Stored, Rewound>> /\ ~Rewound
  BY <1>i, <1>a DEF Stored, Rewound, Indices
<1>3. (InUse' => InUse) /\ (Open' => Open)
  BY <1>i, <1>a DEF InUse, Open, Indices
<1>4. Indices'
  BY <1>i, <1>a, <1>2, <1>3 DEF Indices
<1>5. EndOfImage'
  BY <1>i, <1>a, <1>2, <1>3 DEF EndOfImage, Indices
<1> QED BY <1>1, <1>2, <1>3, <1>4, <1>5, <1>a, QuietStep

\* Another failure of select() leaves the loop, and with it what the ring holds.
LEMMA SelectBreaksStep ==
  ASSUME IInv, SelectBreaks
  PROVE  IInv'
<1>i. TypeOK /\ Indices /\ EndOfImage
  BY DEF IInv
<1>a. /\ pc = "top" /\ UNCHANGED client /\ UNCHANGED wire
      /\ pc' = "finish" /\ status' = "select_error"
      /\ UNCHANGED <<buf, reader, writer, bytes_in_buf, status_dirty, be_fd, timeout,
                     produced, be_closed, rpc_ready, docancel, scanning, srv_data,
                     request, reply>>
  BY DEF SelectBreaks, device, control
<1>b. UNCHANGED <<cli, cli_data, reclen_buf, bytes_remaining, got, result, intact, hang_over,
                  left_over, out>>
  BY <1>a, ClientKept
<1>1. TypeOK'
  BY <1>i, <1>a, <1>b DEF TypeOK
<1>2. UNCHANGED <<Stored, Rewound>> /\ ~Rewound
  BY <1>i, <1>a DEF Stored, Rewound, Indices
<1>3. ~InUse' /\ ~Open'
  BY <1>a DEF InUse, Open
<1>4. Indices'
  BY <1>i, <1>a, <1>2, <1>3 DEF Indices
<1>5. EndOfImage'
  BY <1>i, <1>a, <1>3 DEF EndOfImage
<1> QED BY <1>1, <1>2, <1>3, <1>4, <1>5, <1>a, QuietStep

\* At the end of the image the backend closes its descriptor; the status is still
\* to be stored behind what the ring holds.
LEMMA SelectFailsStep ==
  ASSUME IInv, SelectFails
  PROVE  IInv'
<1>i. TypeOK /\ Indices /\ EndOfImage
  BY DEF IInv
<1>a. /\ pc = "top" /\ be_closed /\ UNCHANGED client /\ UNCHANGED wire
      /\ be_fd' = FALSE /\ status' = "eof"
      /\ status_dirty' = (status_dirty \/ status = "good")
      /\ pc' \in {"top", "finish"}
      /\ UNCHANGED <<buf, reader, writer, bytes_in_buf, timeout,
                     produced, be_closed, rpc_ready, docancel, scanning, srv_data,
                     request, reply>>
  BY DEF SelectFails, BadFd, LoopTest, control
<1>b. UNCHANGED <<cli, cli_data, reclen_buf, bytes_remaining, got, result, intact, hang_over,
                  left_over, out>>
  BY <1>a, ClientKept
<1>1. TypeOK'
  BY <1>i, <1>a, <1>b DEF TypeOK, EndStatus
<1>2. ~Rewound /\ Stored = bytes_in_buf
  BY <1>i, <1>a DEF Stored, Indices
<1>3. InUse /\ (Open' => Open)
  BY <1>a DEF InUse, Open
<1>4. ~Rewound' /\ Stored' = Stored
  <2>1. status = "good" => reader = (writer + bytes_in_buf) % BufferSize
    BY <1>i, <1>2, <1>3 DEF Indices, Open
  <2>2. writer \in Cells
    BY <1>i DEF TypeOK
  <2>3. status = "good" /\ bytes_in_buf = HdrLen => reader # writer
    BY <2>1, <2>2, RecordMoves
  <2> QED BY <2>3, <1>2, <1>a DEF Stored, Rewound
<1>5. Indices'
  BY <1>i, <1>a, <1>3, <1>4 DEF Indices
<1>6. EndOfImage'
  BY <1>i, <1>a, <1>2, <1>3 DEF EndOfImage
<1> QED BY <1>1, <1>3, <1>4, <1>5, <1>6, <1>a, QuietStep

\* select() returns and there is nothing to move, or nowhere to move it.
LEMMA MoveNothingStep ==
  ASSUME IInv, MoveNothing
  PROVE  IInv'
<1>i. TypeOK /\ Indices /\ EndOfImage
  BY DEF IInv
<1>a. /\ pc = "top" /\ pc' = "store" /\ UNCHANGED client /\ UNCHANGED wire
      /\ rpc_ready' = CtlReadable
      /\ UNCHANGED <<buf, reader, writer, bytes_in_buf, status_dirty, status, be_fd, timeout,
                     produced, be_closed, docancel, scanning, srv_data, request, reply>>
  BY DEF MoveNothing, Selected, ring, device, control
<1>b. UNCHANGED <<cli, cli_data, reclen_buf, bytes_remaining, got, result, intact, hang_over,
                  left_over, out>>
  BY <1>a, ClientKept
<1>1. TypeOK'
  BY <1>i, <1>a, <1>b DEF TypeOK, CtlReadable
<1>2. UNCHANGED <<Stored, Rewound, InUse, Open>> /\ InUse
  BY <1>a DEF Stored, Rewound, InUse, Open
<1>3. Indices' /\ EndOfImage'
  BY <1>i, <1>a, <1>2 DEF Indices, EndOfImage
<1> QED BY <1>1, <1>2, <1>3, <1>a, QuietStep

\* The scanner's backend ends the image: a record is reserved and given up again.
LEMMA ReadEndStep ==
  ASSUME IInv, NEW s \in EndStatus, ReadEnd(s)
  PROVE  IInv'
<1>i. TypeOK /\ Indices /\ EndOfImage
  BY DEF IInv
<1>a. /\ pc = "top" /\ pc' = "store" /\ UNCHANGED client /\ UNCHANGED wire
      /\ rpc_ready' = CtlReadable
      /\ bytes_in_buf = 0 /\ status = "good"
      /\ s = "eof" => produced = ImageLen
      /\ status' = s /\ status_dirty' = TRUE /\ bytes_in_buf' = HdrLen
      /\ be_closed' \in {be_closed, be_fd}
      /\ UNCHANGED <<buf, reader, writer, be_fd, timeout, produced, docancel, scanning,
                     srv_data, request, reply>>
  BY DEF ReadEnd, Selected, MayClose, control
<1>b. UNCHANGED <<cli, cli_data, reclen_buf, bytes_remaining, got, result, intact, hang_over,
                  left_over, out>>
  BY <1>a, ClientKept
<1>1. TypeOK'
  BY <1>i, <1>a, <1>b, Constants DEF TypeOK, CtlReadable
<1>2. InUse /\ Open /\ Stored = 0
  BY <1>a, Constants DEF Stored, Rewound, InUse, Open
<1>3. reader = writer
  <2>1. reader = (writer + 0) % BufferSize /\ writer \in Cells
    BY <1>i, <1>2 DEF Indices, TypeOK
  <2> QED BY <2>1, RecordMoves
<1>4. Rewound' /\ Stored' = 0
  BY <1>a, <1>3 DEF Stored, Rewound
<1>5. Indices'
  BY <1>i, <1>a, <1>2, <1>4 DEF Indices
<1>6. EndOfImage'
  BY <1>i, <1>a, <1>4 DEF EndOfImage, EndStatus
<1> QED BY <1>1, <1>2, <1>4, <1>5, <1>6, <1>a, QuietStep

\* A request inside do_scan leaves the scan as it is, or ends it.
LEMMA ProcessRequestStep ==
  ASSUME IInv, ProcessRequest
  PROVE  IInv'
<1>i. TypeOK /\ Indices /\ EndOfImage
  BY DEF IInv
<1>a. /\ pc = "rpc" /\ UNCHANGED client /\ UNCHANGED wire
      /\ docancel' = (docancel \/ request = "cancel" \/ request = "none")
      /\ pc' \in {"top", "finish"} /\ rpc_ready' = FALSE
      /\ \/ UNCHANGED <<request, reply>>
         \/ request' = "none" /\ reply' = "ack"
      /\ UNCHANGED <<buf, reader, writer, bytes_in_buf, status_dirty, status, be_fd, timeout,
                     produced, be_closed, scanning, srv_data>>
  BY DEF ProcessRequest, LoopTest, ring, device, control
<1>b. UNCHANGED <<cli, cli_data, reclen_buf, bytes_remaining, got, result, intact, hang_over,
                  left_over, out>>
  BY <1>a, ClientKept
<1>1. TypeOK'
  BY <1>i, <1>a, <1>b DEF TypeOK
<1>2. UNCHANGED <<Stored, Rewound>> /\ InUse /\ (Open' => Open)
  BY <1>a DEF Stored, Rewound, InUse, Open
<1>3. Indices' /\ EndOfImage'
  BY <1>i, <1>a, <1>2 DEF Indices, EndOfImage
<1> QED BY <1>1, <1>2, <1>3, <1>a, QuietStep

\* do_scan ends, and requests are served without it.
LEMMA LaterSteps ==
  ASSUME IInv, Finish \/ ProcessLater
  PROVE  IInv'
<1>i. TypeOK /\ Indices /\ EndOfImage
  BY DEF IInv
<1>a. /\ pc \in {"finish", "idle"} /\ pc' \in {"idle", "exited"}
      /\ UNCHANGED client /\ UNCHANGED wire
      /\ docancel' \in BOOLEAN /\ scanning' \in BOOLEAN /\ srv_data' \in BOOLEAN
      /\ buf' = buf \/ buf' = [c \in Cells |-> Junk]
      /\ request' \in {"none", request} /\ reply' \in {"ack", reply}
      /\ UNCHANGED <<reader, writer, bytes_in_buf, status_dirty, status, be_fd, timeout,
                     produced, be_closed, rpc_ready>>
  BY <1>i DEF Finish, ProcessLater, ring, device, control, TypeOK
<1>b. UNCHANGED <<cli, cli_data, reclen_buf, bytes_remaining, got, result, intact, hang_over,
                  left_over, out>>
  BY <1>a, ClientKept
<1>1. TypeOK'
  <2>1. buf' \in [Cells -> Token]
    BY <1>i, <1>a, TokenFacts DEF TypeOK
  <2> QED BY <2>1, <1>i, <1>a, <1>b DEF TypeOK
<1>2. ~InUse' /\ ~Open' /\ UNCHANGED Rewound
  BY <1>a DEF InUse, Open, Rewound
<1>3. Indices' /\ EndOfImage'
  BY <1>i, <1>a, <1>2 DEF Indices, EndOfImage
<1> QED BY <1>1, <1>2, <1>3, <1>a, QuietStep

\* What is taken from the ring, to be written, is taken from its front.
LEMMA TakenFromRing ==
  ASSUME IInv, pc = "top", pc' = "store", NEW n \in 0..bytes_in_buf,
         bytes_in_buf' = bytes_in_buf - n, writer' = (writer + n) % BufferSize,
         UNCHANGED <<reader, status_dirty, status, be_closed, produced>>
  PROVE  /\ writer' \in Cells /\ bytes_in_buf' \in 0..BufferSize
         /\ Stored = bytes_in_buf /\ Stored' = bytes_in_buf'
         /\ InUse /\ InUse' /\ UNCHANGED Open
         /\ Indices' /\ EndOfImage'
<1>i. TypeOK /\ Indices /\ EndOfImage
  BY DEF IInv
<1>1. ~Rewound /\ Stored = bytes_in_buf
  BY <1>i DEF Indices, Stored
<1>2. InUse /\ InUse' /\ UNCHANGED Open
  BY DEF InUse, Open
<1>3. writer \in Cells /\ bytes_in_buf \in 0..BufferSize
  BY <1>i DEF TypeOK
<1>4. /\ writer' \in Cells /\ bytes_in_buf' \in 0..BufferSize
      /\ (writer' + bytes_in_buf') % BufferSize = (writer + bytes_in_buf) % BufferSize
  <2>1. /\ (writer + n) % BufferSize \in Cells
        /\ (((writer + n) % BufferSize) + (bytes_in_buf - n)) % BufferSize
             = (writer + bytes_in_buf) % BufferSize
    BY <1>3, Advance
  <2>2. bytes_in_buf - n \in 0..BufferSize
    BY <1>3, Constants
  <2> QED BY <2>1, <2>2
<1>5. Open => reader' = (writer' + bytes_in_buf') % BufferSize
  BY <1>i, <1>1, <1>4 DEF Indices
<1>6. ~Rewound'
  <2>1. status_dirty => Open
    BY <1>2 DEF Open
  <2>2. bytes_in_buf' = HdrLen /\ status_dirty => reader' # writer'
    BY <2>1, <1>4, <1>5, RecordMoves
  <2> QED BY <2>2 DEF Rewound
<1>7. Stored' = bytes_in_buf'
  BY <1>6 DEF Stored
<1>8. Indices'
  BY <1>2, <1>5, <1>6, <1>7 DEF Indices
<1>9. EndOfImage'
  BY <1>i, <1>1, <1>2 DEF EndOfImage
<1> QED BY <1>1, <1>2, <1>4, <1>7, <1>8, <1>9

\* A write that nobody reads.
LEMMA WriteNobodyStep ==
  ASSUME IInv, WriteNobody
  PROVE  IInv'
<1>i. TypeOK /\ Indices /\ EndOfImage
  BY DEF IInv
<1> DEFINE n == Least(bytes_in_buf, BufferSize - writer)
<1>a. /\ pc = "top" /\ ~cli_data /\ rpc_ready' = CtlReadable
      /\ \/ /\ bytes_in_buf' = bytes_in_buf - n
            /\ writer' = (writer + n) % BufferSize
            /\ pc' = "store"
            /\ UNCHANGED <<status, docancel, scanning, srv_data>>
         \/ /\ pc' \in {"finish", "exited"} /\ status' \in {status, "cancelled"}
            /\ docancel' \in {docancel, TRUE} /\ scanning' \in {scanning, FALSE}
            /\ srv_data' \in {srv_data, FALSE}
            /\ UNCHANGED <<bytes_in_buf, writer>>
      /\ UNCHANGED <<buf, reader, status_dirty, be_fd, timeout, produced, be_closed, wire,
                     request, reply>>
      /\ UNCHANGED client
  BY DEF WriteNobody, Selected, device, control
<1>n. n \in 0..bytes_in_buf
  BY <1>i, Constants DEF TypeOK, Least
<1> HIDE DEF n
<1>b. /\ UNCHANGED <<cli, cli_data, reclen_buf, bytes_remaining, got, result, intact>>
      /\ UNCHANGED <<hang_over, left_over, out>>
      /\ Client' /\ NothingLost' /\ EofIsComplete' /\ intact'
  BY <1>a, ClientKept
<1>1. Stream'
  BY <1>a, <1>b DEF Stream
<1>2. writer' \in Cells /\ bytes_in_buf' \in 0..BufferSize /\ Indices' /\ EndOfImage'
  <2>1. CASE /\ pc' = "store" /\ bytes_in_buf' = bytes_in_buf - n
             /\ writer' = (writer + n) % BufferSize /\ status' = status
    BY <2>1, <1>a, <1>n, TakenFromRing
  <2>2. CASE pc' \in {"finish", "exited"} /\ UNCHANGED <<bytes_in_buf, writer>>
    <3>1. ~InUse' /\ ~Open' /\ ~Rewound'
      BY <2>2, <1>i, <1>a DEF InUse, Open, Rewound, Indices
    <3>2. be_closed' /\ status' = "good" => produced' = ImageLen
      BY <1>i, <1>a DEF EndOfImage
    <3> QED BY <3>1, <3>2, <2>2, <1>i DEF Indices, EndOfImage, TypeOK
  <2> QED BY <2>1, <2>2, <1>a
<1>3. TypeOK'
  <2>1. /\ rpc_ready' \in BOOLEAN /\ docancel' \in BOOLEAN /\ scanning' \in BOOLEAN
        /\ srv_data' \in BOOLEAN
    BY <1>i, <1>a DEF TypeOK, CtlReadable
  <2>2. /\ pc' \in {"store", "finish", "exited"}
        /\ status' \in EndStatus \cup {"good", "no_mem", "cancelled", "select_error"}
    BY <1>i, <1>a DEF TypeOK
  <2> QED BY <2>1, <2>2, <1>i, <1>a, <1>b, <1>2 DEF TypeOK
<1> QED BY <1>1, <1>2, <1>3, <1>b DEF IInv

LEMMA FunctionIsSeq ==
  ASSUME NEW S, NEW n \in Nat, NEW f \in [1..n -> S]
  PROVE  f \in Seq(S) /\ Len(f) = n
OBVIOUS

\* Bytes move from the front of the ring to the end of the connection.
LEMMA WriteClientStep ==
  ASSUME IInv, WriteClient
  PROVE  IInv'
<1>i. TypeOK /\ Stream /\ Indices
  BY DEF IInv
<1> DEFINE n == Least(Least(bytes_in_buf, BufferSize - writer), SocketBuf - Len(wire))
           piece == [k \in 1..n |-> buf[writer + k - 1]]
<1>a. /\ pc = "top" /\ pc' = "store" /\ rpc_ready' = CtlReadable
      /\ bytes_in_buf > 0 /\ cli_data /\ Len(wire) < SocketBuf
      /\ wire' = wire \o piece
      /\ buf' = Written(writer, n)
      /\ bytes_in_buf' = bytes_in_buf - n /\ writer' = (writer + n) % BufferSize
      /\ UNCHANGED <<reader, status_dirty, status, be_fd, timeout, produced, be_closed,
                     docancel, scanning, srv_data, request, reply>>
      /\ UNCHANGED client
  BY DEF WriteClient, Selected, device, control
<1>c. /\ BufferSize \in Nat \ {0} /\ writer \in 0..(BufferSize - 1) /\ writer \in Cells
      /\ bytes_in_buf \in 0..BufferSize /\ Len(wire) \in Nat /\ wire \in Seq(Token)
      /\ buf \in [Cells -> Token] /\ SocketBuf \in Nat /\ Cells = 0..(BufferSize - 1)
  BY <1>i, Constants, PendingFacts DEF TypeOK
<1>n. /\ n \in Nat /\ n \in 1..bytes_in_buf /\ n \in 0..bytes_in_buf
      /\ writer + n <= BufferSize /\ Len(wire) + n <= SocketBuf
  BY <1>a, <1>c DEF Least
<1>p. piece \in Seq(Token) /\ Len(piece) = n /\ \A k \in 1..n : piece[k] = buf[writer + k - 1]
  <2>1. piece \in [1..n -> Token]
    BY <1>c, <1>n
  <2> QED BY <2>1, <1>n, FunctionIsSeq
<1> HIDE DEF n, piece
<1>r. /\ writer' \in Cells /\ bytes_in_buf' \in 0..BufferSize
      /\ Stored = bytes_in_buf /\ Stored' = bytes_in_buf'
      /\ InUse /\ InUse' /\ UNCHANGED Open
      /\ Indices' /\ EndOfImage'
  BY <1>a, <1>n, TakenFromRing
<1>b. /\ UNCHANGED <<cli, cli_data, reclen_buf, bytes_remaining, got, result, intact>>
      /\ UNCHANGED <<hang_over, left_over, out>>
      /\ Client' /\ NothingLost' /\ EofIsComplete' /\ intact'
  BY <1>a, ClientKept
<1>w. /\ wire' \in Seq(Token) /\ Len(wire') = Len(wire) + n
      /\ \A k \in 1..Len(wire) : wire'[k] = wire[k]
      /\ \A k \in 1..n : wire'[Len(wire) + k] = buf[Cell(k)]
  <2>1. /\ wire' \in Seq(Token) /\ Len(wire') = Len(wire) + n
        /\ \A k \in 1..(Len(wire) + n) : wire'[k] = IF k <= Len(wire) THEN wire[k]
                                                    ELSE piece[k - Len(wire)]
    BY <1>a, <1>c, <1>p, ConcatProperties
  <2>2. \A k \in 1..n : Cell(k) = writer + k - 1
    BY <1>c, <1>n, CellFacts
  <2>3. \A k \in 1..n : wire'[Len(wire) + k] = piece[k]
    BY <2>1, <1>c, <1>n
  <2> QED BY <2>1, <2>2, <2>3, <1>p, <1>c, <1>n
<1>e. writer' = IF writer + n < BufferSize THEN writer + n ELSE writer + n - BufferSize
  <2> DEFINE u == writer + n
  <2>1. u \in 0..(2 * BufferSize - 1)
    BY <1>c, <1>n
  <2> HIDE DEF u
  <2>2. u % BufferSize = IF u < BufferSize THEN u ELSE u - BufferSize
    BY <2>1, Wrap
  <2> QED BY <2>2, <1>a, <1>c, <1>n DEF u
<1>f. \A k \in 1..BufferSize :
        Cell(k)' = IF k + n <= BufferSize THEN Cell(k + n) ELSE Cell(k + n - BufferSize)
  <2> SUFFICES ASSUME NEW k \in 1..BufferSize
               PROVE  Cell(k)' = IF k + n <= BufferSize THEN Cell(k + n)
                                 ELSE Cell(k + n - BufferSize)
    OBVIOUS
  <2>1. Cell(k)' = IF writer' + k <= BufferSize THEN writer' + k - 1
                   ELSE writer' + k - 1 - BufferSize
    BY <1>r, CellAt DEF Cell
  <2>2. k + n <= BufferSize =>
          Cell(k + n) = IF writer + (k + n) <= BufferSize THEN writer + (k + n) - 1
                        ELSE writer + (k + n) - 1 - BufferSize
    <3>1. k + n <= BufferSize => k + n \in 1..BufferSize
      BY <1>c, <1>n
    <3> QED BY <3>1, <1>c, CellFacts
  <2>3. k + n > BufferSize =>
          Cell(k + n - BufferSize) = writer + (k + n - BufferSize) - 1
    <3>1. k + n > BufferSize => /\ k + n - BufferSize \in 1..BufferSize
                                /\ writer + (k + n - BufferSize) <= BufferSize
      BY <1>c, <1>n
    <3> QED BY <3>1, <1>c, CellFacts
  <2> QED BY <2>1, <2>2, <2>3, <1>e, <1>c, <1>n
<1>g. /\ \A k \in 1..n : buf'[Cell(k)] = Junk
      /\ \A k \in (n + 1)..BufferSize : buf'[Cell(k)] = buf[Cell(k)]
  <2>1. \A c \in Cells : buf'[c] = IF c - writer \in 0..(n - 1) THEN Junk ELSE buf[c]
    BY <1>a DEF Written
  <2>2. \A k \in 1..n : k \in 1..BufferSize /\ Cell(k) \in Cells /\ Cell(k) - writer \in 0..(n - 1)
    BY <1>c, <1>n, CellFacts
  <2>3. \A k \in (n + 1)..BufferSize :
          k \in 1..BufferSize /\ Cell(k) \in Cells /\ Cell(k) - writer \notin 0..(n - 1)
    BY <1>c, <1>n, CellFacts
  <2> QED BY <2>1, <2>2, <2>3
<1>1. TypeOK'
  <2>1. buf' \in [Cells -> Token]
    BY <1>a, <1>c, TokenFacts DEF Written
  <2>2. rpc_ready' \in BOOLEAN
    BY <1>a DEF CtlReadable
  <2> QED BY <2>1, <2>2, <1>i, <1>a, <1>b, <1>n, <1>r, <1>w DEF TypeOK
<1>2. PICK c \in Nat : c = Count
  BY <1>i, PendingFacts
<1>3. c = Len(wire) + bytes_in_buf /\ Count' = c
  BY <1>2, <1>r, <1>w, <1>a, <1>c, <1>n DEF Count
<1>l. PICK l \in Nat : l = Len(wire)
  BY <1>c
<1>4. \A k \in 0..c : Pending(k)' = Pending(k)
  <2>1. Pending(0)' = Pending(0)
    BY <1>b DEF Pending, Taken
  <2>2. ASSUME NEW k \in 1..l PROVE Pending(k)' = Pending(k)
    BY <1>l, <1>c, <1>n, <1>w DEF Pending
  <2>3. ASSUME NEW j \in 1..n PROVE Pending(l + j)' = Pending(l + j)
    <3>1. Pending(l + j)' = wire'[l + j]
      BY <1>l, <1>n, <1>w DEF Pending
    <3>2. Pending(l + j) = buf[Cell(j)]
      BY <1>l, <1>c, <1>n, <1>i, PendingFacts
    <3> QED BY <3>1, <3>2, <1>l, <1>w
  <2>4. ASSUME NEW j \in (n + 1)..bytes_in_buf PROVE Pending(l + j)' = Pending(l + j)
    <3>1. PICK i \in 1..BufferSize : i = j - n /\ i + n <= BufferSize
      BY <1>c, <1>n
    <3>2. Pending(l + j)' = buf'[Cell(i)']
      <4>1. l + j # 0 /\ ~(l + j <= Len(wire')) /\ l + j - Len(wire') = i
        BY <3>1, <1>l, <1>w, <1>c, <1>n
      <4> QED BY <4>1 DEF Pending
    <3>3. Cell(i)' = Cell(j)
      BY <3>1, <1>f, <1>c, <1>n
    <3>4. buf'[Cell(j)] = buf[Cell(j)]
      BY <1>g, <1>c, <1>n
    <3>5. Pending(l + j) = buf[Cell(j)]
      BY <1>l, <1>c, <1>n, <1>i, PendingFacts
    <3> QED BY <3>2, <3>3, <3>4, <3>5
  <2> SUFFICES ASSUME NEW k \in 0..c PROVE Pending(k)' = Pending(k)
    OBVIOUS
  <2>5. CASE k \in 0..l
    BY <2>5, <2>1, <2>2, <1>l
  <2>6. CASE k \notin 0..l
    <3>1. PICK j \in Nat : k = l + j /\ (j \in 1..n \/ j \in (n + 1)..bytes_in_buf)
      <4>1. k - l \in Nat /\ k = l + (k - l) /\ k - l \in 1..bytes_in_buf
        BY <2>6, <1>l, <1>3, <1>c
      <4>2. k - l \in 1..n \/ k - l \in (n + 1)..bytes_in_buf
        BY <4>1, <1>n, <1>c
      <4> QED BY <4>1, <4>2
    <3> QED BY <3>1, <2>3, <2>4
  <2> QED BY <2>5, <2>6
<1>5. Stream'
  <2>1. \A k \in 0..(c - 1) : Follows(Pending(k)', Pending(k + 1)')
    <3>1. \A k \in 0..(c - 1) : k \in 0..c /\ k + 1 \in 0..c
      BY <1>2
    <3>2. \A k \in 0..(c - 1) : Follows(Pending(k), Pending(k + 1))
      BY <1>i, <1>a, <1>2 DEF Stream
    <3> QED BY <3>1, <3>2, <1>4
  <2>2. Open => EndsRecord(Pending(c)', produced')
    <3>1. Open => EndsRecord(Pending(c), produced)
      BY <1>i, <1>a, <1>2 DEF Stream
    <3> QED BY <3>1, <1>a, <1>4
  <2>3. Open => \A k \in (Stored' + 1)..BufferSize : buf'[Cell(k)'] = Junk
    <3> SUFFICES ASSUME Open, NEW k \in (Stored' + 1)..BufferSize
                 PROVE  buf'[Cell(k)'] = Junk
      OBVIOUS
    <3>1. k \in 1..BufferSize /\ k + n > bytes_in_buf
      BY <1>r, <1>a, <1>c, <1>n
    <3>2. \A j \in (bytes_in_buf + 1)..BufferSize : buf[Cell(j)] = Junk
      BY <1>i, <1>a, <1>r DEF Stream
    <3>3. CASE k + n <= BufferSize
      <4>1. k + n \in (bytes_in_buf + 1)..BufferSize /\ k + n \in (n + 1)..BufferSize
        BY <3>1, <3>3, <1>c, <1>n
      <4>2. Cell(k)' = Cell(k + n)
        BY <3>1, <3>3, <1>f
      <4> QED BY <4>1, <4>2, <3>2, <1>g
    <3>4. CASE k + n > BufferSize
      <4>1. k + n - BufferSize \in 1..n
        BY <3>1, <3>4, <1>c, <1>n
      <4>2. Cell(k)' = Cell(k + n - BufferSize)
        BY <3>1, <3>4, <1>f, <1>c, <1>n
      <4> QED BY <4>1, <4>2, <1>g
    <3> QED BY <3>3, <3>4, <3>1, <1>c, <1>n
  <2> QED BY <2>1, <2>2, <2>3, <1>2, <1>3, <1>r DEF Stream
<1> QED BY <1>1, <1>5, <1>r, <1>b DEF IInv

\* A record behind what the ring holds continues the stream.
LEMMA Appended ==
  ASSUME TypeOK, Stream, Open, InUse',
         UNCHANGED <<wire, got, bytes_remaining, reclen_buf, cli, cli_data, writer>>,
         NEW d \in Nat, d = Stored, NEW m \in Nat \ {0}, d + m <= BufferSize, Stored' = d + m,
         \A k \in 1..d : buf'[Cell(k)] = buf[Cell(k)],
         Begins(buf'[Cell(d + 1)], produced),
         \A k \in 1..(m - 1) : Follows(buf'[Cell(d + k)], buf'[Cell(d + (k + 1))]),
         Open' => /\ EndsRecord(buf'[Cell(d + m)], produced')
                  /\ \A k \in (d + m + 1)..BufferSize : buf'[Cell(k)] = Junk
  PROVE  Stream'
<1> SUFFICES ASSUME cli_data' PROVE Stream'
  BY DEF Stream
<1>0. InUse /\ cli_data /\ BufferSize \in Nat
  BY Constants DEF Open
<1>l. PICK l \in Nat : l = Len(wire)
  BY PendingFacts
<1>1. PICK c \in Nat : c = Count /\ c = l + d /\ Count' = c + m
  BY <1>0, <1>l DEF Count
<1>2. \A k : Cell(k)' = Cell(k)
  BY DEF Cell
<1>3. \A k \in 0..c : Pending(k)' = Pending(k)
  <2> SUFFICES ASSUME NEW k \in 0..c PROVE Pending(k)' = Pending(k)
    OBVIOUS
  <2>1. CASE k \in 0..l
    <3>1. Taken' = Taken
      BY DEF Taken
    <3> QED BY <2>1, <3>1, <1>l DEF Pending
  <2>2. CASE k \notin 0..l
    <3>1. PICK j \in 1..d : k = l + j /\ k # 0 /\ ~(k <= l) /\ k - l = j
      <4>1. k - l \in 1..d /\ k = l + (k - l) /\ k # 0 /\ ~(k <= l)
        BY <2>2, <1>1
      <4> QED BY <4>1
    <3>2. Pending(k)' = buf'[Cell(j)] /\ Pending(k) = buf[Cell(j)]
      BY <3>1, <1>l, <1>2 DEF Pending
    <3> QED BY <3>1, <3>2
  <2> QED BY <2>1, <2>2
<1>4. \A j \in 1..m : Pending(c + j)' = buf'[Cell(d + j)]
  <2> SUFFICES ASSUME NEW j \in 1..m PROVE Pending(c + j)' = buf'[Cell(d + j)]
    OBVIOUS
  <2>1. c + j # 0 /\ ~(c + j <= l) /\ c + j - l = d + j
    BY <1>1
  <2> QED BY <2>1, <1>l, <1>2 DEF Pending
<1>5. EndsRecord(Pending(c), produced) /\ \A k \in 0..(c - 1) : Follows(Pending(k), Pending(k + 1))
  BY <1>0, <1>1 DEF Stream
<1>6. Follows(Pending(c), buf'[Cell(d + 1)])
  BY <1>5, TokenFacts, Constants DEF EndsRecord, Follows, End
<1>7. \A k \in 0..(c + m - 1) : Follows(Pending(k)', Pending(k + 1)')
  <2> SUFFICES ASSUME NEW k \in 0..(c + m - 1) PROVE Follows(Pending(k)', Pending(k + 1)')
    OBVIOUS
  <2>1. CASE k \in 0..(c - 1)
    <3>1. k \in 0..c /\ k + 1 \in 0..c
      BY <2>1
    <3> QED BY <2>1, <3>1, <1>3, <1>5
  <2>2. CASE k = c
    <3>1. k \in 0..c /\ 1 \in 1..m
      BY <2>2
    <3> QED BY <2>2, <3>1, <1>3, <1>4, <1>6
  <2>3. CASE k > c
    <3>1. PICK j \in 1..(m - 1) : k = c + j /\ k + 1 = c + (j + 1)
      <4>1. k - c \in 1..(m - 1) /\ k = c + (k - c) /\ k + 1 = c + ((k - c) + 1)
        BY <2>3
      <4> QED BY <4>1
    <3>2. j \in 1..m /\ j + 1 \in 1..m
      OBVIOUS
    <3> QED BY <3>1, <3>2, <1>4
  <2> QED BY <2>1, <2>2, <2>3
<1>8. Open' => EndsRecord(Pending(c + m)', produced')
  BY <1>4
<1>9. Open' => \A k \in (Stored' + 1)..BufferSize : buf'[Cell(k)'] = Junk
  BY <1>2
<1> QED BY <1>1, <1>7, <1>8, <1>9 DEF Stream

\* Where StoreLen puts the length of the record behind d bytes.
LEMMA LengthStored ==
  ASSUME NEW d \in Nat, d + HdrLen <= BufferSize, writer \in Cells,
         reader = (writer + d) % BufferSize, NEW b, NEW n
  PROVE  \A k \in 1..BufferSize :
           StoreLen(b, reader, n)[Cell(k)] = IF k \in (d + 1)..(d + HdrLen)
                                             THEN LenByte(n, k - d, produced) ELSE b[Cell(k)]
<1> SUFFICES ASSUME NEW k \in 1..BufferSize
             PROVE  StoreLen(b, reader, n)[Cell(k)] = IF k \in (d + 1)..(d + HdrLen)
                                              THEN LenByte(n, k - d, produced) ELSE b[Cell(k)]
  OBVIOUS
<1>1. BufferSize \in Nat \ {0} /\ HdrLen \in Nat \ {0} /\ d \in 0..BufferSize
  BY Constants
<1>2. PICK x \in 0..(BufferSize - 1) : x = k - 1
  BY <1>1
<1>3. Cell(k) = (writer + x) % BufferSize
  <2>1. writer + k - 1 = writer + x
    BY <1>2, <1>1, Constants
  <2> QED BY <2>1 DEF Cell
<1>4. (Cell(k) - reader + BufferSize) % BufferSize = IF x >= d THEN x - d
                                                     ELSE x - d + BufferSize
  <2>1. (((writer + x) % BufferSize) - ((writer + d) % BufferSize) + BufferSize) % BufferSize
          = IF x >= d THEN x - d ELSE x - d + BufferSize
    BY <1>1, Offset
  <2> QED BY <2>1, <1>3
<1>5. Cell(k) \in Cells
  BY CellFacts
<1>6. StoreLen(b, reader, n)[Cell(k)] =
        LET o == ((Cell(k) - reader + BufferSize) % BufferSize) + 1
        IN  IF o <= HdrLen THEN LenByte(n, o, produced) ELSE b[Cell(k)]
  BY <1>5 DEF StoreLen
<1>7. CASE k \in (d + 1)..(d + HdrLen)
  <2>1. ((Cell(k) - reader + BufferSize) % BufferSize) + 1 = k - d /\ k - d <= HdrLen
    BY <1>1, <1>2, <1>4, <1>7
  <2> QED BY <2>1, <1>6, <1>7
<1>8. CASE k \notin (d + 1)..(d + HdrLen)
  <2>1. ~(((Cell(k) - reader + BufferSize) % BufferSize) + 1 <= HdrLen)
    BY <1>1, <1>2, <1>4, <1>8
  <2> QED BY <2>1, <1>6, <1>8
<1> QED BY <1>7, <1>8

\* What is stored is a function of the cells again.
LEMMA StoreLenType ==
  ASSUME NEW b \in [Cells -> Token], NEW n \in Lengths, NEW i \in Cells, produced \in 0..ImageLen
  PROVE  StoreLen(b, i, n) \in [Cells -> Token]
<1> SUFFICES ASSUME NEW c \in Cells
             PROVE  LET k == ((c - i + BufferSize) % BufferSize) + 1
                    IN  k <= HdrLen => LenByte(n, k, produced) \in Token
  BY DEF StoreLen
<1> DEFINE k == ((c - i + BufferSize) % BufferSize) + 1
<1>1. k \in Nat \ {0}
  BY Constants
<1> HIDE DEF k
<1>2. k <= HdrLen => LenByte(n, k, produced) \in Token
  BY <1>1, Constants, TokenFacts
<1> QED BY <1>2 DEF k

\* Bytes of the image, behind their length, into the empty ring.
LEMMA ReadImageStep ==
  ASSUME IInv, NEW n \in Nat, ReadImage(n)
  PROVE  IInv'
<1>i. TypeOK /\ Stream /\ Indices /\ EndOfImage
  BY DEF IInv
<1> DEFINE first == Behind(reader)
           image == [c \in Cells |-> IF c - first \in 0..(n - 1)
                                     THEN ImageByte(produced + c - first + 1,
                                                    n - 1 - (c - first))
                                     ELSE buf[c]]
<1>a. /\ pc = "top" /\ pc' = "store" /\ rpc_ready' = CtlReadable
      /\ bytes_in_buf = 0 /\ status = "good"
      /\ n <= Room(reader) /\ produced + n <= ImageLen
      /\ buf' = StoreLen(image, reader, n)
      /\ reader' = (first + n) % BufferSize
      /\ bytes_in_buf' = n + HdrLen /\ produced' = produced + n
      /\ IF produced' = ImageLen THEN be_closed' \in {be_closed, be_fd}
                                 ELSE be_closed' = be_closed
      /\ UNCHANGED <<writer, status_dirty, status, be_fd, timeout, docancel,
                     scanning, wire, srv_data, request, reply>>
      /\ UNCHANGED client
  BY DEF ReadImage, Selected, MayClose, control
<1>c. /\ BufferSize \in Nat \ {0} /\ HdrLen \in Nat \ {0} /\ ImageLen \in Nat
      /\ HdrLen < BufferSize /\ Cells = 0..(BufferSize - 1)
      /\ writer \in 0..(BufferSize - 1) /\ writer \in Cells /\ produced \in 0..ImageLen
      /\ buf \in [Cells -> Token]
  BY <1>i, Constants DEF TypeOK
<1>b. /\ UNCHANGED <<cli, cli_data, reclen_buf, bytes_remaining, got, result, intact>>
      /\ UNCHANGED <<hang_over, left_over, out>>
      /\ Client' /\ NothingLost' /\ EofIsComplete' /\ intact'
  BY <1>a, ClientKept
<1>1. /\ InUse /\ InUse' /\ Open /\ Open' /\ ~status_dirty /\ ~Rewound /\ ~Rewound'
      /\ Stored = 0 /\ Stored' = n + HdrLen
  <2>1. InUse /\ InUse' /\ Open /\ Open'
    BY <1>a DEF InUse, Open
  <2>2. ~status_dirty
    BY <2>1, <1>i, <1>a DEF EndOfImage
  <2> QED BY <2>1, <2>2, <1>a DEF Rewound, Stored
<1>2. reader = (writer + 0) % BufferSize /\ reader = writer
  BY <1>i, <1>1, <1>c, RecordMoves DEF Indices
<1>3. /\ first \in Cells /\ n <= BufferSize - HdrLen /\ first + n <= BufferSize
      /\ first = Cell(HdrLen + 1)
  <2>1. writer + HdrLen = writer + (HdrLen + 1) - 1 /\ HdrLen + 1 \in 1..BufferSize
    BY <1>c
  <2>2. first = Cell(HdrLen + 1)
    BY <2>1, <1>2 DEF Behind, Cell
  <2>3. first \in Cells
    BY <2>1, <2>2, <1>c, CellFacts
  <2>4. n <= Least(BufferSize - HdrLen, BufferSize - first)
    BY <1>a DEF Room
  <2>5. n <= BufferSize - HdrLen /\ n <= BufferSize - first
    BY <2>3, <2>4, <1>c DEF Least
  <2> QED BY <2>2, <2>3, <2>5, <1>c
<1> HIDE DEF first
<1>4. /\ \A k \in (HdrLen + 1)..(HdrLen + n) : image[Cell(k)] = ImageByte(produced + (k - HdrLen),
                                                                          n - (k - HdrLen))
      /\ \A k \in (HdrLen + n + 1)..BufferSize : image[Cell(k)] = buf[Cell(k)]
  <2>1. \A k \in (HdrLen + 1)..BufferSize :
          /\ k \in 1..BufferSize /\ Cell(k) \in Cells
          /\ Cell(k) = IF writer + k <= BufferSize THEN writer + k - 1
                       ELSE writer + k - 1 - BufferSize
    BY <1>c, CellFacts
  <2>2. first = IF writer + (HdrLen + 1) <= BufferSize THEN writer + (HdrLen + 1) - 1
                ELSE writer + (HdrLen + 1) - 1 - BufferSize
    BY <1>c, <1>3, CellFacts
  <2>3. ASSUME NEW k \in (HdrLen + 1)..(HdrLen + n)
        PROVE  image[Cell(k)] = ImageByte(produced + (k - HdrLen), n - (k - HdrLen))
    <3>1. k \in (HdrLen + 1)..BufferSize
      BY <1>c, <1>3
    <3>2. Cell(k) \in Cells /\ Cell(k) - first = k - HdrLen - 1
      BY <3>1, <2>1, <2>2, <1>c, <1>3
    <3>3. PICK c \in Cells : c = Cell(k) /\ c - first = k - HdrLen - 1
      BY <3>2
    <3>4. c \in Nat /\ first \in Nat /\ k \in Nat
      BY <3>1, <1>c, <1>3
    <3>5. /\ c - first \in 0..(n - 1)
          /\ produced + c - first + 1 = produced + (k - HdrLen)
          /\ n - 1 - (c - first) = n - (k - HdrLen)
      BY <3>3, <3>4, <1>c
    <3>6. image[c] = ImageByte(produced + c - first + 1, n - 1 - (c - first))
      BY <3>5
    <3> QED BY <3>3, <3>5, <3>6
  <2>4. ASSUME NEW k \in (HdrLen + n + 1)..BufferSize
        PROVE  image[Cell(k)] = buf[Cell(k)]
    <3>1. k \in (HdrLen + 1)..BufferSize
      BY <1>c, <1>3
    <3>2. PICK c \in Cells : c = Cell(k)
      BY <3>1, <2>1
    <3>3. c = IF writer + k <= BufferSize THEN writer + k - 1 ELSE writer + k - 1 - BufferSize
      BY <3>1, <3>2, <2>1
    <3>4. c \in Nat /\ first \in Nat /\ k \in Nat /\ k > HdrLen + n
      BY <3>1, <1>c, <1>3
    <3>5. c - first \notin 0..(n - 1)
      BY <3>3, <3>4, <2>2, <1>c, <1>3
    <3> QED BY <3>2, <3>5
  <2> QED BY <2>3, <2>4
<1>5. /\ \A k \in 1..HdrLen : buf'[Cell(k)] = LenByte(n, k, produced)
      /\ \A k \in (HdrLen + 1)..(HdrLen + n) :
           buf'[Cell(k)] = ImageByte(produced + (k - HdrLen), n - (k - HdrLen))
      /\ \A k \in (HdrLen + n + 1)..BufferSize : buf'[Cell(k)] = buf[Cell(k)]
  <2> HIDE DEF image
  <2>1. \A k \in 1..BufferSize : buf'[Cell(k)] = IF k \in (0 + 1)..(0 + HdrLen)
                                                 THEN LenByte(n, k - 0, produced)
                                                 ELSE image[Cell(k)]
    <3>1. 0 + HdrLen <= BufferSize
      BY <1>c
    <3>2. \A k \in 1..BufferSize :
            StoreLen(image, reader, n)[Cell(k)] = IF k \in (0 + 1)..(0 + HdrLen)
                                                  THEN LenByte(n, k - 0, produced)
                                                  ELSE image[Cell(k)]
      BY <3>1, <1>c, <1>2, LengthStored
    <3> QED BY <3>2, <1>a
  <2>2. \A k \in 1..HdrLen : /\ k \in 1..BufferSize /\ k \in (0 + 1)..(0 + HdrLen)
                             /\ k - 0 = k
    BY <1>c
  <2>3. \A k \in (HdrLen + 1)..BufferSize :
          k \in 1..BufferSize /\ k \notin (0 + 1)..(0 + HdrLen)
    BY <1>c
  <2>4. \A k \in (HdrLen + 1)..(HdrLen + n) : k \in (HdrLen + 1)..BufferSize
    BY <1>c, <1>3
  <2>5. \A k \in (HdrLen + n + 1)..BufferSize : k \in (HdrLen + 1)..BufferSize
    BY <1>c
  <2> QED BY <2>1, <2>2, <2>3, <2>4, <2>5, <1>4
<1>6. TypeOK'
  <2>1. n \in Lengths /\ reader \in Cells
    BY <1>c, <1>2, <1>3 DEF Lengths
  <2>2. image \in [Cells -> Token]
    <3>1. ASSUME NEW c \in Cells, c - first \in 0..(n - 1)
          PROVE  /\ produced + c - first + 1 \in 1..ImageLen
                 /\ n - 1 - (c - first) \in 0..BufferSize
      <4>1. produced + n <= ImageLen
        BY <1>a
      <4>2. first \in Nat /\ c \in Nat
        BY <1>c, <1>3
      <4>3. c - first >= 0 /\ c - first <= n - 1
        BY <3>1, <4>2
      <4>4. /\ produced + c - first + 1 = produced + ((c - first) + 1)
            /\ n - 1 - (c - first) = n - ((c - first) + 1)
        BY <4>2, <1>c
      <4>5. PICK i \in Nat : i = c - first
        BY <4>2, <4>3
      <4>6. n <= BufferSize /\ i < n
        BY <4>3, <4>5, <1>c, <1>3
      <4>7. produced + (i + 1) \in 1..ImageLen /\ n - (i + 1) \in 0..BufferSize
        BY <4>1, <4>6, <1>c
      <4> QED BY <4>4, <4>5, <4>7
    <3> QED BY <3>1, <1>c, TokenFacts
  <2> HIDE DEF image
  <2>3. buf' \in [Cells -> Token]
    BY <2>1, <2>2, <1>a, <1>c, StoreLenType
  <2>4. /\ reader' \in Cells /\ bytes_in_buf' \in 0..BufferSize /\ produced' \in 0..ImageLen
    BY <1>a, <1>c, <1>3
  <2>5. rpc_ready' \in BOOLEAN /\ be_closed' \in BOOLEAN
    BY <1>i, <1>a DEF TypeOK, CtlReadable
  <2> QED BY <2>3, <2>4, <2>5, <1>i, <1>a, <1>b DEF TypeOK
<1> HIDE DEF image
<1>7. Stream'
  <2> DEFINE m == HdrLen + n
  <2>1. /\ m \in Nat \ {0} /\ 0 + m <= BufferSize /\ Stored' = 0 + m
        /\ UNCHANGED <<wire, got, bytes_remaining, reclen_buf, cli, cli_data, writer>>
    BY <1>a, <1>b, <1>c, <1>1, <1>3
  <2>2. Begins(buf'[Cell(0 + 1)], produced)
    <3>1. n \in Lengths /\ 0 + 1 \in 1..HdrLen /\ 0 + 1 = 1
      BY <1>c, <1>3 DEF Lengths
    <3> QED BY <3>1, <1>5 DEF Begins
  <2>3. ASSUME NEW k \in 1..(m - 1)
        PROVE  Follows(buf'[Cell(0 + k)], buf'[Cell(0 + (k + 1))])
    <3>1. 0 + k = k /\ 0 + (k + 1) = k + 1 /\ k \in Nat
      BY <1>c
    <3>2. CASE k < HdrLen
      <4>1. k \in 1..HdrLen /\ k + 1 \in 1..HdrLen
        BY <3>2, <1>c
      <4> QED BY <4>1, <3>1, <3>2, <1>5, <1>c, TokenFacts DEF Follows
    <3>3. CASE k = HdrLen
      <4>1. /\ k \in 1..HdrLen /\ k + 1 \in (HdrLen + 1)..(HdrLen + n)
            /\ n > 0 /\ n # End /\ (k + 1) - HdrLen = 1
        BY <3>3, <1>c DEF End
      <4>2. buf'[Cell(k)] = LenByte(n, HdrLen, produced)
        BY <4>1, <3>3, <1>5
      <4>3. buf'[Cell(k + 1)] = ImageByte(produced + ((k + 1) - HdrLen), n - ((k + 1) - HdrLen))
        BY <4>1, <1>5
      <4>5. buf'[Cell(k + 1)] = ImageByte(produced + 1, n - 1)
        BY <4>1, <4>3
      <4>4. n # 0 /\ ~(HdrLen < HdrLen)
        BY <4>1, <1>c
      <4> QED BY <4>1, <4>2, <4>5, <4>4, <3>1, TokenFacts DEF Follows
    <3>4. CASE k > HdrLen
      <4>1. /\ k \in (HdrLen + 1)..(HdrLen + n) /\ k + 1 \in (HdrLen + 1)..(HdrLen + n)
            /\ n - (k - HdrLen) # 0
            /\ produced + ((k + 1) - HdrLen) = produced + (k - HdrLen) + 1
            /\ n - ((k + 1) - HdrLen) = n - (k - HdrLen) - 1
        BY <3>4, <1>c
      <4>2. /\ buf'[Cell(k)] = ImageByte(produced + (k - HdrLen), n - (k - HdrLen))
            /\ buf'[Cell(k + 1)] = ImageByte(produced + ((k + 1) - HdrLen), n - ((k + 1) - HdrLen))
        BY <4>1, <1>5
      <4>3. buf'[Cell(k + 1)] = ImageByte(produced + (k - HdrLen) + 1, n - (k - HdrLen) - 1)
        BY <4>1, <4>2
      <4> QED BY <4>1, <4>2, <4>3, <3>1, TokenFacts DEF Follows
    <3> QED BY <3>1, <3>2, <3>3, <3>4, <1>c
  <2>4. EndsRecord(buf'[Cell(0 + m)], produced')
    <3>1. CASE n = 0
      <4>1. 0 + m = HdrLen /\ HdrLen \in 1..HdrLen /\ produced' = produced
        BY <3>1, <1>a, <1>c
      <4> QED BY <4>1, <3>1, <1>5 DEF EndsRecord
    <3>2. CASE n # 0
      <4>1. /\ 0 + m = m /\ m \in (HdrLen + 1)..(HdrLen + n)
            /\ produced + (m - HdrLen) = produced' /\ n - (m - HdrLen) = 0
        BY <3>2, <1>a, <1>c
      <4>2. buf'[Cell(m)] = ImageByte(produced + (m - HdrLen), n - (m - HdrLen))
        BY <4>1, <1>5
      <4> QED BY <4>1, <4>2 DEF EndsRecord
    <3> QED BY <3>1, <3>2
  <2>5. cli_data => \A k \in (0 + m + 1)..BufferSize : buf'[Cell(k)] = Junk
    <3>1. cli_data => \A k \in (0 + 1)..BufferSize : buf[Cell(k)] = Junk
      BY <1>i, <1>1 DEF Stream
    <3>2. \A k \in (0 + m + 1)..BufferSize : /\ k \in (0 + 1)..BufferSize
                                             /\ k \in (HdrLen + n + 1)..BufferSize
      BY <1>c
    <3> QED BY <3>1, <3>2, <1>5
  <2>6. \A k \in 1..0 : buf'[Cell(k)] = buf[Cell(k)]
    OBVIOUS
  <2> HIDE DEF m
  <2>7. CASE cli_data
    BY <2>7, <2>1, <2>2, <2>3, <2>4, <2>5, <2>6, <1>i, <1>1, Appended
  <2>8. CASE ~cli_data
    BY <2>8, <1>b DEF Stream
  <2> QED BY <2>7, <2>8
<1>8. Indices'
  <2>1. reader' = (writer + (n + HdrLen)) % BufferSize
    <3>1. /\ HdrLen + n \in 0..BufferSize /\ HdrLen \in 0..(HdrLen + n)
          /\ (HdrLen + n) - HdrLen = n /\ HdrLen + n = n + HdrLen
      BY <1>c, <1>3
    <3>2. (((writer + HdrLen) % BufferSize) + ((HdrLen + n) - HdrLen)) % BufferSize
             = (writer + (HdrLen + n)) % BufferSize
      <4> DEFINE b == HdrLen + n
      <4>1. b \in 0..BufferSize /\ HdrLen \in 0..b
        BY <3>1
      <4> HIDE DEF b
      <4>2. (((writer + HdrLen) % BufferSize) + (b - HdrLen)) % BufferSize
              = (writer + b) % BufferSize
        BY <4>1, <1>c, Advance
      <4> QED BY <4>2 DEF b
    <3>3. first = (writer + HdrLen) % BufferSize
      BY <1>2 DEF first, Behind
    <3> QED BY <3>1, <3>2, <3>3, <1>a
  <2> QED BY <2>1, <1>1, <1>a DEF Indices
<1>9. EndOfImage'
  <2>1. be_closed' => produced' = ImageLen
    <3>1. CASE produced' = ImageLen
      BY <3>1
    <3>2. CASE produced' # ImageLen
      <4>1. be_closed' = be_closed /\ (be_closed => produced = ImageLen)
        BY <3>2, <1>i, <1>a DEF EndOfImage
      <4>2. produced + n <= ImageLen /\ produced' = produced + n
        BY <1>a
      <4> QED BY <3>2, <4>1, <4>2, <1>c
    <3> QED BY <3>1, <3>2
  <2> QED BY <2>1, <1>1, <1>a DEF EndOfImage
<1> QED BY <1>6, <1>7, <1>8, <1>9, <1>b DEF IInv

\* The status goes behind the last record, in the place given up for it if there is one.
LEMMA StoreStatusStep ==
  ASSUME IInv, StoreStatus
  PROVE  IInv'
<1>i. TypeOK /\ Stream /\ Indices /\ EndOfImage
  BY DEF IInv
<1> DEFINE fits == status_dirty /\ BufferSize - bytes_in_buf >= HdrLen + 1
<1>a. /\ pc = "store" /\ pc' \in {"rpc", "top", "finish"}
      /\ UNCHANGED <<writer, status, be_fd, timeout, produced, be_closed, rpc_ready, docancel,
                     scanning, wire, srv_data, request, reply>>
      /\ UNCHANGED client /\ UNCHANGED wire
  BY DEF StoreStatus, LoopTest, device, control
<1>f. IF fits
      THEN /\ reader' = Behind(reader)
           /\ buf' = [StoreLen(buf, reader, End)
                        EXCEPT ![Behind(reader)] = StatusByte(status, produced)]
           /\ bytes_in_buf' = bytes_in_buf + HdrLen + 1
           /\ status_dirty' = FALSE
      ELSE UNCHANGED <<reader, buf, bytes_in_buf, status_dirty>>
  BY DEF StoreStatus
<1>b. /\ UNCHANGED <<cli, cli_data, reclen_buf, bytes_remaining, got, result, intact>>
      /\ UNCHANGED <<hang_over, left_over, out>>
      /\ Client' /\ NothingLost' /\ EofIsComplete' /\ intact'
  BY <1>a, ClientKept
<1>c. /\ BufferSize \in Nat \ {0} /\ HdrLen \in Nat \ {0} /\ 2 * HdrLen + 1 <= BufferSize
      /\ writer \in 0..(BufferSize - 1) /\ writer \in Cells /\ Cells = 0..(BufferSize - 1)
      /\ bytes_in_buf \in 0..BufferSize /\ produced \in 0..ImageLen /\ reader \in Cells
      /\ buf \in [Cells -> Token]
  BY <1>i, Constants DEF TypeOK
<1>d. InUse
  BY <1>a DEF InUse
<1>1. CASE ~fits
  <2>1. UNCHANGED <<reader, buf, bytes_in_buf, status_dirty>>
    BY <1>1, <1>f
  <2>2. TypeOK'
    BY <2>1, <1>i, <1>a, <1>b DEF TypeOK
  <2>3. ~Rewound
    BY <1>1, <1>c DEF Rewound
  <2>4. UNCHANGED <<Stored, Rewound>> /\ (Open' => Open)
    BY <2>1, <1>a, <1>d DEF Stored, Rewound, Open
  <2>5. Indices' /\ EndOfImage'
    BY <2>1, <2>3, <2>4, <1>i, <1>a, <1>d DEF Indices, EndOfImage
  <2> QED BY <2>1, <2>2, <2>4, <2>5, <1>a, <1>d, QuietStep
<1>2. CASE fits
  <2>a. /\ reader' = Behind(reader)
        /\ buf' = [StoreLen(buf, reader, End) EXCEPT ![Behind(reader)] = StatusByte(status, produced)]
        /\ bytes_in_buf' = bytes_in_buf + HdrLen + 1 /\ status_dirty' = FALSE
        /\ status_dirty /\ bytes_in_buf + HdrLen + 1 <= BufferSize
    BY <1>2, <1>f, <1>c
  <2>b. /\ Open /\ ~Open' /\ ~Rewound' /\ Stored' = bytes_in_buf'
        /\ status \in EndStatus /\ (status = "eof" => produced = ImageLen)
    BY <2>a, <1>i, <1>a, <1>d DEF Open, Rewound, Stored, EndOfImage, EndStatus
  <2>d. PICK d \in Nat : /\ d = Stored /\ d <= bytes_in_buf
                         /\ d = bytes_in_buf \/ (Rewound /\ d = 0 /\ bytes_in_buf = HdrLen)
    BY <1>c DEF Stored, Rewound
  <2>r. reader = (writer + d) % BufferSize
    BY <2>b, <2>d, <1>i DEF Indices
  <2>1. Behind(reader) \in Cells /\ Behind(reader) = Cell(d + HdrLen + 1)
    <3> DEFINE x == d + HdrLen
    <3>1. x \in 0..BufferSize /\ d \in 0..x /\ x - d = HdrLen /\ x + 1 \in 1..BufferSize
      BY <2>a, <2>d, <1>c
    <3>2. x + 1 = d + HdrLen + 1
      OBVIOUS
    <3> HIDE DEF x
    <3>3. (((writer + d) % BufferSize) + (x - d)) % BufferSize = (writer + x) % BufferSize
      BY <3>1, <1>c, Advance
    <3>4. Behind(reader) = (writer + x) % BufferSize
      BY <3>1, <3>3, <2>r DEF Behind
    <3>5. writer + (x + 1) - 1 = writer + x
      BY <3>1, <1>c
    <3>6. Cell(x + 1) = (writer + x) % BufferSize
      BY <3>5 DEF Cell
    <3>7. Cell(x + 1) \in Cells
      BY <3>1, <1>c, CellFacts
    <3> QED BY <3>2, <3>4, <3>6, <3>7
  <2>2. /\ \A k \in (d + 1)..(d + HdrLen) : buf'[Cell(k)] = LenByte(End, k - d, produced)
        /\ buf'[Cell(d + HdrLen + 1)] = StatusByte(status, produced)
        /\ \A k \in 1..d : buf'[Cell(k)] = buf[Cell(k)]
        /\ \A k \in (d + HdrLen + 2)..BufferSize : buf'[Cell(k)] = buf[Cell(k)]
    <3>1. PICK z \in 1..BufferSize : z = d + HdrLen + 1
      BY <2>a, <2>d, <1>c
    <3>2. /\ \A k \in (d + 1)..(d + HdrLen) : k \in 1..BufferSize /\ k # z
          /\ \A k \in 1..d : k \in 1..BufferSize /\ k # z /\ k \notin (d + 1)..(d + HdrLen)
          /\ \A k \in (d + HdrLen + 2)..BufferSize :
               k \in 1..BufferSize /\ k # z /\ k \notin (d + 1)..(d + HdrLen)
      BY <3>1, <2>a, <2>d, <1>c
    <3>3. \A k \in 1..BufferSize :
            StoreLen(buf, reader, End)[Cell(k)] = IF k \in (d + 1)..(d + HdrLen)
                                                  THEN LenByte(End, k - d, produced)
                                                  ELSE buf[Cell(k)]
      <4>1. d + HdrLen <= BufferSize
        BY <2>a, <2>d, <1>c
      <4>2. writer \in Cells
        BY <1>c
      <4> QED BY <4>1, <4>2, <2>r, LengthStored
    <3>4. /\ \A k \in 1..BufferSize : Cell(k) \in Cells
          /\ \A k \in 1..BufferSize : k # z => Cell(k) # Cell(z)
      BY <1>c, CellFacts
    <3>5. StoreLen(buf, reader, End) \in [Cells -> Token]
      BY <1>c, StoreLenType DEF Lengths
    <3>6. \A k \in 1..BufferSize :
            buf'[Cell(k)] = IF k = z THEN StatusByte(status, produced)
                            ELSE StoreLen(buf, reader, End)[Cell(k)]
      BY <2>a, <2>1, <3>1, <3>4, <3>5
    <3> QED BY <3>1, <3>2, <3>3, <3>6
  <2>3. TypeOK'
    <3>1. StoreLen(buf, reader, End) \in [Cells -> Token]
      BY <1>c, StoreLenType DEF Lengths
    <3>2. StatusByte(status, produced) \in Token
      BY <2>b, <1>c, TokenFacts
    <3>3. buf' \in [Cells -> Token]
      BY <3>1, <3>2, <2>a
    <3>4. bytes_in_buf' \in 0..BufferSize
      BY <2>a, <1>c
    <3> QED BY <3>3, <3>4, <2>1, <2>a, <1>i, <1>a, <1>b DEF TypeOK
  <2>4. Indices' /\ EndOfImage'
    BY <2>a, <2>b, <1>i, <1>a DEF Indices, EndOfImage
  <2>5. Stream'
    <3> SUFFICES ASSUME cli_data, InUse' PROVE Stream'
      <4>1. CASE ~cli_data
        BY <4>1, <1>b DEF Stream
      <4>2. CASE cli_data /\ ~InUse'
        BY <4>2, <2>b, <1>i, <1>a, <1>b, <1>d, StreamKept
      <4> QED BY <4>1, <4>2
    <3>1. PICK m \in Nat \ {0} : /\ d + m <= BufferSize /\ Stored' = d + m
                                 /\ m >= HdrLen + 1
                                 /\ m = HdrLen + 1 \/ d = 0
      <4>1. bytes_in_buf + HdrLen + 1 - d \in Nat \ {0}
        BY <2>d, <1>c
      <4>2. PICK m \in Nat \ {0} : m = bytes_in_buf + HdrLen + 1 - d
        BY <4>1
      <4> QED BY <4>2, <2>a, <2>b, <2>d, <1>c
    <3>2. Begins(buf'[Cell(d + 1)], produced)
      <4>1. d + 1 \in (d + 1)..(d + HdrLen) /\ (d + 1) - d = 1
        BY <1>c
      <4> QED BY <4>1, <2>2 DEF Begins, Lengths
    <3>3. \A k \in (d + HdrLen + 2)..(d + m) : buf'[Cell(k)] = Junk
      <4>1. \A k \in (Stored + 1)..BufferSize : buf[Cell(k)] = Junk
        BY <2>b, <1>i DEF Stream
      <4>2. \A k \in (d + HdrLen + 2)..(d + m) : /\ k \in (d + HdrLen + 2)..BufferSize
                                                 /\ k \in (Stored + 1)..BufferSize
        BY <3>1, <2>d, <1>c
      <4> QED BY <4>1, <4>2, <2>2
    <3>4. ASSUME NEW k \in 1..(m - 1)
          PROVE  Follows(buf'[Cell(d + k)], buf'[Cell(d + (k + 1))])
      <4>0. k \in Nat
        OBVIOUS
      <4>1. CASE k < HdrLen
        <5>1. /\ d + k \in (d + 1)..(d + HdrLen) /\ (d + k) - d = k
              /\ d + (k + 1) \in (d + 1)..(d + HdrLen) /\ (d + (k + 1)) - d = k + 1
          BY <4>1, <4>0, <1>c
        <5>2. /\ buf'[Cell(d + k)] = LenByte(End, k, produced)
              /\ buf'[Cell(d + (k + 1))] = LenByte(End, k + 1, produced)
          BY <5>1, <2>2
        <5> QED BY <5>2, <4>0, <4>1, <1>c, TokenFacts DEF Follows
      <4>2. CASE k = HdrLen
        <5>1. /\ d + k \in (d + 1)..(d + HdrLen) /\ (d + k) - d = k
              /\ d + (k + 1) = d + HdrLen + 1
          BY <4>2, <4>0, <1>c
        <5>2. /\ buf'[Cell(d + k)] = LenByte(End, HdrLen, produced)
              /\ buf'[Cell(d + (k + 1))] = StatusByte(status, produced)
          BY <5>1, <4>2, <2>2
        <5>3. /\ ~(HdrLen < HdrLen) /\ End # 0 /\ ~(End > 0)
          BY <1>c DEF End
        <5> QED BY <5>2, <5>3, <2>b, TokenFacts DEF Follows
      <4>3. CASE k = HdrLen + 1
        <5>1. d + k = d + HdrLen + 1
          BY <4>3, <1>c
        <5> QED BY <5>1, <2>2, TokenFacts DEF Follows
      <4>4. CASE k > HdrLen + 1
        <5>1. d + k \in (d + HdrLen + 2)..(d + m)
          BY <4>4, <3>1, <1>c
        <5> QED BY <5>1, <3>3, TokenFacts DEF Follows
      <4> QED BY <4>0, <4>1, <4>2, <4>3, <4>4, <1>c
    <3>5. UNCHANGED <<wire, got, bytes_remaining, reclen_buf, cli, cli_data, writer>>
      BY <1>a, <1>b
    <3>6. \A k \in 1..d : buf'[Cell(k)] = buf[Cell(k)]
      BY <2>2
    <3> QED BY <3>1, <3>2, <3>4, <3>5, <3>6, <2>b, <2>d, <1>i, Appended
  <2> QED BY <2>3, <2>4, <2>5, <1>b DEF IInv
<1> QED BY <1>1, <1>2

-----------------------------------------------------------------------------
\* The client.

LEMMA Cut ==
  ASSUME NEW S, NEW w \in Seq(S), NEW n \in 0..Len(w)
  PROVE  /\ SubSeq(w, 1, n) \in Seq(S) /\ Len(SubSeq(w, 1, n)) = n
         /\ \A i \in 1..n : SubSeq(w, 1, n)[i] = w[i]
         /\ SubSeq(w, n + 1, Len(w)) \in Seq(S) /\ Len(SubSeq(w, n + 1, Len(w))) = Len(w) - n
         /\ \A i \in 1..(Len(w) - n) : SubSeq(w, n + 1, Len(w))[i] = w[n + i]
<1>1. Len(w) \in Nat /\ \A i \in 1..Len(w) : w[i] \in S
  BY LenProperties, ElementOfSeq
<1>2. \A i \in 1..n : w[i] \in S
  BY <1>1
<1>3. /\ SubSeq(w, 1, n) \in Seq(S)
      /\ Len(SubSeq(w, 1, n)) = IF 1 <= n THEN n - 1 + 1 ELSE 0
      /\ \A i \in 1..(n - 1 + 1) : SubSeq(w, 1, n)[i] = w[1 + i - 1]
  <2>1. n \in Int /\ 1 \in Int
    BY <1>1
  <2> QED BY <2>1, <1>2, SubSeqProperties
<1>4. PICK m \in Int, l \in Int : m = n + 1 /\ l = Len(w)
  BY <1>1
<1>5. \A i \in m..l : w[i] \in S
  BY <1>1, <1>4
<1>6. /\ SubSeq(w, m, l) \in Seq(S)
      /\ Len(SubSeq(w, m, l)) = IF m <= l THEN l - m + 1 ELSE 0
      /\ \A i \in 1..(l - m + 1) : SubSeq(w, m, l)[i] = w[m + i - 1]
  BY <1>5, SubSeqProperties
<1>7. \A i \in 1..n : 1 + i - 1 = i /\ i \in 1..(n - 1 + 1)
  BY <1>1
<1>8. \A i \in 1..(l - n) : m + i - 1 = n + i /\ i \in 1..(l - m + 1)
  BY <1>1, <1>4
<1> QED BY <1>1, <1>3, <1>4, <1>6, <1>7, <1>8

\* What the client does leaves saned's side of the stream alone.
LEMMA SanedKept ==
  ASSUME IInv, UNCHANGED <<pc, ring, device>>
  PROVE  /\ UNCHANGED <<pc, buf, reader, writer, bytes_in_buf, status_dirty, status>>
         /\ UNCHANGED <<be_fd, timeout, produced, be_closed>>
         /\ UNCHANGED <<InUse, Stored, Open>> /\ \A k : Cell(k)' = Cell(k)
         /\ Indices' /\ EndOfImage'
<1>1. Indices /\ EndOfImage
  BY DEF IInv
<1>2. /\ UNCHANGED <<pc, buf, reader, writer, bytes_in_buf, status_dirty, status>>
      /\ UNCHANGED <<be_fd, timeout, produced, be_closed>>
  BY DEF ring, device
<1>3. UNCHANGED <<InUse, Rewound, Stored, Open>>
  BY <1>2 DEF InUse, Rewound, Stored, Open
<1>4. \A k : Cell(k)' = Cell(k)
  BY <1>2 DEF Cell
<1> QED BY <1>1, <1>2, <1>3, <1>4 DEF Indices, EndOfImage

\* The stream goes on behind the n bytes that are taken, if the byte taken last is
\* the last of them, or stands for the length that ends with it.
LEMMA StreamTaken ==
  ASSUME IInv, UNCHANGED <<pc, ring, device>>, cli_data,
         NEW n \in 1..Len(wire), wire' = SubSeq(wire, n + 1, Len(wire)),
         \/ Taken' = wire[n]
         \/ \E len \in Lengths \ {End} : /\ Taken' = ImageByte(got, len)
                                         /\ wire[n] = LenByte(len, HdrLen, got)
  PROVE  /\ wire' \in Seq(Token) /\ Len(wire') <= SocketBuf
         /\ Stream'
<1>i. TypeOK /\ Stream
  BY DEF IInv
<1>1. PICK l \in Nat : l = Len(wire)
  BY <1>i, PendingFacts
<1>2. /\ wire \in Seq(Token) /\ Stored \in Nat /\ SocketBuf \in Nat /\ l <= SocketBuf
      /\ n \in Nat /\ n \in 0..l /\ n \in 1..l
  BY <1>i, <1>1, PendingFacts, Constants DEF TypeOK
<1>3. /\ wire' \in Seq(Token) /\ Len(wire') = l - n
      /\ \A i \in 1..(l - n) : wire'[i] = wire[n + i]
  BY <1>1, <1>2, Cut
<1>4. /\ UNCHANGED <<buf, writer, produced, InUse, Stored, Open>>
      /\ \A k : Cell(k)' = Cell(k)
  BY SanedKept
<1>5. PICK c \in Nat : c = Count' /\ Count = c + n
  <2>1. PICK s \in Nat : s = (IF InUse THEN Stored ELSE 0)
    BY <1>2
  <2>2. l - n \in Nat /\ Count = l + s /\ Count' = (l - n) + s
    BY <2>1, <1>1, <1>2, <1>3, <1>4 DEF Count
  <2> QED BY <2>1, <2>2, <1>2
<1>6. \A k \in 1..c : Pending(k)' = Pending(n + k)
  <2> SUFFICES ASSUME NEW k \in 1..c PROVE Pending(k)' = Pending(n + k)
    OBVIOUS
  <2>1. CASE k <= l - n
    <3>1. k # 0 /\ n + k # 0 /\ n + k <= l /\ k \in 1..(l - n)
      BY <2>1, <1>2
    <3> QED BY <2>1, <3>1, <1>1, <1>3 DEF Pending
  <2>2. CASE ~(k <= l - n)
    <3>1. k # 0 /\ n + k # 0 /\ ~(n + k <= l) /\ (n + k) - l = k - (l - n)
      BY <2>2, <1>2
    <3>2. Pending(k)' = buf[Cell(k - (l - n))]
      BY <2>2, <3>1, <1>1, <1>3, <1>4 DEF Pending
    <3>3. Pending(n + k) = buf[Cell((n + k) - l)]
      BY <3>1, <1>1 DEF Pending
    <3> QED BY <3>1, <3>2, <3>3
  <2> QED BY <2>1, <2>2
<1>7. Pending(0)' = Taken' /\ Pending(n) = wire[n] /\ n + 0 = n
  <2>1. n # 0 /\ n <= l
    BY <1>2
  <2> QED BY <2>1, <1>1, <1>2 DEF Pending
<1>8. /\ \A b : Follows(wire[n], b) => Follows(Taken', b)
      /\ \A p : EndsRecord(wire[n], p) => EndsRecord(Taken', p)
  <2>1. CASE Taken' = wire[n]
    BY <2>1
  <2>2. CASE \E len \in Lengths \ {End} : /\ Taken' = ImageByte(got, len)
                                          /\ wire[n] = LenByte(len, HdrLen, got)
    <3>1. PICK len \in Lengths \ {End} : /\ Taken' = ImageByte(got, len)
                                         /\ wire[n] = LenByte(len, HdrLen, got)
      BY <2>2
    <3>2. ~(HdrLen < HdrLen) /\ (len = 0 \/ len > 0) /\ len # End
      BY Constants DEF Lengths, End
    <3>3. ASSUME NEW b, Follows(wire[n], b) PROVE Follows(Taken', b)
      <4>1. /\ len = 0 => Begins(b, got)
            /\ len > 0 => b = ImageByte(got + 1, len - 1)
        BY <3>1, <3>2, <3>3, TokenFacts DEF Follows
      <4>2. Follows(ImageByte(got, len), b)
        BY <4>1, <3>2, TokenFacts DEF Follows
      <4> QED BY <4>2, <3>1
    <3>4. ASSUME NEW p, EndsRecord(wire[n], p) PROVE EndsRecord(Taken', p)
      BY <3>1, <3>4, TokenFacts DEF EndsRecord
    <3> QED BY <3>3, <3>4
  <2> QED BY <2>1, <2>2
<1>9. Stream'
  <2>1. \A k \in 0..((c + n) - 1) : Follows(Pending(k), Pending(k + 1))
    BY <1>i, <1>5 DEF Stream
  <2>2. ASSUME NEW k \in 0..(c - 1) PROVE Follows(Pending(k)', Pending(k + 1)')
    <3>1. k \in Nat /\ k + 1 \in 1..c /\ n + k \in 0..((c + n) - 1) /\ n + (k + 1) = (n + k) + 1
      BY <1>2
    <3>2. Follows(Pending(n + k), Pending(n + (k + 1)))
      BY <2>1, <3>1
    <3>3. Pending(k + 1)' = Pending(n + (k + 1))
      BY <3>1, <1>6
    <3>4. CASE k = 0
      BY <3>2, <3>3, <3>4, <1>7, <1>8
    <3>5. CASE k # 0
      <4>1. k \in 1..c
        BY <3>1, <3>5
      <4> QED BY <4>1, <3>2, <3>3, <1>6
    <3> QED BY <3>4, <3>5
  <2>3. ASSUME Open PROVE EndsRecord(Pending(c)', produced)
    <3>1. EndsRecord(Pending(c + n), produced)
      BY <2>3, <1>i, <1>5 DEF Stream
    <3>2. c + n = n + c /\ (c = 0 \/ c \in 1..c)
      BY <1>2
    <3> QED BY <3>1, <3>2, <1>6, <1>7, <1>8
  <2>4. Open => \A k \in (Stored + 1)..BufferSize : buf[Cell(k)] = Junk
    BY <1>i DEF Stream
  <2>5. Open => \A k \in (Stored' + 1)..BufferSize : buf'[Cell(k)'] = Junk
    BY <2>4, <1>4
  <2> QED BY <2>2, <2>3, <2>5, <1>4, <1>5 DEF Stream
<1> QED BY <1>1, <1>2, <1>3, <1>9

\* Bytes of a length, up to its end.
LEMMA ReadLengthStep ==
  ASSUME IInv, ReadLength
  PROVE  IInv'
<1>i. TypeOK /\ Stream /\ Client /\ NothingLost /\ EofIsComplete /\ intact
  BY DEF IInv
<1> DEFINE n    == Least(HdrLen - Len(reclen_buf), Len(wire))
           all  == reclen_buf \o SubSeq(wire, 1, n)
           full == Len(all) = HdrLen
           len  == all[1].val
<1>a. /\ cli = "free" /\ cli_data /\ wire # <<>> /\ bytes_remaining = 0
      /\ wire' = SubSeq(wire, n + 1, Len(wire))
      /\ reclen_buf' = IF full THEN <<>> ELSE all
      /\ intact' = (intact /\ (full => \A k \in 1..HdrLen : all[k] = LenByte(len, k, got)))
      /\ IF full /\ all[1].is = "len"
         THEN /\ bytes_remaining' = IF len = End THEN 0 ELSE len
              /\ cli' = IF len = End THEN "status" ELSE "free"
         ELSE UNCHANGED <<bytes_remaining, cli>>
      /\ UNCHANGED <<rpc_ready, docancel, scanning, srv_data, request, reply, cli_data, got,
                     result, hang_over, left_over, out>>
      /\ UNCHANGED <<pc, ring, device>>
  BY DEF ReadLength, CanRead, Rest, control, order
<1>s. /\ UNCHANGED <<pc, buf, reader, writer, bytes_in_buf, status_dirty, status>>
      /\ UNCHANGED <<be_fd, timeout, produced, be_closed>>
      /\ Indices' /\ EndOfImage'
  BY <1>a, SanedKept
<1>c. PICK h \in Nat, l \in Nat : /\ h = Len(reclen_buf) /\ h < HdrLen /\ l = Len(wire) /\ l # 0
                                  /\ HdrLen \in Nat /\ wire \in Seq(Token)
                                  /\ reclen_buf \in Seq(Token)
  <2>1. reclen_buf \in Seq(Token) /\ Len(reclen_buf) < HdrLen /\ Len(reclen_buf) \in Nat
    BY <1>i, LenProperties DEF TypeOK
  <2> QED BY <2>1, <1>a, <1>i, Constants, PendingFacts DEF TypeOK
<1>n. n \in Nat /\ n \in 1..l /\ n \in 1..Len(wire) /\ n \in 0..Len(wire) /\ h + n <= HdrLen
  BY <1>c DEF Least
<1> HIDE DEF n
<1>1. /\ all \in Seq(Token) /\ Len(all) = h + n
      /\ \A k \in 1..h : all[k] = reclen_buf[k]
      /\ \A k \in 1..n : all[h + k] = wire[k]
  <2>1. /\ SubSeq(wire, 1, n) \in Seq(Token) /\ Len(SubSeq(wire, 1, n)) = n
        /\ \A k \in 1..n : SubSeq(wire, 1, n)[k] = wire[k]
    BY <1>c, <1>n, Cut
  <2>2. /\ all \in Seq(Token) /\ Len(all) = h + n
        /\ \A k \in 1..(h + n) : all[k] = IF k <= h THEN reclen_buf[k]
                                          ELSE SubSeq(wire, 1, n)[k - h]
    BY <2>1, <1>c, ConcatProperties
  <2>3. \A k \in 1..h : k \in 1..(h + n) /\ k <= h
    BY <1>n
  <2>4. \A k \in 1..n : h + k \in 1..(h + n) /\ ~(h + k <= h) /\ (h + k) - h = k
    BY <1>n
  <2> QED BY <2>1, <2>2, <2>3, <2>4
<1> HIDE DEF all
<1>2. \A k \in 0..(n - 1) : Follows(Pending(k), Pending(k + 1))
  <2>1. \A k \in 0..(n - 1) : k \in 0..(Count - 1)
    BY <1>i, <1>n, <1>c, PendingFacts
  <2> QED BY <2>1, <1>i, <1>a DEF Stream
<1>3. \A k \in 1..n : Pending(k) = wire[k]
  BY <1>i, <1>n, <1>c, PendingFacts
<1>4. PICK m \in Lengths : \A k \in 1..(h + n) : all[k] = LenByte(m, k, got)
  <2>1. CASE h = 0
    <3>1. reclen_buf = <<>>
      BY <2>1, <1>c, EmptySeq
    <3>2. Pending(0) = ImageByte(got, 0)
      BY <3>1, <1>a DEF Pending, Taken
    <3>3. 0 \in 0..(n - 1) /\ 1 \in 1..n /\ 0 + 1 = 1
      BY <1>n
    <3>4. Begins(wire[1], got)
      <4>1. Follows(Pending(0), wire[1])
        BY <3>3, <1>2, <1>3
      <4> QED BY <4>1, <3>2, TokenFacts DEF Follows
    <3>5. PICK m \in Lengths : wire[1] = LenByte(m, 1, got)
      BY <3>4 DEF Begins
    <3> DEFINE s == [k \in 0..n |-> Pending(k + 1)]
    <3>6. s[0] = LenByte(m, 1, got)
      BY <3>3, <3>5, <1>3, <1>n
    <3>8. PICK q \in Nat : n = q + 1 /\ q = n - 1 /\ 1 + q <= HdrLen /\ 1 \in 1..HdrLen
      <4>1. n - 1 \in Nat /\ n = (n - 1) + 1 /\ 1 + (n - 1) <= HdrLen /\ 1 \in 1..HdrLen
        BY <1>n, <1>c
      <4> QED BY <4>1
    <3>7. \A k \in 0..(q - 1) : Follows(s[k], s[k + 1])
      <4>1. \A k \in 0..(q - 1) : /\ k \in 0..n /\ k + 1 \in 0..n
                                  /\ k + 1 \in 0..(n - 1)
        BY <3>8
      <4> QED BY <4>1, <1>2
    <3>9. \A j \in 0..q : s[j] = wire[j + 1]
      BY <1>3, <3>8
    <3> HIDE DEF s
    <3>10. \A j \in 0..q : s[j] = LenByte(m, 1 + j, got)
      BY <3>6, <3>7, <3>8, HeaderRun
    <3>11. ASSUME NEW k \in 1..(h + n) PROVE all[k] = LenByte(m, k, got)
      <4>1. k - 1 \in 0..q /\ (k - 1) + 1 = k /\ 1 + (k - 1) = k /\ k \in 1..n /\ h + k = k
        BY <2>1, <3>8, <1>n
      <4>2. wire[k] = LenByte(m, k, got)
        BY <4>1, <3>9, <3>10
      <4> QED BY <4>1, <4>2, <1>1
    <3> QED BY <3>11
  <2>2. CASE h # 0
    <3>1. PICK m \in Lengths : \A k \in 1..h : reclen_buf[k] = LenByte(m, k, got)
      BY <1>i, <1>c DEF Client
    <3>2. Pending(0) = LenByte(m, h, got)
      <4>1. reclen_buf # <<>> /\ h \in 1..h
        BY <2>2, <1>c, EmptySeq
      <4> QED BY <4>1, <3>1, <1>a, <1>c DEF Pending, Taken
    <3> DEFINE s == [k \in 0..n |-> Pending(k)]
    <3>3. s[0] = LenByte(m, h, got) /\ h \in 1..HdrLen
      BY <3>2, <2>2, <1>n, <1>c
    <3>4. \A k \in 0..(n - 1) : Follows(s[k], s[k + 1])
      <4>1. \A k \in 0..(n - 1) : k \in 0..n /\ k + 1 \in 0..n
        BY <1>n
      <4> QED BY <4>1, <1>2
    <3>5. \A j \in 1..n : s[j] = wire[j] /\ j \in 0..n
      BY <1>3, <1>n
    <3> HIDE DEF s
    <3>6. \A j \in 0..n : s[j] = LenByte(m, h + j, got)
      BY <3>3, <3>4, <1>n, HeaderRun
    <3>7. \A j \in 1..n : all[h + j] = LenByte(m, h + j, got)
      BY <3>5, <3>6, <1>1
    <3>8. ASSUME NEW k \in 1..(h + n) PROVE all[k] = LenByte(m, k, got)
      <4>1. CASE k <= h
        BY <4>1, <3>1, <1>1
      <4>2. CASE k > h
        <5>1. PICK j \in 1..n : k = h + j
          <6>1. k - h \in 1..n /\ k = h + (k - h)
            BY <4>2, <1>n
          <6> QED BY <6>1
        <5> QED BY <5>1, <3>7
      <4> QED BY <4>1, <4>2
    <3> QED BY <3>8
  <2> QED BY <2>1, <2>2
<1>5. /\ 1 \in 1..(h + n) /\ h + n \in 1..(h + n) /\ n \in 1..n
      /\ all[1] = LenByte(m, 1, got) /\ len = m /\ all[1].is = "len"
      /\ wire[n] = LenByte(m, h + n, got)
  <2>1. 1 \in 1..(h + n) /\ h + n \in 1..(h + n) /\ n \in 1..n
    BY <1>n
  <2>2. all[1] = LenByte(m, 1, got) /\ wire[n] = LenByte(m, h + n, got)
    BY <2>1, <1>1, <1>4
  <2> QED BY <2>1, <2>2, TokenFacts
<1>6. intact'
  <2>1. full => \A k \in 1..HdrLen : all[k] = LenByte(len, k, got)
    BY <1>1, <1>4, <1>5
  <2> QED BY <2>1, <1>a, <1>i
<1> HIDE DEF len
<1>7. CASE ~full
  <2>1. /\ reclen_buf' = all /\ UNCHANGED <<bytes_remaining, cli>> /\ h + n < HdrLen
    <3>1. h + n < HdrLen
      <4>1. h + n # HdrLen
        BY <1>7, <1>1
      <4>2. h + n <= HdrLen /\ h + n \in Nat /\ HdrLen \in Nat
        BY <1>n, <1>c
      <4> QED BY <4>1, <4>2
    <3> QED BY <3>1, <1>7, <1>a
  <2>2. all # <<>>
    BY <1>1, <1>n, EmptySeq
  <2>3. Taken' = wire[n]
    <3>1. all[Len(all)] = wire[n]
      BY <1>1, <1>5
    <3> QED BY <3>1, <2>1, <2>2, <1>a DEF Taken
  <2>4. wire' \in Seq(Token) /\ Len(wire') <= SocketBuf /\ Stream'
    BY <2>3, <1>a, <1>n, StreamTaken
  <2>5. TypeOK'
    BY <2>1, <2>4, <1>i, <1>a, <1>s, <1>1, <1>6 DEF TypeOK
  <2>6. Client'
    BY <2>1, <1>i, <1>a, <1>1, <1>4 DEF Client
  <2>7. NothingLost' /\ EofIsComplete'
    BY <1>i, <1>a DEF NothingLost, EofIsComplete
  <2> QED BY <2>4, <2>5, <2>6, <2>7, <1>s, <1>6 DEF IInv
<1>8. CASE full
  <2>1. /\ reclen_buf' = <<>> /\ h + n = HdrLen
        /\ bytes_remaining' = (IF m = End THEN 0 ELSE m)
        /\ cli' = (IF m = End THEN "status" ELSE "free")
    BY <1>8, <1>a, <1>1, <1>5
  <2>2. wire[n] = LenByte(m, HdrLen, got)
    BY <2>1, <1>5
  <2>3. \/ Taken' = wire[n]
        \/ \E x \in Lengths \ {End} : /\ Taken' = ImageByte(got, x)
                                      /\ wire[n] = LenByte(x, HdrLen, got)
    <3>1. CASE m = End
      BY <3>1, <2>1, <2>2, <1>a DEF Taken
    <3>2. CASE m # End
      <4>1. Taken' = ImageByte(got, m)
        BY <3>2, <2>1, <1>a DEF Taken
      <4> QED BY <4>1, <3>2, <2>2, <1>4
    <3> QED BY <3>1, <3>2
  <2>4. wire' \in Seq(Token) /\ Len(wire') <= SocketBuf /\ Stream'
    BY <2>3, <1>a, <1>n, StreamTaken
  <2>5. bytes_remaining' \in 0..BufferSize
    BY <2>1, <1>4, Constants DEF Lengths, End
  <2>6. TypeOK'
    <3>1. reclen_buf' \in Seq(Token) /\ Len(reclen_buf') < HdrLen
      BY <2>1, Constants
    <3>2. cli' \in {"free", "status"}
      BY <2>1
    <3> QED BY <3>1, <3>2, <2>4, <2>5, <1>i, <1>a, <1>s, <1>6 DEF TypeOK
  <2>7. Client'
    <3>1. \A k \in 1..Len(reclen_buf') : reclen_buf'[k] = LenByte(m, k, got')
      BY <2>1
    <3>2. cli' = "status" => bytes_remaining' = 0
      BY <2>1
    <3> QED BY <3>1, <3>2, <2>1, <1>i, <1>a DEF Client
  <2>8. NothingLost' /\ EofIsComplete'
    BY <1>i, <1>a DEF NothingLost, EofIsComplete
  <2> QED BY <2>4, <2>6, <2>7, <2>8, <1>s, <1>6 DEF IInv
<1> QED BY <1>7, <1>8

\* What is said is what was stored: the status, behind the length End.
LEMMA ReadStatusStep ==
  ASSUME IInv, ReadStatus
  PROVE  IInv'
<1>i. TypeOK /\ Stream /\ Client /\ NothingLost /\ EofIsComplete /\ intact
  BY DEF IInv
<1>a. /\ cli = "status" /\ cli' = "free" /\ cli_data' = FALSE /\ wire' = <<>>
      /\ \/ /\ wire # <<>> /\ result' = Head(wire).val
            /\ intact' = (intact /\ Head(wire) = StatusByte(result', got))
         \/ result' = "io_error" /\ intact' = intact
      /\ UNCHANGED <<rpc_ready, docancel, scanning, srv_data, request, reply, reclen_buf,
                     bytes_remaining, got, hang_over, left_over, out>>
      /\ UNCHANGED <<pc, ring, device>>
  BY DEF ReadStatus, control, order
<1>s. /\ UNCHANGED <<pc, buf, reader, writer, bytes_in_buf, status_dirty, status>>
      /\ UNCHANGED <<be_fd, timeout, produced, be_closed>>
      /\ Indices' /\ EndOfImage'
  BY <1>a, SanedKept
<1>1. intact' /\ result' \in EndStatus /\ (result' = "eof" => got = ImageLen)
  <2>1. CASE /\ wire # <<>> /\ result' = Head(wire).val
             /\ intact' = (intact /\ Head(wire) = StatusByte(result', got))
    <3>1. Head(wire) = wire[1] /\ 0 \in 0..(Count - 1) /\ Pending(0 + 1) = wire[1]
      <4>1. /\ Len(wire) \in Nat \ {0} /\ Count \in Nat /\ Len(wire) <= Count
            /\ \A k \in 1..Len(wire) : Pending(k) = wire[k]
        BY <2>1, <1>i, PendingFacts
      <4>2. wire \in Seq(Token)
        BY <1>i DEF TypeOK
      <4> QED BY <2>1, <4>1, <4>2, HeadTailProperties
    <3>2. Pending(0) = LenByte(End, HdrLen, got)
      BY <1>a DEF Pending, Taken
    <3>3. Follows(Pending(0), wire[1])
      BY <3>1, <1>i, <1>a DEF Stream, Client
    <3>4. ~(HdrLen < HdrLen)
      BY Constants
    <3>5. PICK s \in EndStatus : wire[1] = StatusByte(s, got) /\ (s = "eof" => got = ImageLen)
      BY <3>2, <3>3, <3>4, TokenFacts DEF Follows
    <3>6. result' = s
      BY <2>1, <3>1, <3>5, TokenFacts
    <3> QED BY <2>1, <3>1, <3>5, <3>6, <1>i
  <2>2. CASE result' = "io_error" /\ intact' = intact
    BY <2>2, <1>i DEF EndStatus
  <2> QED BY <2>1, <2>2, <1>a
<1>2. TypeOK'
  <2>1. wire' \in Seq(Token) /\ Len(wire') <= SocketBuf
    BY <1>a, Constants
  <2> QED BY <2>1, <1>i, <1>a, <1>s, <1>1 DEF TypeOK
<1>3. Stream'
  BY <1>a DEF Stream
<1>4. Client' /\ NothingLost' /\ EofIsComplete'
  BY <1>i, <1>a, <1>1 DEF Client, NothingLost, EofIsComplete
<1> QED BY <1>1, <1>2, <1>3, <1>4, <1>s DEF IInv

\* A call of the frontend goes out; the stream waits.
LEMMA CallStep ==
  ASSUME IInv, NEW what \in {"cancel", "call"}, Call(what)
  PROVE  IInv'
<1>i. TypeOK /\ Stream /\ Client /\ NothingLost /\ EofIsComplete /\ intact
  BY DEF IInv
<1>a. /\ cli = "free" /\ cli' = what /\ request' = what
      /\ UNCHANGED <<rpc_ready, docancel, scanning, wire, srv_data, reply, cli_data, reclen_buf,
                     bytes_remaining, got, result, intact, hang_over, left_over, out>>
      /\ UNCHANGED <<pc, ring, device>>
  BY DEF Call, order
<1>s. /\ UNCHANGED <<pc, buf, reader, writer, bytes_in_buf, status_dirty, status>>
      /\ UNCHANGED <<be_fd, timeout, produced, be_closed>>
      /\ UNCHANGED <<InUse, Stored, Open>>
      /\ Indices' /\ EndOfImage'
  BY <1>a, SanedKept
<1>1. TypeOK'
  BY <1>i, <1>a, <1>s DEF TypeOK
<1>2. Stream'
  <2>1. cli' = "status" <=> cli = "status"
    BY <1>a
  <2> QED BY <2>1, <1>i, <1>a, <1>s, StreamKept
<1>3. Client' /\ NothingLost' /\ EofIsComplete' /\ intact'
  BY <1>i, <1>a DEF Client, NothingLost, EofIsComplete
<1> QED BY <1>1, <1>2, <1>3, <1>s DEF IInv

\* The reply; do_cancel closes the data connection.
LEMMA CallReturnsStep ==
  ASSUME IInv, CallReturns
  PROVE  IInv'
<1>i. TypeOK /\ Stream /\ Client /\ NothingLost /\ EofIsComplete /\ intact
  BY DEF IInv
<1>a. /\ cli \in {"cancel", "call"} /\ cli' = "free" /\ reply' = "none"
      /\ cli_data' = (cli_data /\ cli # "cancel")
      /\ wire' = (IF cli_data' THEN wire ELSE <<>>)
      /\ result' = (IF cli_data' \/ ~cli_data THEN result ELSE "cancelled")
      /\ UNCHANGED <<rpc_ready, docancel, scanning, srv_data, request, reclen_buf,
                     bytes_remaining, got, intact, hang_over, left_over, out>>
      /\ UNCHANGED <<pc, ring, device>>
  BY DEF CallReturns, order
<1>s. /\ UNCHANGED <<pc, buf, reader, writer, bytes_in_buf, status_dirty, status>>
      /\ UNCHANGED <<be_fd, timeout, produced, be_closed>>
      /\ UNCHANGED <<InUse, Stored, Open>>
      /\ Indices' /\ EndOfImage'
  BY <1>a, SanedKept
<1>b. /\ cli_data' \in BOOLEAN /\ (cli_data' => cli_data) /\ result' \in {result, "cancelled"}
      /\ (cli_data' => result' = result)
  BY <1>i, <1>a DEF TypeOK
<1>1. TypeOK'
  <2>1. wire' \in Seq(Token) /\ Len(wire') <= SocketBuf
    BY <1>i, <1>a, Constants DEF TypeOK
  <2>2. result' \in EndStatus \cup {"good", "cancelled"}
    BY <1>i, <1>b DEF TypeOK
  <2> QED BY <2>1, <2>2, <1>i, <1>a, <1>b, <1>s DEF TypeOK
<1>2. Stream'
  <2>1. CASE ~cli_data'
    BY <2>1 DEF Stream
  <2>2. CASE cli_data'
    <3>1. (cli' = "status" <=> cli = "status") /\ UNCHANGED wire
      BY <2>2, <1>a
    <3> QED BY <3>1, <1>i, <1>a, <1>b, <1>s, StreamKept
  <2> QED BY <2>1, <2>2
<1>3. Client' /\ NothingLost' /\ EofIsComplete' /\ intact'
  BY <1>i, <1>a, <1>b DEF Client, NothingLost, EofIsComplete
<1> QED BY <1>1, <1>2, <1>3, <1>s DEF IInv

\* The client's process ends, with what it had.
LEMMA ClientDieStep ==
  ASSUME IInv, ClientDie
  PROVE  IInv'
<1>i. TypeOK /\ intact
  BY DEF IInv
<1>a. /\ cli' = "dead" /\ cli_data' = FALSE /\ wire' = <<>> /\ reclen_buf' = <<>>
      /\ bytes_remaining' = 0 /\ got' = 0 /\ result' = "good"
      /\ hang_over' = 0 /\ left_over' = 0 /\ out' = <<>>
      /\ UNCHANGED <<rpc_ready, docancel, scanning, srv_data, request, reply, intact>>
      /\ UNCHANGED <<pc, ring, device>>
  BY DEF ClientDie, control
<1>s. /\ UNCHANGED <<pc, buf, reader, writer, bytes_in_buf, status_dirty, status>>
      /\ UNCHANGED <<be_fd, timeout, produced, be_closed>>
      /\ Indices' /\ EndOfImage'
  BY <1>a, SanedKept
<1>1. TypeOK'
  <2>1. /\ wire' \in Seq(Token) /\ Len(wire') <= SocketBuf
        /\ reclen_buf' \in Seq(Token) /\ Len(reclen_buf') < HdrLen /\ out' \in Seq(1..ImageLen)
        /\ got' \in 0..ImageLen /\ bytes_remaining' \in 0..BufferSize
        /\ {hang_over', left_over'} \subseteq 0..ImageLen
    BY <1>a, Constants
  <2> QED BY <2>1, <1>i, <1>a, <1>s DEF TypeOK
<1>2. Stream' /\ EofIsComplete' /\ intact'
  BY <1>i, <1>a DEF Stream, EofIsComplete
<1>3. NothingLost'
  <2>1. /\ {hang_over', left_over'} \ {0} = {} /\ {out'[k] : k \in DOMAIN out'} = {}
        /\ Len(out') = 0 /\ 1..got' = {}
    BY <1>a
  <2> QED BY <2>1, <1>a, FS_EmptySet DEF NothingLost
<1>4. Client'
  BY <1>a DEF Client, Lengths
<1> QED BY <1>1, <1>2, <1>3, <1>4, <1>s DEF IInv

-----------------------------------------------------------------------------
\* How many bytes are carried over, of which at most one is not 0.
LEMMA CarriedCount ==
  ASSUME NEW h, NEW l, h = 0 \/ l = 0
  PROVE  Cardinality({h, l} \ {0}) = IF h = 0 /\ l = 0 THEN 0 ELSE 1
<1>1. CASE h = 0 /\ l = 0
  <2>1. {h, l} \ {0} = {}
    BY <1>1
  <2> QED BY <1>1, <2>1, FS_EmptySet
<1>2. CASE h # 0
  <2>1. {h, l} \ {0} = {h}
    BY <1>2
  <2> QED BY <1>2, <2>1, FS_Singleton
<1>3. CASE l # 0
  <2>1. {h, l} \ {0} = {l}
    BY <1>3
  <2> QED BY <1>3, <2>1, FS_Singleton
<1> QED BY <1>1, <1>2, <1>3

\* The left-over byte is returned.
LEMMA ReadLeftOverStep ==
  ASSUME IInv, ReadLeftOver
  PROVE  IInv'
<1>i. TypeOK /\ Stream /\ Client /\ NothingLost /\ EofIsComplete /\ intact
  BY DEF IInv
<1>a. /\ cli = "free" /\ left_over # 0
      /\ out' = Append(out, left_over) /\ left_over' = 0
      /\ UNCHANGED <<rpc_ready, docancel, scanning, wire, srv_data, request, reply, cli,
                     cli_data, reclen_buf, bytes_remaining, got, result, intact, hang_over>>
      /\ UNCHANGED <<pc, ring, device>>
  BY DEF ReadLeftOver, control
<1>s. /\ UNCHANGED <<pc, buf, reader, writer, bytes_in_buf, status_dirty, status>>
      /\ UNCHANGED <<be_fd, timeout, produced, be_closed>>
      /\ UNCHANGED <<InUse, Stored, Open>>
      /\ Indices' /\ EndOfImage'
  BY <1>a, SanedKept
<1>1. /\ left_over \in 1..ImageLen /\ out \in Seq(1..ImageLen) /\ hang_over = 0
      /\ got \in Nat
  BY <1>i, <1>a, Constants DEF TypeOK, Client
<1>2. /\ out' \in Seq(1..ImageLen) /\ Len(out') = Len(out) + 1 /\ Len(out) \in Nat
      /\ {out'[k] : k \in DOMAIN out'} = {out[k] : k \in DOMAIN out} \cup {left_over}
  <2>1. /\ out' \in Seq(1..ImageLen) /\ Len(out') = Len(out) + 1 /\ Len(out) \in Nat
        /\ \A k \in 1..Len(out) : out'[k] = out[k]
        /\ out'[Len(out) + 1] = left_over
    BY <1>a, <1>1, AppendProperties, LenProperties
  <2>2. DOMAIN out = 1..Len(out) /\ DOMAIN out' = 1..(Len(out) + 1)
    BY <2>1, <1>1, LenProperties
  <2> QED BY <2>1, <2>2
<1>3. TypeOK'
  <2>1. {hang_over', left_over'} \subseteq 0..ImageLen
    BY <1>i, <1>a, <1>1, Constants DEF TypeOK
  <2> QED BY <2>1, <1>2, <1>i, <1>a, <1>s DEF TypeOK
<1>4. Stream'
  BY <1>i, <1>a, <1>s, StreamKept
<1>5. Client' /\ EofIsComplete' /\ intact'
  BY <1>i, <1>a DEF Client, EofIsComplete
<1>6. NothingLost'
  <2>1. /\ {hang_over, left_over} \ {0} = {left_over} /\ {hang_over', left_over'} \ {0} = {}
        /\ left_over # 0
    BY <1>a, <1>1
  <2>2. Cardinality({left_over}) = 1 /\ Cardinality({}) = 0
    BY FS_Singleton, FS_EmptySet
  <2>3. /\ {out[k] : k \in DOMAIN out} \cup {left_over} = 1..got
        /\ Len(out) + 1 = got
    BY <1>i, <2>1, <2>2 DEF NothingLost
  <2>4. {out'[k] : k \in DOMAIN out'} \cup ({hang_over', left_over'} \ {0}) = 1..got'
    BY <2>1, <2>3, <1>2, <1>a
  <2>5. Len(out') + Cardinality({hang_over', left_over'} \ {0}) = got'
    <3>1. Cardinality({hang_over', left_over'} \ {0}) = 0
      BY <2>1, <2>2
    <3>2. Len(out') = got /\ got' = got
      BY <2>3, <1>2, <1>a
    <3> QED BY <3>1, <3>2, <1>1
  <2> QED BY <2>1, <2>4, <2>5 DEF NothingLost
<1> QED BY <1>3, <1>4, <1>5, <1>6, <1>s DEF IInv

\* Swapping pairs moves bytes and loses none.
Elements(s) == {s[k] : k \in DOMAIN s}
LEMMA SwapPairsFacts ==
  ASSUME NEW S, NEW s \in Seq(S), NEW e \in Nat, e <= Len(s)
  PROVE  /\ SwapPairs(s, e) \in Seq(S) /\ Len(SwapPairs(s, e)) = Len(s)
         /\ Elements(SwapPairs(s, e)) = Elements(s)
<1>1. Len(s) \in Nat /\ DOMAIN s = 1..Len(s) /\ \A k \in 1..Len(s) : s[k] \in S
  BY LenProperties, ElementOfSeq
<1> DEFINE p(k) == IF k > e - (e % 2) THEN k ELSE IF k % 2 = 1 THEN k + 1 ELSE k - 1
<1>2. /\ e % 2 \in {0, 1} /\ (e - (e % 2)) % 2 = 0
      /\ \A k \in Nat : k % 2 \in {0, 1}
  BY SMT
<1>3. \A k \in DOMAIN s : p(k) \in DOMAIN s /\ p(p(k)) = k
  <2> SUFFICES ASSUME NEW k \in 1..Len(s) PROVE p(k) \in 1..Len(s) /\ p(p(k)) = k
    BY <1>1
  <2>1. PICK d \in Nat : d = e - (e % 2) /\ d <= Len(s) /\ d % 2 = 0
    BY <1>1, <1>2
  <2>2. CASE k > d
    BY <2>1, <2>2, <1>1
  <2>3. CASE k <= d /\ k % 2 = 1
    <3>1. k + 1 <= d /\ (k + 1) % 2 = 0 /\ k \in Nat
      BY <2>1, <2>3, <1>1
    <3> QED BY <3>1, <2>1, <2>3, <1>1
  <2>4. CASE k <= d /\ k % 2 # 1
    <3>1. k - 1 >= 1 /\ (k - 1) % 2 = 1 /\ k \in Nat
      BY <2>4, <1>1
    <3> QED BY <3>1, <2>1, <2>4, <1>1
  <2> QED BY <2>1, <2>2, <2>3, <2>4, <1>1
<1>4. SwapPairs(s, e) = [k \in DOMAIN s |-> s[p(k)]]
  <2>1. \A k \in DOMAIN s : (IF k > e - (e % 2) THEN s[k]
                             ELSE IF k % 2 = 1 THEN s[k + 1] ELSE s[k - 1]) = s[p(k)]
    OBVIOUS
  <2> QED BY <2>1 DEF SwapPairs
<1> HIDE DEF p
<1>5. SwapPairs(s, e) \in [1..Len(s) -> S]
  BY <1>1, <1>3, <1>4
<1>6. SwapPairs(s, e) \in Seq(S) /\ Len(SwapPairs(s, e)) = Len(s)
  BY <1>1, <1>5, FunctionIsSeq
<1>7. {SwapPairs(s, e)[k] : k \in DOMAIN s} = {s[k] : k \in DOMAIN s}
  <2>1. \A k \in DOMAIN s : SwapPairs(s, e)[k] = s[p(k)] /\ SwapPairs(s, e)[p(k)] = s[k]
    BY <1>3, <1>4
  <2> DEFINE t == SwapPairs(s, e)
  <2>2. /\ \A k \in DOMAIN s : \E j \in DOMAIN s : t[k] = s[j]
        /\ \A k \in DOMAIN s : \E j \in DOMAIN s : s[k] = t[j]
    BY <2>1, <1>3
  <2> HIDE DEF t
  <2>3. {t[k] : k \in DOMAIN s} = {s[k] : k \in DOMAIN s}
    <3>1. ASSUME NEW x \in {t[k] : k \in DOMAIN s} PROVE x \in {s[k] : k \in DOMAIN s}
      BY <2>2
    <3>2. ASSUME NEW x \in {s[k] : k \in DOMAIN s} PROVE x \in {t[k] : k \in DOMAIN s}
      BY <2>2
    <3> QED BY <3>1, <3>2
  <2> QED BY <2>3 DEF t
<1>8. DOMAIN SwapPairs(s, e) = DOMAIN s
  BY <1>4
<1>9. Elements(SwapPairs(s, e)) = Elements(s)
  BY <1>7, <1>8 DEF Elements
<1> QED BY <1>6, <1>9

\* Whatever the parity of the read: what was carried and what came are returned,
\* but for one byte at most, which is carried on.
LEMMA SwapBytesFacts ==
  ASSUME NEW S, 0 \notin S, NEW data \in Seq(S), Len(data) # 0, NEW hang \in S \cup {0},
         NEW r, r = SwapBytes(hang, data)
  PROVE  /\ r.out \in Seq(S) /\ r.hang \in S \cup {0} /\ r.left \in S \cup {0}
         /\ r.hang = 0 \/ r.left = 0
         /\ Len(r.out) + (IF r.hang = 0 /\ r.left = 0 THEN 0 ELSE 1)
              = Len(data) + (IF hang = 0 THEN 0 ELSE 1)
         /\ Elements(r.out) \cup ({r.hang, r.left} \ {0}) = Elements(data) \cup ({hang} \ {0})
<1>1. PICK n \in Nat : n = Len(data) /\ n # 0
  BY LenProperties
<1>2. DOMAIN data = 1..n /\ \A k \in 1..n : data[k] \in S /\ data[k] # 0
  BY <1>1, LenProperties, ElementOfSeq
<1> DEFINE up == <<hang>> \o SubSeq(data, 1, n - 1)
           piece == SubSeq(data, 1, n - 1)
<1>3. PICK m \in Nat : m = n - 1 /\ n = m + 1 /\ m \in 0..Len(data)
  <2>1. n - 1 \in Nat /\ n = (n - 1) + 1 /\ n - 1 \in 0..Len(data)
    BY <1>1
  <2> QED BY <2>1
<1>4. /\ piece \in Seq(S) /\ Len(piece) = m /\ DOMAIN piece = 1..m
      /\ \A k \in 1..m : piece[k] = data[k]
  <2>1. /\ SubSeq(data, 1, m) \in Seq(S) /\ Len(SubSeq(data, 1, m)) = m
        /\ \A k \in 1..m : SubSeq(data, 1, m)[k] = data[k]
    BY <1>3, Cut
  <2>2. DOMAIN SubSeq(data, 1, m) = 1..m
    BY <2>1, LenProperties
  <2> QED BY <2>1, <2>2, <1>3
<1>5. hang # 0 => /\ up \in Seq(S) /\ Len(up) = n /\ DOMAIN up = 1..n /\ up[1] = hang
                  /\ \A k \in 1..m : up[k + 1] = data[k]
  <2> SUFFICES ASSUME hang # 0
               PROVE  /\ up \in Seq(S) /\ Len(up) = n /\ DOMAIN up = 1..n /\ up[1] = hang
                      /\ \A k \in 1..m : up[k + 1] = data[k]
    OBVIOUS
  <2>1. <<hang>> \in Seq(S) /\ Len(<<hang>>) = 1 /\ <<hang>>[1] = hang
    OBVIOUS
  <2> HIDE DEF piece
  <2>2. /\ <<hang>> \o piece \in Seq(S) /\ Len(<<hang>> \o piece) = 1 + m
        /\ \A k \in 1..(1 + m) : (<<hang>> \o piece)[k] = IF k <= 1 THEN <<hang>>[k]
                                                          ELSE piece[k - 1]
    BY <2>1, <1>4, ConcatProperties
  <2>3. /\ 1 \in 1..(1 + m) /\ 1 + m = n
        /\ \A k \in 1..m : k + 1 \in 1..(1 + m) /\ ~(k + 1 <= 1) /\ (k + 1) - 1 = k
    BY <1>3
  <2>4. /\ (<<hang>> \o piece)[1] = hang
        /\ \A k \in 1..m : (<<hang>> \o piece)[k + 1] = data[k]
    BY <2>1, <2>2, <2>3, <1>4
  <2>5. DOMAIN (<<hang>> \o piece) = 1..n
    BY <2>2, <2>3, LenProperties
  <2> QED BY <2>2, <2>3, <2>4, <2>5 DEF piece
<1> HIDE DEF up, piece
<1>6. CASE n = 1 /\ hang # 0
  <2>1. r = Carry(data, 0, hang)
    BY <1>1, <1>6 DEF SwapBytes
  <2>2. r.out = data /\ r.hang = 0 /\ r.left = hang
    BY <2>1 DEF Carry
  <2> QED BY <2>2, <1>6
<1>7. CASE n = 1 /\ hang = 0
  <2>1. r = Carry(<<>>, data[1], 0)
    BY <1>1, <1>7 DEF SwapBytes
  <2>2. r.out = <<>> /\ r.hang = data[1] /\ r.left = 0 /\ data[1] \in S /\ data[1] # 0
    BY <2>1, <1>2, <1>7 DEF Carry
  <2>3. Elements(r.out) = {} /\ Elements(data) = {data[1]} /\ Len(r.out) = 0
    BY <2>2, <1>2, <1>7 DEF Elements
  <2> QED BY <2>2, <2>3, <1>1, <1>7
<1>8. CASE n > 1 /\ hang # 0 /\ n % 2 = 0
  <2> DEFINE u == [up EXCEPT ![n] = data[n]]
  <2>1. r = Carry(SwapPairs(u, n - 2), 0, up[n])
    BY <1>1, <1>8 DEF SwapBytes, up
  <2>2. /\ u \in Seq(S) /\ Len(u) = n /\ DOMAIN u = 1..n
        /\ \A k \in 1..n : u[k] = IF k = n THEN data[n] ELSE up[k]
    <3>1. n \in 1..n /\ data[n] \in S
      BY <1>2, <1>8
    <3>2. up \in [1..n -> S]
      BY <1>5, <1>8
    <3>3. u \in [1..n -> S] /\ \A k \in 1..n : u[k] = IF k = n THEN data[n] ELSE up[k]
      BY <3>1, <3>2
    <3> HIDE DEF u
    <3> QED BY <3>3, FunctionIsSeq
  <2> HIDE DEF u
  <2>3. n - 2 \in Nat /\ n - 2 <= Len(u)
    BY <1>8, <2>2
  <2>4. /\ SwapPairs(u, n - 2) \in Seq(S) /\ Len(SwapPairs(u, n - 2)) = n
        /\ Elements(SwapPairs(u, n - 2)) = Elements(u)
    BY <2>2, <2>3, SwapPairsFacts
  <2>5. r.out = SwapPairs(u, n - 2) /\ r.hang = 0 /\ r.left = up[n]
    BY <2>1 DEF Carry
  <2>6. m \in 1..m /\ up[n] = data[m] /\ data[m] \in S /\ data[m] # 0
    BY <1>8, <1>2, <1>3, <1>5
  <2>7. Elements(u) \cup {up[n]} = Elements(data) \cup {hang}
    <3>1. ASSUME NEW x \in Elements(u) PROVE x \in Elements(data) \cup {hang}
      <4>1. PICK k \in 1..n : x = u[k]
        BY <2>2 DEF Elements
      <4>2. CASE k = n
        BY <4>1, <4>2, <2>2, <1>2 DEF Elements
      <4>3. CASE k # n /\ k # 1
        <5>1. PICK j \in 1..m : k = j + 1
          <6>1. k - 1 \in 1..m /\ k = (k - 1) + 1
            BY <4>3, <1>3
          <6> QED BY <6>1
        <5>2. j \in 1..n
          BY <1>3
        <5> QED BY <4>1, <4>3, <5>1, <5>2, <2>2, <1>2, <1>5, <1>8 DEF Elements
      <4>4. CASE k # n /\ k = 1
        BY <4>1, <4>4, <2>2, <1>5, <1>8
      <4> QED BY <4>2, <4>3, <4>4
    <3>2. ASSUME NEW x \in Elements(data) PROVE x \in Elements(u) \cup {up[n]}
      <4>1. PICK k \in 1..n : x = data[k]
        BY <1>2 DEF Elements
      <4>2. CASE k = n
        BY <4>1, <4>2, <2>2 DEF Elements
      <4>3. CASE k = m
        BY <4>1, <4>3, <2>6
      <4>4. CASE k # n /\ k # m
        <5>1. k \in 1..m /\ k + 1 \in 1..n /\ k + 1 # n
          BY <4>4, <1>3
        <5>2. u[k + 1] = data[k]
          BY <5>1, <2>2, <1>5, <1>8
        <5> QED BY <4>1, <5>1, <5>2, <2>2 DEF Elements
      <4> QED BY <4>2, <4>3, <4>4
    <3>3. hang \in Elements(u)
      <4>1. 1 \in 1..n /\ 1 # n
        BY <1>8
      <4>2. u[1] = hang
        BY <4>1, <2>2, <1>5, <1>8
      <4> QED BY <4>1, <4>2, <2>2 DEF Elements
    <3>4. up[n] \in Elements(data)
      <4>1. m \in 1..n
        BY <2>6, <1>3
      <4> QED BY <4>1, <2>6, <1>2 DEF Elements
    <3> QED BY <3>1, <3>2, <3>3, <3>4
  <2>8. {r.hang, r.left} \ {0} = {up[n]} /\ {hang} \ {0} = {hang}
    BY <2>5, <2>6, <1>8
  <2> QED BY <2>4, <2>5, <2>6, <2>7, <2>8, <1>1, <1>8
<1>9. CASE n > 1 /\ hang # 0 /\ n % 2 # 0
  <2>1. r = Carry(SwapPairs(up, n - 1), data[n], 0)
    BY <1>1, <1>9 DEF SwapBytes, up
  <2>2. /\ SwapPairs(up, n - 1) \in Seq(S) /\ Len(SwapPairs(up, n - 1)) = n
        /\ Elements(SwapPairs(up, n - 1)) = Elements(up)
    <3>1. n - 1 \in Nat /\ n - 1 <= Len(up)
      BY <1>5, <1>9
    <3> QED BY <3>1, <1>5, <1>9, SwapPairsFacts
  <2>3. r.out = SwapPairs(up, n - 1) /\ r.hang = data[n] /\ r.left = 0
    BY <2>1 DEF Carry
  <2>4. n \in 1..n /\ data[n] \in S /\ data[n] # 0
    BY <1>2, <1>9
  <2>5. Elements(up) \cup {data[n]} = Elements(data) \cup {hang}
    <3>1. ASSUME NEW x \in Elements(up) PROVE x \in Elements(data) \cup {hang}
      <4>1. PICK k \in 1..n : x = up[k]
        BY <1>5, <1>9 DEF Elements
      <4>2. CASE k = 1
        BY <4>1, <4>2, <1>5, <1>9
      <4>3. CASE k # 1
        <5>1. PICK j \in 1..m : k = j + 1 /\ j \in 1..n
          <6>1. k - 1 \in 1..m /\ k = (k - 1) + 1 /\ k - 1 \in 1..n
            BY <4>3, <1>3
          <6> QED BY <6>1
        <5> QED BY <4>1, <5>1, <1>2, <1>5, <1>9 DEF Elements
      <4> QED BY <4>2, <4>3
    <3>2. ASSUME NEW x \in Elements(data) PROVE x \in Elements(up) \cup {data[n]}
      <4>1. PICK k \in 1..n : x = data[k]
        BY <1>2 DEF Elements
      <4>2. CASE k = n
        BY <4>1, <4>2
      <4>3. CASE k # n
        <5>1. k \in 1..m /\ k + 1 \in 1..n
          BY <4>3, <1>3
        <5> QED BY <4>1, <5>1, <1>5, <1>9 DEF Elements
      <4> QED BY <4>2, <4>3
    <3>3. hang \in Elements(up) /\ data[n] \in Elements(data)
      <4>1. 1 \in 1..n
        BY <1>9
      <4> QED BY <4>1, <2>4, <1>2, <1>5, <1>9 DEF Elements
    <3> QED BY <3>1, <3>2, <3>3
  <2>6. {r.hang, r.left} \ {0} = {data[n]} /\ {hang} \ {0} = {hang}
    BY <2>3, <2>4, <1>9
  <2> QED BY <2>2, <2>3, <2>4, <2>5, <2>6, <1>1, <1>9
<1>10. CASE n > 1 /\ hang = 0 /\ n % 2 = 0
  <2>1. r = Carry(SwapPairs(data, n), 0, 0)
    BY <1>1, <1>10 DEF SwapBytes
  <2>2. /\ SwapPairs(data, n) \in Seq(S) /\ Len(SwapPairs(data, n)) = n
        /\ Elements(SwapPairs(data, n)) = Elements(data)
    <3>1. n <= Len(data)
      BY <1>1
    <3>2. /\ SwapPairs(data, n) \in Seq(S) /\ Len(SwapPairs(data, n)) = Len(data)
          /\ Elements(SwapPairs(data, n)) = Elements(data)
      BY <3>1, SwapPairsFacts
    <3> QED BY <3>2, <1>1
  <2>3. r.out = SwapPairs(data, n) /\ r.hang = 0 /\ r.left = 0
    BY <2>1 DEF Carry
  <2> QED BY <2>2, <2>3, <1>1, <1>10
<1>11. CASE n > 1 /\ hang = 0 /\ n % 2 # 0
  <2>1. r = Carry(SwapPairs(piece, n - 1), data[n], 0)
    BY <1>1, <1>11 DEF SwapBytes, piece
  <2>2. /\ SwapPairs(piece, n - 1) \in Seq(S) /\ Len(SwapPairs(piece, n - 1)) = m
        /\ Elements(SwapPairs(piece, n - 1)) = Elements(piece)
    <3>1. piece \in Seq(S) /\ m <= Len(piece)
      BY <1>3, <1>4
    <3>2. /\ SwapPairs(piece, m) \in Seq(S) /\ Len(SwapPairs(piece, m)) = Len(piece)
          /\ Elements(SwapPairs(piece, m)) = Elements(piece)
      BY <3>1, SwapPairsFacts
    <3> QED BY <3>2, <1>3, <1>4
  <2>3. r.out = SwapPairs(piece, n - 1) /\ r.hang = data[n] /\ r.left = 0
    BY <2>1 DEF Carry
  <2>4. n \in 1..n /\ data[n] \in S /\ data[n] # 0
    BY <1>2, <1>11
  <2>5. Elements(piece) \cup {data[n]} = Elements(data)
    <3>1. \A k \in 1..n : k = n \/ k \in 1..m
      BY <1>3
    <3>2. \A k \in 1..m : k \in 1..n
      BY <1>3
    <3> QED BY <3>1, <3>2, <2>4, <1>2, <1>4 DEF Elements
  <2>6. {r.hang, r.left} \ {0} = {data[n]} /\ {hang} \ {0} = {}
    BY <2>3, <2>4, <1>11
  <2> QED BY <2>2, <2>3, <2>4, <2>5, <2>6, <1>1, <1>3, <1>11
<1>12. n = 1 \/ (n > 1 /\ (n % 2 = 0 \/ n % 2 # 0))
  BY <1>1
<1> QED BY <1>6, <1>7, <1>8, <1>9, <1>10, <1>11, <1>12

\* Bytes of the image, up to the end of their record, returned or carried over.
LEMMA ReadDataStep ==
  ASSUME IInv, ReadData
  PROVE  IInv'
<1>i. TypeOK /\ Stream /\ Client /\ NothingLost /\ EofIsComplete /\ intact
  BY DEF IInv
<1> DEFINE n    == Least(Least(MaxLength, bytes_remaining), Len(wire))
           data == [k \in 1..n |-> got + k]
           to   == IF Swapping THEN SwapBytes(hang_over, data) ELSE Carry(data, 0, 0)
<1>a. /\ cli = "free" /\ cli_data /\ wire # <<>> /\ left_over = 0 /\ bytes_remaining > 0
      /\ wire' = SubSeq(wire, n + 1, Len(wire))
      /\ intact' = (intact /\ \A k \in 1..n : wire[k] = ImageByte(got + k, bytes_remaining - k))
      /\ got' = got + n /\ bytes_remaining' = bytes_remaining - n
      /\ out' = out \o to.out /\ hang_over' = to.hang /\ left_over' = to.left
      /\ UNCHANGED <<rpc_ready, docancel, scanning, srv_data, request, reply, cli, cli_data,
                     reclen_buf, result>>
      /\ UNCHANGED <<pc, ring, device>>
  BY DEF ReadData, CanRead, Rest, control
<1>s. /\ UNCHANGED <<pc, buf, reader, writer, bytes_in_buf, status_dirty, status>>
      /\ UNCHANGED <<be_fd, timeout, produced, be_closed>>
      /\ Indices' /\ EndOfImage'
  BY <1>a, SanedKept
<1>c. /\ Len(wire) \in Nat \ {0} /\ bytes_remaining \in Nat \ {0} /\ MaxLength \in Nat \ {0}
      /\ got \in Nat /\ reclen_buf = <<>> /\ bytes_remaining <= BufferSize /\ BufferSize \in Nat
      /\ ImageLen \in Nat /\ 0 \in Lengths
  <2>1. Len(wire) \in Nat \ {0}
    BY <1>i, <1>a, PendingFacts
  <2>2. bytes_remaining \in 0..BufferSize /\ got \in 0..ImageLen
    BY <1>i DEF TypeOK
  <2>3. reclen_buf = <<>>
    BY <1>i, <1>a DEF Client
  <2> QED BY <2>1, <2>2, <2>3, <1>a, Constants DEF Lengths
<1>n. n \in Nat /\ n \in 1..Len(wire) /\ n <= bytes_remaining
  BY <1>c DEF Least
<1>d. /\ data \in [1..n -> Nat] /\ \A k \in 1..n : data[k] = got + k
  BY <1>c
<1> HIDE DEF n, data
<1>1. \A k \in 1..n : wire[k] = ImageByte(got + k, bytes_remaining - k) /\ wire[k] \in Token
  <2> DEFINE s == [k \in 0..n |-> Pending(k)]
  <2>1. s[0] = ImageByte(got, bytes_remaining)
    <3>1. Taken = ImageByte(got, bytes_remaining)
      BY <1>a, <1>c DEF Taken
    <3> QED BY <3>1, <1>i, <1>n, PendingFacts
  <2>2. \A k \in 0..(n - 1) : Follows(s[k], s[k + 1])
    <3>1. \A k \in 0..(n - 1) : k \in 0..(Count - 1) /\ k \in 0..n /\ k + 1 \in 0..n
      BY <1>i, <1>n, <1>c, PendingFacts
    <3> QED BY <3>1, <1>i, <1>a DEF Stream
  <2>3. \A k \in 1..n : s[k] = wire[k] /\ k \in 0..n /\ wire[k] \in Token
    <3>1. \A k \in 1..n : k \in 1..Len(wire) /\ k \in 0..n
      BY <1>n, <1>c
    <3> QED BY <3>1, <1>i, PendingFacts
  <2> HIDE DEF s
  <2>4. \A k \in 0..n : s[k] = ImageByte(got + k, bytes_remaining - k)
    <3>1. got \in Nat /\ bytes_remaining \in Nat
      BY <1>c
    <3> QED BY <2>1, <2>2, <3>1, <1>n, ImageRun
  <2> QED BY <2>3, <2>4
<1>2. intact' /\ got + n \in 1..ImageLen /\ wire[n] = ImageByte(got', bytes_remaining')
  <2>1. n \in 1..n
    BY <1>n
  <2> QED BY <2>1, <1>1, <1>a, <1>i, TokenFacts
<1>3. wire' \in Seq(Token) /\ Len(wire') <= SocketBuf /\ Stream'
  <2>1. Taken' = wire[n]
    BY <1>2, <1>a, <1>c DEF Taken
  <2> QED BY <2>1, <1>a, <1>n, StreamTaken
<1> DEFINE S == 1..ImageLen
<1>4. data \in Seq(S) /\ Len(data) = n /\ Elements(data) = (got + 1)..(got + n)
  <2>1. \A k \in 1..n : got + k \in S
    BY <1>2, <1>n, <1>c
  <2>2. data \in [1..n -> S]
    BY <2>1, <1>d
  <2>3. data \in Seq(S) /\ Len(data) = n
    BY <2>2, <1>n, FunctionIsSeq
  <2>4. ASSUME NEW x \in (got + 1)..(got + n) PROVE x \in Elements(data)
    <3>1. x - got \in 1..n /\ got + (x - got) = x
      BY <1>c, <1>n
    <3>2. data[x - got] = x
      BY <3>1, <1>d
    <3> QED BY <3>1, <3>2, <2>2 DEF Elements
  <2>5. ASSUME NEW x \in Elements(data) PROVE x \in (got + 1)..(got + n)
    <3>1. PICK k \in 1..n : x = data[k]
      BY <2>2 DEF Elements
    <3> QED BY <3>1, <1>d, <1>c, <1>n
  <2> QED BY <2>3, <2>4, <2>5
<1>5. /\ to.out \in Seq(S) /\ to.hang \in S \cup {0} /\ to.left \in S \cup {0}
      /\ to.hang = 0 \/ to.left = 0
      /\ Len(to.out) + (IF to.hang = 0 /\ to.left = 0 THEN 0 ELSE 1)
           = n + (IF hang_over = 0 THEN 0 ELSE 1)
      /\ Elements(to.out) \cup ({to.hang, to.left} \ {0})
           = Elements(data) \cup ({hang_over} \ {0})
      /\ ~Swapping => to.hang = 0 /\ to.left = 0
  <2>1. CASE Swapping
    <3>1. /\ 0 \notin S /\ hang_over \in S \cup {0} /\ Len(data) # 0
          /\ to = SwapBytes(hang_over, data)
      BY <2>1, <1>4, <1>n, <1>c, <1>i DEF TypeOK
    <3> HIDE DEF to, S
    <3>2. data \in Seq(S) /\ Len(data) = n
      BY <1>4
    <3>3. /\ to.out \in Seq(S) /\ to.hang \in S \cup {0} /\ to.left \in S \cup {0}
          /\ to.hang = 0 \/ to.left = 0
          /\ Len(to.out) + (IF to.hang = 0 /\ to.left = 0 THEN 0 ELSE 1)
               = Len(data) + (IF hang_over = 0 THEN 0 ELSE 1)
          /\ Elements(to.out) \cup ({to.hang, to.left} \ {0})
               = Elements(data) \cup ({hang_over} \ {0})
      <4>1. 0 \notin S /\ data \in Seq(S) /\ Len(data) # 0 /\ hang_over \in S \cup {0}
        BY <3>1, <3>2
      <4>2. to = SwapBytes(hang_over, data)
        BY <3>1
      <4>3. \A r : r = SwapBytes(hang_over, data) =>
              /\ r.out \in Seq(S) /\ r.hang \in S \cup {0} /\ r.left \in S \cup {0}
              /\ r.hang = 0 \/ r.left = 0
              /\ Len(r.out) + (IF r.hang = 0 /\ r.left = 0 THEN 0 ELSE 1)
                   = Len(data) + (IF hang_over = 0 THEN 0 ELSE 1)
              /\ Elements(r.out) \cup ({r.hang, r.left} \ {0})
                   = Elements(data) \cup ({hang_over} \ {0})
        BY <4>1, SwapBytesFacts
      <4> QED BY <4>2, <4>3
    <3> QED BY <2>1, <3>2, <3>3
  <2>2. CASE ~Swapping
    <3>1. to.out = data /\ to.hang = 0 /\ to.left = 0
      BY <2>2 DEF Carry
    <3>2. hang_over = 0
      BY <2>2, <1>i DEF NothingLost
    <3> HIDE DEF to
    <3> QED BY <3>1, <3>2, <1>4
  <2> QED BY <2>1, <2>2
<1> HIDE DEF to
<1>6. /\ out' \in Seq(S) /\ Len(out') = Len(out) + Len(to.out)
      /\ Len(out) \in Nat /\ Len(to.out) \in Nat
      /\ Elements(out') = Elements(out) \cup Elements(to.out)
  <2>1. out \in Seq(S)
    BY <1>i DEF TypeOK
  <2>2. /\ out \o to.out \in Seq(S) /\ Len(out \o to.out) = Len(out) + Len(to.out)
        /\ \A k \in 1..(Len(out) + Len(to.out)) :
             (out \o to.out)[k] = IF k <= Len(out) THEN out[k] ELSE to.out[k - Len(out)]
    BY <2>1, <1>5, ConcatProperties
  <2> DEFINE s == out \o to.out
             t == to.out
  <2>3. t \in Seq(S) /\ s \in Seq(S)
    BY <2>2, <1>5
  <2> HIDE DEF S, s, t
  <2>4. PICK l \in Nat, i \in Nat : /\ l = Len(out) /\ i = Len(t) /\ Len(s) = l + i
                                    /\ DOMAIN out = 1..l /\ DOMAIN t = 1..i
                                    /\ DOMAIN s = 1..(l + i)
    BY <2>1, <2>2, <2>3, LenProperties DEF s, t
  <2>5. \A k \in 1..(l + i) : s[k] = IF k <= l THEN out[k] ELSE t[k - l]
    BY <2>2, <2>4 DEF s, t
  <2>6. ASSUME NEW x \in Elements(s) PROVE x \in Elements(out) \cup Elements(t)
    <3>1. PICK k \in 1..(l + i) : x = s[k]
      BY <2>4 DEF Elements
    <3>2. CASE k <= l
      <4>1. k \in 1..l
        BY <3>2
      <4> QED BY <4>1, <3>1, <3>2, <2>4, <2>5 DEF Elements
    <3>3. CASE ~(k <= l)
      <4>1. k - l \in 1..i
        BY <3>3
      <4> QED BY <4>1, <3>1, <3>3, <2>4, <2>5 DEF Elements
    <3> QED BY <3>2, <3>3
  <2>7. ASSUME NEW x \in Elements(out) PROVE x \in Elements(s)
    <3>1. PICK k \in 1..l : x = out[k]
      BY <2>4 DEF Elements
    <3>2. k \in 1..(l + i) /\ k <= l
      OBVIOUS
    <3> QED BY <3>1, <3>2, <2>4, <2>5 DEF Elements
  <2>8. ASSUME NEW x \in Elements(t) PROVE x \in Elements(s)
    <3>1. PICK k \in 1..i : x = t[k]
      BY <2>4 DEF Elements
    <3>2. l + k \in 1..(l + i) /\ ~(l + k <= l) /\ (l + k) - l = k
      OBVIOUS
    <3>3. s[l + k] = x
      BY <3>1, <3>2, <2>5
    <3> QED BY <3>2, <3>3, <2>4 DEF Elements
  <2>9. Elements(s) = Elements(out) \cup Elements(t)
    BY <2>6, <2>7, <2>8
  <2> QED BY <2>3, <2>4, <2>9, <1>a DEF s, t
<1>7. TypeOK'
  <2>1. {hang_over', left_over'} \subseteq 0..ImageLen
    BY <1>5, <1>a, <1>c
  <2>2. got' \in 0..ImageLen /\ bytes_remaining' \in 0..BufferSize
    BY <1>2, <1>a, <1>c, <1>n
  <2> QED BY <2>1, <2>2, <1>2, <1>3, <1>6, <1>i, <1>a, <1>s DEF TypeOK
<1>8. Client'
  <2>1. \A k \in 1..Len(reclen_buf') : reclen_buf'[k] = LenByte(0, k, got')
    BY <1>a, <1>c
  <2>2. hang_over' = 0 \/ left_over' = 0
    BY <1>5, <1>a
  <2>3. reclen_buf' = <<>> /\ cli' = "free" /\ cli_data' /\ result' = "good"
    BY <1>a, <1>c, <1>i DEF Client
  <2> QED BY <2>1, <2>2, <2>3, <1>c DEF Client
<1>9. EofIsComplete'
  BY <1>i, <1>a DEF EofIsComplete, Client
<1>10. NothingLost'
  <2>1. /\ Elements(out) \cup ({hang_over} \ {0}) = 1..got
        /\ Len(out) + (IF hang_over = 0 THEN 0 ELSE 1) = got
    <3>1. {hang_over, left_over} \ {0} = {hang_over} \ {0}
      BY <1>a
    <3>2. Cardinality({hang_over, left_over} \ {0}) = IF hang_over = 0 THEN 0 ELSE 1
      BY <1>a, CarriedCount
    <3> QED BY <3>1, <3>2, <1>i DEF NothingLost, Elements
  <2>2. {hang_over', left_over'} = {to.hang, to.left}
    BY <1>a
  <2>3. Cardinality({to.hang, to.left} \ {0}) = IF to.hang = 0 /\ to.left = 0 THEN 0 ELSE 1
    BY <1>5, CarriedCount
  <2>4. Elements(out') \cup ({to.hang, to.left} \ {0}) = 1..got'
    <3>1. Elements(out') \cup ({to.hang, to.left} \ {0})
            = (1..got) \cup ((got + 1)..(got + n))
      BY <2>1, <1>4, <1>5, <1>6
    <3>2. (1..got) \cup ((got + 1)..(got + n)) = 1..(got + n)
      BY <1>c, <1>n
    <3> QED BY <3>1, <3>2, <1>a
  <2>5. Len(out') + Cardinality({to.hang, to.left} \ {0}) = got'
    <3>1. PICK c \in {0, 1} : /\ c = IF to.hang = 0 /\ to.left = 0 THEN 0 ELSE 1
                              /\ c = Cardinality({to.hang, to.left} \ {0})
      BY <2>3
    <3>2. PICK d \in {0, 1} : d = IF hang_over = 0 THEN 0 ELSE 1
      OBVIOUS
    <3>3. Len(to.out) + c = n + d
      BY <3>1, <3>2, <1>5
    <3>4. Len(out) + d = got
      BY <3>2, <2>1
    <3>5. Len(out') = Len(out) + Len(to.out) /\ got' = got + n
      BY <1>6, <1>a
    <3>6. (Len(out) + Len(to.out)) + c = got + n
      <4>1. PICK x \in Nat, y \in Nat : x = Len(out) /\ y = Len(to.out)
        BY <1>6
      <4>2. y + c = n + d /\ x + d = got /\ n \in Nat /\ got \in Nat /\ c \in Nat /\ d \in Nat
        BY <4>1, <3>3, <3>4, <1>n, <1>c
      <4>3. (x + y) + c = got + n
        BY <4>2
      <4> QED BY <4>1, <4>3
    <3> QED BY <3>1, <3>5, <3>6
  <2>6. ~Swapping => {to.hang, to.left} \ {0} = {}
    BY <1>5
  <2> QED BY <2>2, <2>4, <2>5, <2>6 DEF NothingLost, Elements
<1> QED BY <1>2, <1>3, <1>7, <1>8, <1>9, <1>10, <1>s DEF IInv

-----------------------------------------------------------------------------
\* Nothing moves: saned has left do_scan for good.
LEMMA StutterStep ==
  ASSUME IInv, UNCHANGED vars
  PROVE  IInv'
<1>i. TypeOK /\ Indices /\ EndOfImage
  BY DEF IInv
<1>a. /\ UNCHANGED client /\ UNCHANGED wire
      /\ UNCHANGED <<pc, ring, device>>
      /\ UNCHANGED <<rpc_ready, docancel, scanning, srv_data, request, reply>>
  BY DEF vars, control
<1>s. /\ UNCHANGED <<pc, buf, reader, writer, bytes_in_buf, status_dirty, status>>
      /\ UNCHANGED <<be_fd, timeout, produced, be_closed>>
      /\ UNCHANGED <<InUse, Stored, Open>>
      /\ Indices' /\ EndOfImage'
  BY <1>a, SanedKept
<1>b. UNCHANGED <<cli, cli_data, reclen_buf, bytes_remaining, got, result, intact, hang_over,
                  left_over, out>>
  BY <1>a, ClientKept
<1>1. TypeOK'
  BY <1>i, <1>a, <1>b, <1>s DEF TypeOK
<1> QED BY <1>1, <1>a, <1>s, QuietStep

LEMMA StepIInv == IInv /\ [Next]_vars => IInv'
<1> SUFFICES ASSUME IInv, [Next]_vars PROVE IInv'
  OBVIOUS
<1>1. CASE Start
  BY <1>1, StartStep
<1>2. CASE SelectFails
  BY <1>2, SelectFailsStep
<1>3. CASE WriteClient
  BY <1>3, WriteClientStep
<1>4. CASE WriteNobody
  BY <1>4, WriteNobodyStep
<1>5. CASE ReadImage(0)
  <2>1. 0 \in Nat
    OBVIOUS
  <2> QED BY <1>5, <2>1, ReadImageStep
<1>6. ASSUME NEW n \in 1..ImageLen, ReadImage(n) PROVE IInv'
  <2>1. n \in Nat
    OBVIOUS
  <2> QED BY <1>6, <2>1, ReadImageStep
<1>7. ASSUME NEW s \in EndStatus, ReadEnd(s) PROVE IInv'
  BY <1>7, ReadEndStep
<1>8. CASE MoveNothing
  BY <1>8, MoveNothingStep
<1>9. CASE StoreStatus
  BY <1>9, StoreStatusStep
<1>10. CASE ProcessRequest
  BY <1>10, ProcessRequestStep
<1>11. CASE Finish \/ ProcessLater
  BY <1>11, LaterSteps
<1>12. CASE ReadLength
  BY <1>12, ReadLengthStep
<1>13. CASE ReadLeftOver
  BY <1>13, ReadLeftOverStep
<1>14. CASE ReadData
  BY <1>14, ReadDataStep
<1>15. CASE ReadStatus
  BY <1>15, ReadStatusStep
<1>16. CASE CallReturns
  BY <1>16, CallReturnsStep
<1>17. CASE ClientDie
  BY <1>17, ClientDieStep
<1>18. ASSUME NEW what \in {"cancel", "call"}, Call(what) PROVE IInv'
  BY <1>18, CallStep
<1>19. CASE UNCHANGED vars
  BY <1>19, StutterStep
<1>20. CASE SelectBreaks
  BY <1>20, SelectBreaksStep
<1> QED BY <1>1, <1>2, <1>3, <1>4, <1>5, <1>6, <1>7, <1>8, <1>9, <1>10, <1>11, <1>12, <1>13,
           <1>14, <1>15, <1>16, <1>17, <1>18, <1>19, <1>20
        DEF Next, Saned, Scanner, ClientReads, Ended

-----------------------------------------------------------------------------
\* What do_scan has in the ring and on the connection, and what sane_read has taken
\* so far, is one stream of records all along, however write(), read() and the end
\* of the ring cut it.
THEOREM Invariance == Spec => []IInv
<1>1. Init => IInv
  BY InitIInv
<1>2. IInv /\ [Next]_vars => IInv'
  BY StepIInv
<1> QED BY <1>1, <1>2, PTL DEF Spec

\* reader and writer stay in the ring, and what sane_read keeps between two calls
\* is never more than a part of one record.
THEOREM TypeCorrect == Spec => []TypeOK
<1>1. IInv => TypeOK
  BY DEF IInv
<1> QED BY <1>1, Invariance, PTL

\* net.c takes a length for a length, an image byte for an image byte, and the
\* status for the status, and each at its place in the image.
THEOREM StreamArrives == Spec => []StreamIntact
<1>1. IInv => StreamIntact
  BY DEF IInv, StreamIntact
<1> QED BY <1>1, Invariance, PTL

\* The byte swapping of sane_read, with its hang_over and left_over, returns every
\* byte it took exactly once or still has it.
THEOREM BytesKept == Spec => []NothingLost
<1>1. IInv => NothingLost
  BY DEF IInv
<1> QED BY <1>1, Invariance, PTL

\* do_scan sends SANE_STATUS_EOF behind all of the image, also when it learns of the
\* end from a descriptor the backend closed, and when the status has to wait for
\* room in the ring.
THEOREM EofIsTrue == Spec => []EofIsComplete
<1>1. IInv => EofIsComplete
  BY DEF IInv
<1> QED BY <1>1, Invariance, PTL
=============================================================================
