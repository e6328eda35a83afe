-------------------------- MODULE Gt68xxRead_proofs --------------------------
(***************************************************************************)
(* Proofs about Gt68xxRead for every size of image, buffer, transfer and   *)
(* call: the inductive invariant IInv and the safety properties it         *)
(* implies.  What concerns the channel alone is taken from the proofs of   *)
(* ShmChannel.                                                             *)
(***************************************************************************)
EXTENDS Gt68xxRead, SequenceTheorems, TLAPS

Proved == INSTANCE ShmChannel_proofs WITH
            Data <- Positions, NoData <- NoPosition, PipeCapacity <- BufCount

-----------------------------------------------------------------------------
\* What the constants give.

\* The largest expected_count and the largest size asked for exist.
LEMMA Largest ==
  /\ MaxOf(Expected) \in Nat \ {0} /\ \A n \in Expected : n <= MaxOf(Expected)
  /\ MaxOf(Requests) \in Nat \ {0} /\ \A n \in Requests : n <= MaxOf(Requests)
<1>1. MaxOf(Expected) \in Expected /\ \A n \in Expected : n <= MaxOf(Expected)
  BY Gt68xxAssumption DEF MaxOf
<1>2. MaxOf(Requests) \in Requests /\ \A n \in Requests : n <= MaxOf(Requests)
  BY Gt68xxAssumption DEF MaxOf
<1> QED BY <1>1, <1>2, Gt68xxAssumption

\* Multiplication keeps the order of numbers.
LEMMA Multiples ==
  ASSUME NEW k \in Nat, NEW a \in Nat, NEW b \in Nat
  PROVE  /\ a * k \in Nat
         /\ a <= b => a * k <= b * k
         /\ (a + 1) * k = a * k + k
OBVIOUS

LEMMA Division ==
  ASSUME NEW n \in Nat
  PROVE  /\ n \div Pad \in Nat
         /\ (n \div Pad) * Pad <= n /\ n < (n \div Pad) * Pad + Pad
BY Gt68xxAssumption

LEMMA Wraps ==
  ASSUME NEW n \in Int
  PROVE  /\ n \in 0..(SizeMod - 1) => n % SizeMod = n
         /\ n \in (-SizeMod)..(-1) => n % SizeMod = n + SizeMod
BY Gt68xxAssumption

\* A number of transfers and less than one more is that number when divided.
LEMMA Quotient ==
  ASSUME NEW q \in Nat, NEW r \in 0..(Pad - 1)
  PROVE  (q * Pad + r) \div Pad = q
<1>1. Pad \in Nat \ {0} /\ q * Pad \in Nat
  BY Gt68xxAssumption, Multiples
<1> DEFINE p == (q * Pad + r) \div Pad
<1>2. p \in Nat /\ p * Pad <= q * Pad + r /\ q * Pad + r < p * Pad + Pad
  BY <1>1, Division
<1> HIDE DEF p
<1>3. ~(p < q)
  <2>1. p < q => (p + 1) * Pad <= q * Pad
    BY <1>1, <1>2, Multiples
  <2> QED BY <2>1, <1>1, <1>2, Multiples
<1>4. ~(q < p)
  <2>1. q < p => (q + 1) * Pad <= p * Pad
    BY <1>1, <1>2, Multiples
  <2> QED BY <2>1, <1>1, <1>2, Multiples
<1> QED BY <1>2, <1>3, <1>4 DEF p

\* USB transfers are whole multiples of Pad: rounding up gives the least that
\* holds what is asked for.
LEMMA Rounding ==
  ASSUME NEW n \in Nat
  PROVE  /\ RoundUp(n) \in Nat /\ n <= RoundUp(n)
         /\ \A m \in Nat : m <= n => RoundUp(m) <= RoundUp(n)
         /\ RoundUp(RoundUp(n)) = RoundUp(n)
<1>1. Pad \in Nat \ {0}
  BY Gt68xxAssumption
<1> DEFINE Q(m) == (m + Pad - 1) \div Pad
<1>2. ASSUME NEW m \in Nat
      PROVE  /\ Q(m) \in Nat /\ RoundUp(m) = Q(m) * Pad /\ Q(m) * Pad \in Nat
             /\ Q(m) * Pad <= m + Pad - 1 /\ m + Pad - 1 < Q(m) * Pad + Pad
  <2>1. m + Pad - 1 \in Nat
    BY <1>1
  <2> QED BY <2>1, <1>1, Division, Multiples DEF RoundUp
<1> HIDE DEF Q
<1>3. ASSUME NEW m \in Nat, m <= n
      PROVE  RoundUp(m) <= RoundUp(n)
  <2> DEFINE a == Q(m)
             b == Q(n)
  <2>1. /\ a \in Nat /\ RoundUp(m) = a * Pad /\ a * Pad \in Nat
        /\ a * Pad <= m + Pad - 1 /\ m + Pad - 1 < a * Pad + Pad
    BY <1>2
  <2>2. /\ b \in Nat /\ RoundUp(n) = b * Pad /\ b * Pad \in Nat
        /\ b * Pad <= n + Pad - 1 /\ n + Pad - 1 < b * Pad + Pad
    BY <1>2
  <2> HIDE DEF a, b
  <2>3. ~(b < a)
    <3>1. b < a => (b + 1) * Pad <= a * Pad
      BY <1>1, <2>1, <2>2, Multiples
    <3> QED BY <3>1, <1>1, <1>3, <2>1, <2>2, Multiples
  <2>4. a <= b
    BY <2>1, <2>2, <2>3
  <2> QED BY <2>1, <2>2, <2>4, <1>1, Multiples
<1>4. RoundUp(RoundUp(n)) = RoundUp(n)
  <2> DEFINE b == Q(n)
  <2>1. b \in Nat /\ RoundUp(n) = b * Pad /\ b * Pad \in Nat /\ Pad - 1 \in 0..(Pad - 1)
    BY <1>1, <1>2
  <2> HIDE DEF b
  <2>2. RoundUp(n) + Pad - 1 = b * Pad + (Pad - 1)
    BY <1>1, <2>1
  <2>3. (b * Pad + (Pad - 1)) \div Pad = b
    BY <2>1, Quotient
  <2>4. RoundUp(RoundUp(n)) = ((RoundUp(n) + Pad - 1) \div Pad) * Pad
    BY DEF RoundUp
  <2> QED BY <2>1, <2>2, <2>3, <2>4
<1> QED BY <1>1, <1>2, <1>3, <1>4

\* A buffer of the device is a whole number of transfers.
LEMMA WholeBuffer == BufSize \in Nat \ {0} /\ RoundUp(BufSize) = BufSize
<1>1. Pad \in Nat \ {0} /\ BufSize \in Nat \ {0} /\ BufSize % Pad = 0
  BY Gt68xxAssumption
<1> DEFINE q == BufSize \div Pad
<1>2. q \in Nat /\ BufSize = q * Pad
  BY <1>1, Division
<1> HIDE DEF q
<1>3. BufSize + Pad - 1 = q * Pad + (Pad - 1)
  BY <1>1, <1>2
<1>4. (q * Pad + (Pad - 1)) \div Pad = q
  BY <1>1, <1>2, Quotient
<1> QED BY <1>1, <1>2, <1>3, <1>4 DEF RoundUp

\* Positions are numbers, and the channel's assumptions hold of them.
LEMMA PositionsFacts ==
  /\ RoundUp(MaxOf(Expected)) \in Nat /\ Positions = 0..RoundUp(MaxOf(Expected))
  /\ \A n \in Expected : n \in Positions /\ RoundUp(n) \in Positions
BY Gt68xxAssumption, Largest, Rounding DEF Positions

LEMMA ChannelConstants ==
  /\ BufCount \in 1..255 /\ BufSize \in Nat \ {0} /\ NoPosition \notin Positions
  /\ BufCount \in Nat /\ BufCount >= BufCount
BY Gt68xxAssumption, PositionsFacts DEF NoPosition

-----------------------------------------------------------------------------
\* The channel of Gt68xxRead is the one the proofs of ShmChannel are about.
LEMMA SameInvariant == Channel!IInv <=> Proved!IInv
<1>1. Channel!TypeOK <=> Proved!TypeOK
  BY DEF Channel!TypeOK, Proved!TypeOK, Channel!Ids, Proved!Ids, Channel!NoId, Proved!NoId,
         Channel!Fds, Proved!Fds, Channel!WriterPut0, Proved!WriterPut0,
         Channel!WriterPut1, Proved!WriterPut1, Channel!ReaderPut0, Proved!ReaderPut0,
         Channel!ReaderPut1, Proved!ReaderPut1
<1>2. Channel!Ownership <=> Proved!Ownership
  BY DEF Channel!Ownership, Proved!Ownership, Channel!Unissued, Proved!Unissued,
         Channel!Free, Proved!Free, Channel!Filled, Proved!Filled, Channel!HeldW, Proved!HeldW,
         Channel!HeldR, Proved!HeldR, Channel!Ids, Proved!Ids, Channel!NoId, Proved!NoId,
         Channel!Range, Proved!Range, Channel!IsInjective, Proved!IsInjective
<1>3. Channel!ReaderNeverSigpipe <=> Proved!ReaderNeverSigpipe
  BY DEF Channel!ReaderNeverSigpipe, Proved!ReaderNeverSigpipe
<1>4. Channel!Holding <=> Proved!Holding
  BY DEF Channel!Holding, Proved!Holding, Channel!NoId, Proved!NoId
<1>5. Channel!Descriptors <=> Proved!Descriptors
  BY DEF Channel!Descriptors, Proved!Descriptors, Channel!ReaderPut0, Proved!ReaderPut0,
         Channel!WriterPut1, Proved!WriterPut1
<1>6. Channel!Contents <=> Proved!Contents
  BY DEF Channel!Contents, Proved!Contents, Channel!Filled, Proved!Filled,
         Channel!Range, Proved!Range
<1> QED BY <1>1, <1>2, <1>3, <1>4, <1>5, <1>6 DEF Channel!IInv, Proved!IInv

\* Its actions are those of ShmChannel, so that they keep its invariant.
LEMMA ChannelStep == Channel!IInv /\ [Channel!Next]_channelVars => Channel!IInv'
<1>1. Channel!WriterInit => Proved!Next
  BY DEF Channel!WriterInit, Proved!WriterInit, Channel!WriterPut0, Proved!WriterPut0,
         Channel!ReaderPut1, Proved!ReaderPut1, Channel!readerVars, Proved!readerVars,
         Channel!memVars, Proved!memVars, Proved!Next, Proved!WriterStep
<1>2. Channel!WriterGetBuffer => Proved!Next
  BY DEF Channel!WriterGetBuffer, Proved!WriterGetBuffer, Channel!readerVars,
         Proved!readerVars, Channel!memVars, Proved!memVars, Proved!Next,
         Proved!WriterStep
<1>3. Channel!WriterGetEof => Proved!Next
  BY DEF Channel!WriterGetEof, Proved!WriterGetEof, Channel!IsOpen, Proved!IsOpen,
         Channel!ReaderPut1, Proved!ReaderPut1, Channel!WriterGone, Proved!WriterGone,
         Channel!readerVars, Proved!readerVars, Channel!memVars, Proved!memVars,
         Proved!Next, Proved!WriterStep
<1>4. Channel!WriterPutBytes => Proved!Next
  BY DEF Channel!WriterPutBytes, Proved!WriterPutBytes, Channel!readerVars,
         Proved!readerVars, Channel!memVars, Proved!memVars, Proved!Next,
         Proved!WriterStep
<1>5. Channel!WriterPutId => Proved!Next
  BY DEF Channel!WriterPutId, Proved!WriterPutId, Channel!IsOpen, Proved!IsOpen,
         Channel!WriterPut0, Proved!WriterPut0, Channel!NoId, Proved!NoId,
         Channel!WriterGone, Proved!WriterGone, Channel!readerVars, Proved!readerVars,
         Channel!memVars, Proved!memVars, Proved!Next, Proved!WriterStep
<1>6. Channel!WriterClose => Proved!Next
  BY DEF Channel!WriterClose, Proved!WriterClose, Channel!WriterPut1, Proved!WriterPut1,
         Channel!readerVars, Proved!readerVars, Channel!memVars, Proved!memVars,
         Proved!Next, Proved!WriterStep
<1>7. Channel!WriterExit => Proved!Next
  BY DEF Channel!WriterExit, Proved!WriterExit, Channel!WriterGone, Proved!WriterGone,
         Channel!readerVars, Proved!readerVars, Channel!memVars, Proved!memVars,
         Proved!Next, Proved!WriterStep
<1>8. Channel!WriterDie => Proved!Next
  BY DEF Channel!WriterDie, Proved!WriterDie, Channel!WriterGone, Proved!WriterGone,
         Channel!readerVars, Proved!readerVars, Channel!memVars, Proved!memVars,
         Proved!Next, Proved!WriterStep
<1>9. Channel!ReaderInit => Proved!Next
  BY DEF Channel!ReaderInit, Proved!ReaderInit, Channel!WriterPut1, Proved!WriterPut1,
         Channel!writerVars, Proved!writerVars, Channel!memVars, Proved!memVars,
         Proved!Next, Proved!ReaderStep
<1>10. Channel!ReaderStart => Proved!Next
  BY DEF Channel!ReaderStart, Proved!ReaderStart, Channel!SendFree, Proved!SendFree,
         Channel!IsOpen, Proved!IsOpen, Channel!ReaderPut0, Proved!ReaderPut0,
         Channel!writerVars, Proved!writerVars, Channel!memVars, Proved!memVars,
         Proved!Next, Proved!ReaderStep
<1>11. Channel!ReaderGetBuffer => Proved!Next
  BY DEF Channel!ReaderGetBuffer, Proved!ReaderGetBuffer, Channel!writerVars,
         Proved!writerVars, Channel!memVars, Proved!memVars, Proved!Next,
         Proved!ReaderStep
<1>12. Channel!ReaderGetEof => Proved!Next
  BY DEF Channel!ReaderGetEof, Proved!ReaderGetEof, Channel!IsOpen, Proved!IsOpen,
         Channel!WriterPut1, Proved!WriterPut1, Channel!writerVars, Proved!writerVars,
         Channel!memVars, Proved!memVars, Proved!Next, Proved!ReaderStep
<1>13. Channel!ReaderUse => Proved!Next
  BY DEF Channel!ReaderUse, Proved!ReaderUse, Channel!writerVars, Proved!writerVars,
         Channel!memVars, Proved!memVars, Proved!Next, Proved!ReaderStep
<1>14. Channel!ReaderPutBuffer => Proved!Next
  BY DEF Channel!ReaderPutBuffer, Proved!ReaderPutBuffer, Channel!SendFree,
         Proved!SendFree, Channel!IsOpen, Proved!IsOpen, Channel!ReaderPut0,
         Proved!ReaderPut0, Channel!NoId, Proved!NoId, Channel!writerVars,
         Proved!writerVars, Channel!memVars, Proved!memVars, Proved!Next,
         Proved!ReaderStep

<1>15. (\E d \in Positions, n \in 1..BufSize : Channel!WriterFill(d, n)) => Proved!Next
  BY DEF Channel!WriterFill, Proved!WriterFill, Channel!readerVars, Proved!readerVars,
         Proved!Next, Proved!WriterStep
<1>16. Channel!ReaderFree \/ Channel!ReaderDie => Proved!Next
  BY DEF Channel!ReaderFree, Proved!ReaderFree, Channel!ReaderDie, Proved!ReaderDie,
         Channel!writerVars, Proved!writerVars, Channel!memVars, Proved!memVars, Proved!Next
<1>17. Channel!BothEnded \/ UNCHANGED channelVars => UNCHANGED Proved!vars
  BY DEF Channel!BothEnded, Channel!vars, Proved!vars, channelVars, Channel!writerVars,
         Proved!writerVars, Channel!readerVars, Proved!readerVars, Channel!memVars,
         Proved!memVars
<1>18. [Channel!Next]_channelVars => [Proved!Next]_(Proved!vars)
  BY <1>1, <1>2, <1>3, <1>4, <1>5, <1>6, <1>7, <1>8, <1>9, <1>10, <1>11, <1>12, <1>13,
     <1>14, <1>15, <1>16, <1>17
     DEF Channel!Next, Channel!WriterStep, Channel!ReaderStep
<1>19. Proved!IInv /\ [Proved!Next]_(Proved!vars) => Proved!IInv'
  BY ChannelConstants, Proved!TypeStep, Proved!OwnershipStep,
     Proved!ControlStep, Proved!ContentsStep DEF Proved!IInv
<1> QED BY <1>18, <1>19, SameInvariant, PTL

\* After shm_channel_new the channel is in its first state.
LEMMA ChannelStarts == Channel!Init' => Channel!IInv'
<1>1. Channel!Init => Proved!Init
  BY DEF Channel!Init, Proved!Init, Channel!Fds, Proved!Fds, Channel!WriterPut0,
         Proved!WriterPut0, Channel!WriterPut1, Proved!WriterPut1, Channel!ReaderPut0,
         Proved!ReaderPut0, Channel!ReaderPut1, Proved!ReaderPut1, Channel!Ids, Proved!Ids,
         Channel!NoId, Proved!NoId
<1>2. Proved!Init => Proved!IInv
  BY ChannelConstants, Proved!InitIInv
<1>3. Channel!Init => Channel!IInv
  BY <1>1, <1>2, SameInvariant
<1> QED BY <1>3, PTL

\* Every identifier in the pipe of filled buffers names one, no two the same, and
\* none is the one that either process holds.
LEMMA PipeFacts ==
  ASSUME Channel!IInv
  PROVE  /\ writer_put_pipe \in Seq(Channel!Ids) /\ Len(writer_put_pipe) \in Nat
         /\ DOMAIN writer_put_pipe = 1..Len(writer_put_pipe)
         /\ \A k \in 1..Len(writer_put_pipe) :
              /\ writer_put_pipe[k] \in Channel!Ids
              /\ writer_put_pipe[k] # idW /\ writer_put_pipe[k] # idR
              /\ buffers[writer_put_pipe[k]] \in Positions
              /\ buffer_bytes[writer_put_pipe[k]] \in 1..BufSize
         /\ pcW \in {"fill", "put", "send"} => idW \in Channel!Ids /\ idW # idR
         /\ pcR \in {"use", "put"} => idR \in Channel!Ids
         /\ pcR # "sigpipe"
         /\ pcR \notin {"gone", "sigpipe"} => Channel!ReaderPut0 \in openR
<1>i. /\ Channel!TypeOK /\ Channel!Ownership /\ Channel!ReaderNeverSigpipe
      /\ Channel!Holding /\ Channel!Descriptors /\ Channel!Contents
  BY DEF Channel!IInv
<1>1. /\ writer_put_pipe \in Seq(Channel!Ids) /\ idW \in Channel!Ids \cup {Channel!NoId}
      /\ idR \in Channel!Ids \cup {Channel!NoId}
  BY <1>i DEF Channel!TypeOK
<1>2. /\ Len(writer_put_pipe) \in Nat /\ DOMAIN writer_put_pipe = 1..Len(writer_put_pipe)
      /\ \A k \in 1..Len(writer_put_pipe) : writer_put_pipe[k] \in Channel!Ids
  BY <1>1, LenProperties, ElementOfSeq
<1>n. Channel!NoId \notin Channel!Ids
  BY ChannelConstants DEF Channel!NoId, Channel!Ids
<1>3. \A k \in 1..Len(writer_put_pipe) : writer_put_pipe[k] \in Channel!Filled
  BY <1>2 DEF Channel!Filled, Channel!Range
<1>4. Channel!Filled \cap Channel!HeldW = {} /\ Channel!Filled \cap Channel!HeldR = {}
      /\ Channel!HeldW \cap Channel!HeldR = {}
  BY <1>i DEF Channel!Ownership
<1>5. \A k \in 1..Len(writer_put_pipe) : writer_put_pipe[k] # idW /\ writer_put_pipe[k] # idR
  BY <1>2, <1>3, <1>4, <1>n DEF Channel!HeldW, Channel!HeldR
<1>6. \A k \in 1..Len(writer_put_pipe) :
        /\ buffers[writer_put_pipe[k]] \in Positions
        /\ buffer_bytes[writer_put_pipe[k]] \in 1..BufSize
  BY <1>3, <1>i DEF Channel!Contents
<1>7. pcW \in {"fill", "put", "send"} => idW \in Channel!Ids /\ idW # idR
  BY <1>i, <1>1, <1>4, <1>n DEF Channel!Holding, Channel!HeldW, Channel!HeldR
<1>8. pcR \in {"use", "put"} => idR \in Channel!Ids
  BY <1>i, <1>1 DEF Channel!Holding
<1>9. pcR # "sigpipe" /\ (pcR \notin {"gone", "sigpipe"} => Channel!ReaderPut0 \in openR)
  BY <1>i DEF Channel!ReaderNeverSigpipe, Channel!Descriptors
<1> QED BY <1>1, <1>2, <1>5, <1>6, <1>7, <1>8, <1>9

\* The counts are numbers, and the scanner has at least what the scan is to give.
LEMMA CountFacts ==
  ASSUME IInv
  PROVE  /\ usb.at \in Nat /\ usb.end \in Nat /\ usb.at <= usb.end
         /\ usb.end \in Positions /\ usb.end < SizeMod /\ SizeMod \in Nat
         /\ Taken \in Nat /\ Total \in Nat /\ Total = Taken + read_bytes_left
         /\ Total <= usb.end
         /\ read_bytes_left \in Nat /\ read_bytes_in_buffer \in Nat /\ delivered \in Nat
         /\ Taken = delivered + read_bytes_in_buffer
         /\ read_pos \in Nat /\ read_buffer_size \in Nat /\ read_buffer_size <= BufSize
         /\ BlockSize \in Nat /\ BlockSize <= read_buffer_size /\ BlockSize <= read_bytes_left
         /\ BlockSize = read_buffer_size \/ BlockSize = read_bytes_left
<1>i. TypeOK /\ Counts
  BY DEF IInv
<1>1. /\ usb.at \in Positions /\ usb.end \in Positions /\ usb.at <= usb.end
      /\ read_bytes_left \in Positions /\ delivered \in Positions
      /\ read_pos \in 0..BufSize /\ read_bytes_in_buffer \in 0..BufSize
      /\ read_buffer_size \in 0..BufSize
  BY <1>i DEF TypeOK
<1>2. BufSize \in Nat /\ SizeMod \in Nat /\ RoundUp(MaxOf(Expected)) < SizeMod
  BY Gt68xxAssumption, PositionsFacts
<1>3. /\ usb.at \in Nat /\ usb.end \in Nat /\ usb.end < SizeMod
      /\ read_bytes_left \in Nat /\ read_bytes_in_buffer \in Nat /\ delivered \in Nat
      /\ read_pos \in Nat /\ read_buffer_size \in Nat /\ read_buffer_size <= BufSize
  BY <1>1, <1>2, PositionsFacts
<1>4. Taken \in Nat /\ Total \in Nat
  BY <1>3 DEF Taken, Total
<1>5. Total <= usb.end
  BY <1>4, <1>i, Rounding DEF Counts
<1> QED BY <1>1, <1>2, <1>3, <1>4, <1>5 DEF Taken, Total, BlockSize, Lesser

-----------------------------------------------------------------------------
\* Nothing is scanned, and no process is there.
LEMMA InitIInv == Init => IInv
<1> SUFFICES ASSUME Init PROVE IInv
  OBVIOUS
<1> USE DEF Init
<1>r. RoundUp(0) = 0 /\ RoundUp(0) \in Nat
  <2>1. Pad \in Nat \ {0} /\ Pad - 1 \in 0..(Pad - 1)
    BY Gt68xxAssumption
  <2>2. (0 * Pad + (Pad - 1)) \div Pad = 0
    BY <2>1, Quotient
  <2> QED BY <2>1, <2>2 DEF RoundUp
<1>1. Channel!IInv
  <2>1. Channel!TypeOK
    BY ChannelConstants, PositionsFacts DEF Channel!TypeOK, Channel!Ids, Channel!NoId, Channel!Fds
  <2>2. Channel!Range(reader_put_pipe) = {} /\ Channel!Range(writer_put_pipe) = {}
    BY DEF Channel!Range
  <2>3. Channel!Ownership
    BY <2>2 DEF Channel!Ownership, Channel!Unissued, Channel!Free, Channel!Filled,
                Channel!HeldW, Channel!HeldR, Channel!IsInjective, Channel!Ids
  <2>4. Channel!ReaderNeverSigpipe /\ Channel!Holding /\ Channel!Descriptors
    BY DEF Channel!ReaderNeverSigpipe, Channel!Holding, Channel!Descriptors
  <2>5. Channel!Contents
    BY <2>2 DEF Channel!Contents, Channel!Filled
  <2> QED BY <2>1, <2>3, <2>4, <2>5 DEF Channel!IInv
<1>2. TypeOK
  <2>1. 0 \in Positions /\ 0 \in 0..BufSize /\ 0 \in 0..(SizeMod - 1)
    BY Gt68xxAssumption, PositionsFacts
  <2>2. 0 \in 0..MaxOf(Requests) /\ 0 \in 0..MaxScans
    BY Gt68xxAssumption, Largest
  <2>3. usb \in [at : Positions, end : Positions] /\ usb.at <= usb.end
    BY <2>1
  <2>4. read_buffer \in [from : Positions, fresh : 0..BufSize]
    BY <2>1
  <2> QED BY <1>1, <2>1, <2>2, <2>3, <2>4 DEF TypeOK, Channel!IInv
<1>3. Taken = 0 /\ Total = 0
  BY DEF Taken, Total
<1>4. Counts
  BY <1>3, <1>r, Largest, WholeBuffer DEF Counts
<1>5. Stages /\ ChildCounts /\ Row /\ Coming /\ Raw /\ InOrder
  BY <1>3 DEF Stages, ChildCounts, Row, Coming, Raw, InOrder
<1> QED BY <1>1, <1>2, <1>4, <1>5 DEF IInv

\* A step that moves no block and no count.
LEMMA QuietStep ==
  ASSUME IInv, Channel!IInv',
         UNCHANGED <<usb, left, parentVars, buffers, buffer_bytes, writer_put_pipe>>,
         \/ UNCHANGED <<pcW, idW, bytesW>>
         \/ /\ pcW \notin {"put", "send"} /\ pcW' \notin {"put", "send"}
            /\ ChildLives' => ChildLives
            /\ pcW = "gone" => pcW' = "gone",
         \/ UNCHANGED <<pcR, idR, bytesR>>
         \/ pcR \in {"init", "start"} /\ pcR' \in {"init", "start", "get"}
  PROVE  IInv'
<1>i. /\ TypeOK /\ Counts /\ Stages /\ ChildCounts /\ Row /\ Coming /\ Raw
      /\ ~ShortReads => InOrder
  BY DEF IInv
<1>f. UNCHANGED <<usb, left, read_active, final_scan, shm_channel, read_buffer_size,
                  read_bytes_left, read_pos, read_bytes_in_buffer, read_buffer, call,
                  left_to_read, byte_count, status, delivered, scans>>
  BY DEF parentVars
<1>t. UNCHANGED <<Taken, Total, BlockSize>>
  BY <1>f DEF Taken, Total, BlockSize
<1>s. (ChildLives' => ChildLives) /\ UNCHANGED Sent
  BY <1>f DEF ChildLives, Sent
<1>1. TypeOK'
  BY <1>i, <1>f DEF TypeOK, Channel!IInv
<1>2. Counts' /\ Raw' /\ (~ShortReads => InOrder')
  BY <1>i, <1>f, <1>t DEF Counts, Raw, InOrder, Reached
<1>3. Stages'
  BY <1>i, <1>f, <1>t DEF Stages
<1>4. ChildCounts'
  BY <1>i, <1>f, <1>t, <1>s DEF ChildCounts
<1>5. Row'
  BY <1>i, <1>f, <1>s DEF Row, Whole, First, Bytes
<1>6. \A p : Continues(p) => Continues(p)'
  BY <1>s DEF Continues, First
<1>7. Coming'
  BY <1>i, <1>f, <1>t, <1>6 DEF Coming, Whole, Reached, Stages
<1> QED BY <1>1, <1>2, <1>3, <1>4, <1>5, <1>7 DEF IInv

\* read_start_fork sends the identifiers; the child starts, takes one, fails, closes
\* the channel or ends.
LEMMA QuietSteps ==
  ASSUME IInv, \/ ReadStarting \/ ChildInit \/ ChildGet \/ ChildReadFails \/ ChildClose
               \/ ChildExit
  PROVE  IInv'
<1>i. Channel!IInv
  BY DEF IInv
<1>1. CASE ReadStarting
  <2>1. /\ Channel!ReaderInit \/ Channel!ReaderStart
        /\ UNCHANGED <<usb, left, parentVars>>
    BY <1>1 DEF ReadStarting
  <2>2. Channel!IInv'
    BY <2>1, <1>i, ChannelStep DEF Channel!Next, Channel!ReaderStep
  <2>3. /\ UNCHANGED <<buffers, buffer_bytes, writer_put_pipe>> /\ UNCHANGED <<pcW, idW, bytesW>>
        /\ pcR \in {"init", "start"} /\ pcR' \in {"init", "start", "get", "sigpipe"}
    BY <2>1 DEF Channel!ReaderInit, Channel!ReaderStart, Channel!SendFree, Channel!memVars,
                Channel!writerVars
  <2>4. pcR' # "sigpipe"
    BY <2>2 DEF Channel!IInv, Channel!ReaderNeverSigpipe
  <2> QED BY <2>1, <2>2, <2>3, <2>4, QuietStep
<1>2. CASE ChildInit \/ ChildGet \/ ChildReadFails \/ ChildClose \/ ChildExit
  <2>1. /\ \/ Channel!WriterInit \/ Channel!WriterGetBuffer \/ Channel!WriterGetEof
           \/ pcW = "fill" /\ Channel!WriterDie
           \/ Channel!WriterClose \/ Channel!WriterExit
        /\ UNCHANGED <<usb, left, parentVars>>
    BY <1>2 DEF ChildInit, ChildGet, ChildReadFails, ChildClose, ChildExit
  <2>2. Channel!IInv'
    BY <2>1, <1>i, ChannelStep DEF Channel!Next, Channel!WriterStep
  <2>3. /\ UNCHANGED <<buffers, buffer_bytes, writer_put_pipe>> /\ UNCHANGED <<pcR, idR, bytesR>>
        /\ pcW \in {"init", "get", "fill", "closed"}
        /\ pcW' \in {"get", "fill", "closed", "gone"}
        /\ pcW = "closed" => pcW' = "gone"
    BY <2>1 DEF Channel!WriterInit, Channel!WriterGetBuffer, Channel!WriterGetEof,
                Channel!WriterDie, Channel!WriterClose, Channel!WriterExit,
                Channel!WriterGone, Channel!memVars, Channel!readerVars
  <2>4. ChildLives' => ChildLives
    BY <2>3 DEF ChildLives
  <2> QED BY <2>1, <2>2, <2>3, <2>4, QuietStep
<1> QED BY <1>1, <1>2

\* A call that begins or ends takes nothing from the channel, except that it may
\* have read its end.
LEMMA CallStep ==
  ASSUME IInv, Channel!IInv',
         UNCHANGED <<usb, left, deviceVars, blockVars, delivered>>,
         UNCHANGED <<buffers, buffer_bytes, writer_put_pipe, pcW, idW, bytesW, idR, bytesR>>,
         pcR' = pcR \/ (pcR = "get" /\ pcR' = "eof"),
         \/ /\ call = "idle" /\ call' = "loop" /\ read_active
            /\ final_scan => shm_channel
            /\ shm_channel => pcR \in {"get", "eof"}
         \/ call = "loop" /\ call' = "idle"
         \/ call' = call /\ pcR' = pcR,
         status' \in {"good", "eof", "io_error"},
         left_to_read' \in Nat, byte_count' \in Nat,
         byte_count' + left_to_read' <= MaxOf(Requests)
  PROVE  IInv'
<1>i. /\ TypeOK /\ Channel!IInv /\ Counts /\ Stages /\ ChildCounts /\ Row /\ Coming /\ Raw
      /\ ~ShortReads => InOrder
  BY DEF IInv
<1>f. /\ UNCHANGED <<read_active, final_scan, shm_channel, read_buffer_size, scans>>
      /\ UNCHANGED <<read_bytes_left, read_pos, read_bytes_in_buffer, read_buffer>>
  BY DEF deviceVars, blockVars
<1>t. UNCHANGED <<Taken, Total, BlockSize, ChildLives, Sent>>
  BY <1>f DEF Taken, Total, BlockSize, ChildLives, Sent
<1>c. call' \in {"idle", "loop", "fetch"}
  BY <1>i DEF TypeOK
<1>2. TypeOK'
  <2>1. byte_count' \in 0..MaxOf(Requests) /\ left_to_read' \in 0..MaxOf(Requests)
    BY Largest
  <2> QED BY <2>1, <1>i, <1>f, <1>c DEF TypeOK, Channel!IInv
<1>3. Counts' /\ Raw' /\ (~ShortReads => InOrder')
  BY <1>i, <1>f, <1>t DEF Counts, Raw, InOrder, Reached
<1>4. Stages'
  BY <1>i, <1>f, <1>t DEF Stages
<1>5. ChildCounts' /\ Row'
  BY <1>i, <1>f, <1>t DEF ChildCounts, Row, Whole, First, Bytes
<1>6. \A p : Continues(p) => Continues(p)'
  BY <1>f, <1>t DEF Continues, First
<1>7. Coming'
  BY <1>i, <1>f, <1>t, <1>6 DEF Coming, Whole, Reached
<1> QED BY <1>2, <1>3, <1>4, <1>5, <1>7 DEF IInv

\* gt68xx_device_read is called, fails, meets the end of the channel, or returns.
LEMMA CallSteps ==
  ASSUME IInv, \/ \E size \in Requests : Read(size)
               \/ FetchEof \/ FetchRawFails \/ ReadReturn \/ UNCHANGED vars
  PROVE  IInv'
<1>i. TypeOK /\ Channel!IInv /\ Counts
  BY DEF IInv
<1>k. /\ left_to_read \in Nat /\ byte_count \in Nat
      /\ byte_count + left_to_read <= MaxOf(Requests)
      /\ status \in {"good", "eof", "io_error"}
  BY <1>i, Largest DEF TypeOK, Counts
<1>u. UNCHANGED channelVars =>
        /\ Channel!IInv'
        /\ UNCHANGED <<buffers, buffer_bytes, writer_put_pipe, pcW, idW, bytesW, idR, bytesR>>
        /\ pcR' = pcR
  BY <1>i, ChannelStep DEF channelVars
<1>1. ASSUME NEW size \in Requests, Read(size)
      PROVE  IInv'
  <2>1. /\ UNCHANGED channelVars /\ UNCHANGED <<usb, left, deviceVars, blockVars, delivered>>
        /\ call = "idle" /\ call' = "loop" /\ read_active
        /\ final_scan => (shm_channel /\ pcR \in {"get", "eof"})
        /\ status' = status /\ left_to_read' = size /\ byte_count' = 0
    BY <1>1 DEF Read
  <2>2. shm_channel => final_scan
    BY DEF IInv, Stages
  <2>3. size \in Nat /\ 0 + size <= MaxOf(Requests)
    BY Largest, Gt68xxAssumption
  <2>4. /\ Channel!IInv' /\ pcR' = pcR
        /\ UNCHANGED <<buffers, buffer_bytes, writer_put_pipe, pcW, idW, bytesW, idR, bytesR>>
    BY <2>1, <1>u
  <2> QED BY <2>1, <2>2, <2>3, <2>4, <1>k, CallStep
<1>2. CASE FetchEof
  <2>1. /\ Channel!ReaderGetEof \/ UNCHANGED channelVars
        /\ UNCHANGED <<usb, left, deviceVars, blockVars, left_to_read, byte_count, delivered>>
        /\ call = "loop" /\ call' = "idle" /\ status' = "eof"
    BY <1>2 DEF FetchEof, NeedsBlock, Return
  <2>2. CASE Channel!ReaderGetEof
    <3>1. Channel!IInv'
      BY <2>2, <1>i, ChannelStep DEF Channel!Next, Channel!ReaderStep
    <3>2. /\ UNCHANGED <<buffers, buffer_bytes, writer_put_pipe, pcW, idW, bytesW, idR, bytesR>>
          /\ pcR = "get" /\ pcR' = "eof"
      BY <2>2 DEF Channel!ReaderGetEof, Channel!memVars, Channel!writerVars
    <3> QED BY <3>1, <3>2, <2>1, <1>k, CallStep
  <2>3. CASE UNCHANGED channelVars
    <3>1. /\ Channel!IInv' /\ pcR' = pcR
          /\ UNCHANGED <<buffers, buffer_bytes, writer_put_pipe, pcW, idW, bytesW, idR, bytesR>>
      BY <2>3, <1>u
    <3> QED BY <3>1, <2>1, <1>k, CallStep
  <2> QED BY <2>1, <2>2, <2>3
<1>3. CASE FetchRawFails
  <2>1. /\ UNCHANGED channelVars /\ UNCHANGED <<usb, left, deviceVars, blockVars, left_to_read, byte_count,
                       delivered>>
        /\ call = "loop" /\ call' = "idle" /\ status' = "io_error"
    BY <1>3 DEF FetchRawFails, NeedsBlock, Return
  <2>2. /\ Channel!IInv' /\ pcR' = pcR
        /\ UNCHANGED <<buffers, buffer_bytes, writer_put_pipe, pcW, idW, bytesW, idR, bytesR>>
    BY <2>1, <1>u
  <2> QED BY <2>1, <2>2, <1>k, CallStep
<1>4. CASE ReadReturn
  <2>1. /\ UNCHANGED channelVars /\ UNCHANGED <<usb, left, deviceVars, blockVars, left_to_read, byte_count,
                       delivered>>
        /\ call = "loop" /\ call' = "idle" /\ status' \in {"eof", "good"}
    BY <1>4 DEF ReadReturn, Return
  <2>2. /\ Channel!IInv' /\ pcR' = pcR
        /\ UNCHANGED <<buffers, buffer_bytes, writer_put_pipe, pcW, idW, bytesW, idR, bytesR>>
    BY <2>1, <1>u
  <2> QED BY <2>1, <2>2, <1>k, CallStep
<1>5. CASE UNCHANGED vars
  <2>1. /\ UNCHANGED channelVars /\ UNCHANGED <<usb, left, deviceVars, blockVars, left_to_read, byte_count,
                       delivered>>
        /\ UNCHANGED <<call, status>>
    BY <1>5 DEF vars, parentVars, deviceVars, blockVars
  <2>2. /\ Channel!IInv' /\ pcR' = pcR
        /\ UNCHANGED <<buffers, buffer_bytes, writer_put_pipe, pcW, idW, bytesW, idR, bytesR>>
    BY <2>1, <1>u
  <2> QED BY <2>1, <2>2, <1>k, CallStep
<1> QED BY <1>1, <1>2, <1>3, <1>4, <1>5

-----------------------------------------------------------------------------
\* Before a scan neither process is there, and nothing has been taken.
LEMMA ReadPrepareStep ==
  ASSUME IInv, NEW n \in Expected, NEW final \in BOOLEAN, ReadPrepare(n, final)
  PROVE  IInv'
<1>i. TypeOK /\ Channel!IInv /\ Counts /\ Stages
  BY DEF IInv
<1>a. /\ call = "idle" /\ ~read_active /\ scans < MaxScans /\ scans' = scans + 1
      /\ read_buffer_size' = IF BufSize > n THEN RoundUp(n) ELSE BufSize
      /\ read_active' = TRUE /\ final_scan' = final
      /\ read_pos' = 0 /\ read_bytes_in_buffer' = 0 /\ read_bytes_left' = n
      /\ read_buffer' = [from |-> 0, fresh |-> 0]
      /\ delivered' = 0 /\ status' = "good"
      /\ UNCHANGED channelVars /\ UNCHANGED <<left, shm_channel, call, left_to_read, byte_count>>
  BY DEF ReadPrepare
<1>u. PICK end \in {n, RoundUp(n)} : usb' = [at |-> 0, end |-> end]
  BY DEF ReadPrepare
<1>n. /\ n \in Nat \ {0} /\ n \in Positions /\ 0 \in Positions
      /\ RoundUp(n) \in Positions /\ RoundUp(n) \in Nat /\ RoundUp(RoundUp(n)) = RoundUp(n)
  BY Gt68xxAssumption, Rounding, PositionsFacts
<1>r. /\ read_buffer_size' \in 0..BufSize
      /\ RoundUp(read_buffer_size') = read_buffer_size'
  <2>1. BufSize > n => RoundUp(n) <= BufSize
    BY <1>n, WholeBuffer, Rounding
  <2> QED BY <2>1, <1>a, <1>n, WholeBuffer
<1>s. ~shm_channel /\ pcW = "gone" /\ pcR = "gone"
  BY <1>i, <1>a DEF Stages
<1>c. UNCHANGED <<pcW, pcR>> /\ Channel!IInv'
  BY <1>i, <1>a, ChannelStep DEF channelVars
<1>t. Taken' = 0 /\ Total' = n
  BY <1>a, <1>n DEF Taken, Total
<1>1. TypeOK'
  <2>1. usb' \in [at : Positions, end : Positions] /\ usb'.at <= usb'.end
    BY <1>u, <1>n
  <2>2. read_buffer' \in [from : Positions, fresh : 0..BufSize]
    BY <1>a, <1>n, WholeBuffer
  <2>3. /\ read_pos' \in 0..BufSize /\ read_bytes_in_buffer' \in 0..BufSize
        /\ scans' \in 0..MaxScans
    BY <1>a, <1>i, WholeBuffer, Gt68xxAssumption DEF TypeOK
  <2> QED BY <2>1, <2>2, <2>3, <1>a, <1>i, <1>n, <1>r, <1>c DEF TypeOK, Channel!IInv
<1>2. Counts'
  BY <1>u, <1>t, <1>r, <1>a, <1>i, WholeBuffer DEF Counts
<1>3. Stages'
  BY <1>a, <1>s, <1>c, <1>t, <1>u DEF Stages
<1>4. ChildCounts' /\ Row' /\ Coming'
  BY <1>a, <1>s DEF ChildCounts, Row, Coming
<1>5. Raw'
  BY <1>t, <1>u DEF Raw, Reached
<1>6. InOrder'
  BY <1>a DEF InOrder
<1> QED BY <1>1, <1>2, <1>3, <1>4, <1>5, <1>6, <1>c DEF IInv

\* The child begins with the parent's count, before the scanner gave anything.
LEMMA ReadStartStep ==
  ASSUME IInv, ReadStart
  PROVE  IInv'
<1>i. /\ TypeOK /\ Counts /\ Stages /\ Raw /\ (~ShortReads => InOrder)
  BY DEF IInv
<1>a. /\ call = "idle" /\ read_active /\ final_scan /\ ~shm_channel /\ shm_channel' = TRUE
      /\ writer_put_pipe' = <<>> /\ pcW' = "init" /\ pcR' = "init" /\ left' = read_bytes_left
      /\ UNCHANGED <<usb, read_active, final_scan, read_buffer_size, scans>>
      /\ UNCHANGED <<call, left_to_read, byte_count, status, delivered>>
      /\ UNCHANGED <<read_bytes_left, read_pos, read_bytes_in_buffer, read_buffer>>
  BY DEF ReadStart, callVars, blockVars
<1>n. /\ usb.at = 0 /\ Taken = 0 /\ Total = read_bytes_left /\ Total \in Nat
      /\ Total < SizeMod /\ SizeMod \in Nat
  BY <1>i, <1>a, CountFacts DEF Stages
<1>t. UNCHANGED <<Taken, Total, BlockSize>>
  BY <1>a DEF Taken, Total, BlockSize
<1>s. Sent' = 0 /\ ChildLives'
  BY <1>a, <1>n DEF Sent, ChildLives
<1>1. Channel!IInv'
  <2>1. Channel!Init'
    BY DEF ReadStart, Channel!Init
  <2> QED BY <2>1, ChannelStarts
<1>2. TypeOK'
  BY <1>1, <1>a, <1>n, <1>i DEF TypeOK, Channel!IInv
<1>3. Counts' /\ (~ShortReads => InOrder')
  BY <1>i, <1>a, <1>t DEF Counts, InOrder
<1>4. Stages'
  BY <1>i, <1>a DEF Stages
<1>5. ChildCounts'
  BY <1>a, <1>s, <1>t, <1>n DEF ChildCounts
<1>6. Row'
  BY <1>a DEF Row
<1>7. Coming'
  <2>1. 0 \in Positions /\ Reached(0)' /\ Continues(0)'
    BY <1>a, <1>t, <1>n, <1>s, PositionsFacts DEF Reached, Continues
  <2> QED BY <2>1, <1>a DEF Coming
<1>8. Raw'
  BY <1>a DEF Raw
<1> QED BY <1>1, <1>2, <1>3, <1>4, <1>5, <1>6, <1>7, <1>8 DEF IInv

\* SIGKILL, and the channel is given up: whatever was in it does not matter.
LEMMA ReadFinishStep ==
  ASSUME IInv, ReadFinish
  PROVE  IInv'
<1>i. /\ TypeOK /\ Channel!IInv /\ Counts /\ Stages /\ (~ShortReads => InOrder)
  BY DEF IInv
<1>a. /\ call = "idle" /\ read_active
      /\ pcW' = "gone" /\ openW' = {} /\ pcR' = "gone" /\ openR' = {}
      /\ shm_channel' = FALSE /\ read_active' = FALSE
      /\ UNCHANGED <<reader_put_pipe, writer_put_pipe, buffers, buffer_bytes, idW,
                     bytesW, idR, bytesR, issued, out, usb, left, final_scan,
                     read_buffer_size, scans>>
      /\ UNCHANGED <<call, left_to_read, byte_count, status, delivered>>
      /\ UNCHANGED <<read_bytes_left, read_pos, read_bytes_in_buffer, read_buffer>>
  BY DEF ReadFinish, callVars, blockVars
<1>t. UNCHANGED <<Taken, Total, BlockSize>>
  BY <1>a DEF Taken, Total, BlockSize
<1>1. Channel!IInv'
  <2>i. /\ Channel!TypeOK /\ Channel!Ownership /\ Channel!ReaderNeverSigpipe
        /\ Channel!Holding /\ Channel!Descriptors /\ Channel!Contents
    BY <1>i DEF Channel!IInv
  <2>1. Channel!TypeOK'
    BY <2>i, <1>a DEF Channel!TypeOK
  <2>2. Channel!Ownership'
    BY <2>i, <1>a DEF Channel!Ownership, Channel!Unissued, Channel!Free, Channel!Filled,
                      Channel!HeldW, Channel!HeldR
  <2>3. Channel!ReaderNeverSigpipe' /\ Channel!Holding' /\ Channel!Descriptors'
    BY <1>a DEF Channel!ReaderNeverSigpipe, Channel!Holding, Channel!Descriptors
  <2>4. Channel!Contents'
    BY <2>i, <1>a DEF Channel!Contents, Channel!Filled
  <2> QED BY <2>1, <2>2, <2>3, <2>4 DEF Channel!IInv
<1>2. TypeOK'
  BY <1>1, <1>a, <1>i DEF TypeOK, Channel!IInv
<1>3. Counts' /\ (~ShortReads => InOrder')
  BY <1>i, <1>a, <1>t DEF Counts, InOrder
<1>4. Stages' /\ ChildCounts' /\ Row' /\ Coming' /\ Raw'
  BY <1>a DEF Stages, ChildCounts, Row, Coming, Raw
<1> QED BY <1>1, <1>2, <1>3, <1>4 DEF IInv

-----------------------------------------------------------------------------
\* What is left of a pipe that one identifier was read from.
LEMMA TailFacts ==
  ASSUME NEW S, NEW s \in Seq(S), s # <<>>
  PROVE  \E n \in Nat : /\ Len(s) = n + 1 /\ Len(Tail(s)) = n /\ Head(s) = s[1]
                        /\ Tail(s) = <<>> <=> n = 0
                        /\ \A k \in 1..n : Tail(s)[k] = s[k + 1]
<1>1. /\ Len(s) \in Nat /\ Len(s) # 0
  BY EmptySeq, LenProperties
<1>2. /\ Head(s) = s[1] /\ Tail(s) \in Seq(S) /\ Len(Tail(s)) = Len(s) - 1
      /\ \A k \in 1..Len(Tail(s)) : Tail(s)[k] = s[k + 1]
  BY HeadTailProperties
<1>3. Tail(s) = <<>> <=> Len(Tail(s)) = 0
  BY <1>2, EmptySeq
<1> WITNESS Len(s) - 1 \in Nat
<1> QED BY <1>1, <1>2, <1>3

\* shm_channel_reader_get_buffer: the first block of the pipe is in the parent's
\* hands, and the next one follows it.
LEMMA FetchGetStep ==
  ASSUME IInv, FetchGet
  PROVE  IInv'
<1>i. /\ TypeOK /\ Channel!IInv /\ Counts /\ Stages /\ ChildCounts /\ Row /\ Coming /\ Raw
      /\ ~ShortReads => InOrder
  BY DEF IInv
<1>a. /\ shm_channel /\ call = "loop" /\ call' = "fetch"
      /\ read_bytes_in_buffer = 0 /\ BlockSize > 0
      /\ UNCHANGED <<usb, left, left_to_read, byte_count, status, delivered>>
      /\ UNCHANGED <<read_active, final_scan, shm_channel, read_buffer_size, scans>>
      /\ UNCHANGED <<read_bytes_left, read_pos, read_bytes_in_buffer, read_buffer>>
  BY DEF FetchGet, NeedsBlock, deviceVars, blockVars
<1>b. /\ pcR = "get" /\ pcR' = "use"
      /\ writer_put_pipe # <<>> /\ writer_put_pipe' = Tail(writer_put_pipe)
      /\ idR' = Head(writer_put_pipe) /\ bytesR' = buffer_bytes[Head(writer_put_pipe)]
      /\ UNCHANGED <<buffers, buffer_bytes, pcW, idW, bytesW>>
  BY DEF FetchGet, Channel!ReaderGetBuffer, Channel!memVars, Channel!writerVars
<1>c. Channel!IInv'
  <2>1. Channel!ReaderGetBuffer
    BY DEF FetchGet
  <2> QED BY <2>1, <1>i, ChannelStep DEF Channel!Next, Channel!ReaderStep
<1>t. UNCHANGED <<Taken, Total, BlockSize, ChildLives, Sent>>
  BY <1>a, <1>b DEF Taken, Total, BlockSize, ChildLives, Sent
<1>q. PICK n \in Nat :
        /\ Len(writer_put_pipe) = n + 1 /\ Len(writer_put_pipe') = n
        /\ Head(writer_put_pipe) = writer_put_pipe[1]
        /\ writer_put_pipe' = <<>> <=> n = 0
        /\ \A k \in 1..n : writer_put_pipe'[k] = writer_put_pipe[k + 1]
  <2>1. writer_put_pipe \in Seq(Channel!Ids)
    BY <1>i, PipeFacts
  <2> QED BY <2>1, <1>b, TailFacts
<1>w. \A k \in 1..n : First(k)' = First(k + 1) /\ Bytes(k)' = Bytes(k + 1)
  BY <1>b, <1>q DEF First, Bytes
<1>r. /\ pcW \in {"put", "send"} => buffers[idW] = Sent /\ Whole(Sent, bytesW)
      /\ \A k \in 1..(n + 1) : Whole(First(k), Bytes(k))
      /\ \A k \in 1..n : First(k + 1) = First(k) + Bytes(k)
      /\ ChildLives => First(n + 1) + Bytes(n + 1) = Sent
  BY <1>i, <1>a, <1>b, <1>q DEF Row
<1>1. TypeOK'
  BY <1>c, <1>a, <1>i DEF TypeOK, Channel!IInv
<1>2. Counts' /\ Raw' /\ (~ShortReads => InOrder')
  BY <1>i, <1>a, <1>t DEF Counts, Raw, InOrder, Reached
<1>3. Stages'
  BY <1>i, <1>a, <1>b, <1>t DEF Stages
<1>4. ChildCounts'
  BY <1>i, <1>a, <1>b, <1>t DEF ChildCounts
<1>5. Row'
  <2>1. pcW' \in {"put", "send"} => buffers'[idW'] = Sent' /\ Whole(Sent, bytesW)'
    BY <1>r, <1>a, <1>b, <1>t DEF Whole
  <2>2. \A k \in 1..n : Whole(First(k), Bytes(k))'
    <3>1. \A k \in 1..n : k + 1 \in 1..(n + 1)
      OBVIOUS
    <3> QED BY <3>1, <1>w, <1>r, <1>a DEF Whole
  <2>3. \A k \in 1..(n - 1) : First(k + 1)' = First(k)' + Bytes(k)'
    <3>1. ASSUME NEW k \in 1..(n - 1) PROVE First(k + 1)' = First(k)' + Bytes(k)'
      <4>1. k \in 1..n /\ k + 1 \in 1..n
        OBVIOUS
      <4> QED BY <4>1, <1>w, <1>r
    <3> QED BY <3>1
  <2>4. n # 0 /\ ChildLives => First(n)' + Bytes(n)' = Sent
    <3>1. n # 0 => n \in 1..n
      OBVIOUS
    <3> QED BY <3>1, <1>w, <1>r
  <2> QED BY <2>1, <2>2, <2>3, <2>4, <1>a, <1>q, <1>t DEF Row
<1>6. Coming'
  <2>1. PICK p \in Positions : Reached(p) /\ Continues(p)
    <3>1. read_bytes_left > 0
      BY <1>a, <1>i, CountFacts
    <3> QED BY <3>1, <1>i, <1>a, <1>b DEF Coming
  <2>2. First(1) = p /\ buffers'[idR'] = p /\ bytesR' = Bytes(1) /\ Whole(p, Bytes(1))
    BY <2>1, <1>b, <1>q, <1>r DEF Continues, First, Bytes
  <2>3. /\ n # 0 => First(1)' = p + Bytes(1)
        /\ n = 0 /\ ChildLives => Sent = p + Bytes(1)
    BY <2>2, <1>w, <1>r
  <2> QED BY <2>1, <2>2, <2>3, <1>a, <1>b, <1>q, <1>t DEF Coming, Whole, Reached, Continues
<1> QED BY <1>1, <1>2, <1>3, <1>4, <1>5, <1>6, <1>c DEF IInv

\* The memcpy of the block.
LEMMA FetchCopyStep ==
  ASSUME IInv, FetchCopy
  PROVE  IInv'
<1>i. /\ TypeOK /\ Channel!IInv /\ Counts /\ Stages /\ ChildCounts /\ Row /\ Coming /\ Raw
  BY DEF IInv
<1>a. /\ call = "fetch" /\ read_buffer' = [from |-> buffers[idR], fresh |-> bytesR]
      /\ UNCHANGED <<usb, left, call, left_to_read, byte_count, status, delivered>>
      /\ UNCHANGED <<read_active, final_scan, shm_channel, read_buffer_size, scans>>
      /\ UNCHANGED <<read_bytes_left, read_pos, read_bytes_in_buffer>>
  BY DEF FetchCopy, deviceVars, callVars
<1>b. /\ pcR = "use" /\ pcR' = "put"
      /\ UNCHANGED <<buffers, buffer_bytes, writer_put_pipe, pcW, idW, bytesW, idR, bytesR>>
  BY DEF FetchCopy, Channel!ReaderUse, Channel!memVars, Channel!writerVars
<1>c. Channel!IInv'
  <2>1. Channel!ReaderUse
    BY DEF FetchCopy
  <2> QED BY <2>1, <1>i, ChannelStep DEF Channel!Next, Channel!ReaderStep
<1>t. UNCHANGED <<Taken, Total, BlockSize, ChildLives, Sent>>
  BY <1>a, <1>b DEF Taken, Total, BlockSize, ChildLives, Sent
<1>1. TypeOK'
  <2>1. buffers[idR] \in Positions /\ bytesR \in 1..BufSize
    BY <1>i, <1>b DEF Channel!IInv, Channel!Contents
  <2>2. read_buffer' \in [from : Positions, fresh : 0..BufSize]
    BY <2>1, <1>a
  <2> QED BY <2>2, <1>c, <1>a, <1>i DEF TypeOK, Channel!IInv
<1>2. Counts' /\ Raw'
  BY <1>i, <1>a, <1>t DEF Counts, Raw, Reached
<1>3. InOrder'
  BY <1>i, <1>a DEF InOrder, Stages
<1>4. Stages'
  BY <1>i, <1>a, <1>b, <1>t DEF Stages
<1>5. ChildCounts' /\ Row'
  BY <1>i, <1>a, <1>b, <1>t DEF ChildCounts, Row, Whole, First, Bytes
<1>6. Coming'
  <2>1. read_buffer'.from = buffers[idR] /\ read_buffer'.fresh = bytesR
    BY <1>a
  <2> QED BY <2>1, <1>i, <1>a, <1>b, <1>t DEF Coming, Whole, Reached, Continues, First
<1> QED BY <1>1, <1>2, <1>3, <1>4, <1>5, <1>6, <1>c DEF IInv

\* The parent takes off as much as a block is long, unless less is left to read.
LEMMA Taking ==
  ASSUME IInv, TakeBlock, read_bytes_in_buffer = 0, BlockSize > 0,
         UNCHANGED <<delivered, read_buffer_size>>
  PROVE  /\ read_bytes_in_buffer' = BlockSize /\ read_pos' = 0
         /\ Taken = delivered /\ Taken' = Taken + BlockSize /\ Total' = Total
         /\ read_bytes_left' = read_bytes_left - BlockSize
         /\ read_bytes_left' \in Nat /\ read_bytes_left' < read_bytes_left
         /\ read_bytes_left' > 0 => BlockSize = read_buffer_size
         /\ BlockSize \in 1..BufSize
<1>1. /\ read_pos' = 0 /\ read_bytes_in_buffer' = BlockSize
      /\ read_bytes_left' = read_bytes_left - BlockSize
  BY DEF TakeBlock
<1>2. /\ BlockSize \in Nat /\ BlockSize <= read_buffer_size /\ BlockSize <= read_bytes_left
      /\ BlockSize = read_buffer_size \/ BlockSize = read_bytes_left
      /\ read_bytes_left \in Nat /\ read_buffer_size \in Nat /\ read_buffer_size <= BufSize
      /\ delivered \in Nat
  BY CountFacts
<1>3. Taken = delivered /\ Taken' = delivered + BlockSize
  BY <1>1, <1>2 DEF Taken
<1>4. Total' = Total
  BY <1>1, <1>2, <1>3 DEF Total
<1> QED BY <1>1, <1>2, <1>3, <1>4, WholeBuffer

\* shm_channel_reader_put_buffer, and the block is the parent's.
LEMMA FetchPutStep ==
  ASSUME IInv, FetchPut
  PROVE  IInv'
<1>i. /\ TypeOK /\ Channel!IInv /\ Counts /\ Stages /\ ChildCounts /\ Row /\ Coming
  BY DEF IInv
<1>a. /\ call = "fetch" /\ call' = "loop"
      /\ UNCHANGED <<usb, left, left_to_read, byte_count, status, delivered, read_buffer>>
      /\ UNCHANGED <<read_active, final_scan, shm_channel, read_buffer_size, scans>>
  BY DEF FetchPut, TakeBlock, deviceVars
<1>c. Channel!IInv'
  <2>1. Channel!ReaderPutBuffer
    BY DEF FetchPut
  <2> QED BY <2>1, <1>i, ChannelStep DEF Channel!Next, Channel!ReaderStep
<1>b. /\ pcR = "put" /\ pcR' = "get"
      /\ UNCHANGED <<buffers, buffer_bytes, writer_put_pipe, pcW, idW, bytesW, bytesR>>
  <2>1. pcR' # "sigpipe"
    BY <1>c DEF Channel!IInv, Channel!ReaderNeverSigpipe
  <2> QED BY <2>1 DEF FetchPut, Channel!ReaderPutBuffer, Channel!SendFree, Channel!memVars,
                      Channel!writerVars
<1>k. /\ shm_channel /\ final_scan /\ read_bytes_in_buffer = 0 /\ BlockSize > 0
  BY <1>i, <1>a, <1>b DEF Stages
<1>x. /\ read_bytes_in_buffer' = BlockSize /\ read_pos' = 0
      /\ Taken = delivered /\ Taken' = Taken + BlockSize /\ Total' = Total
      /\ read_bytes_left' = read_bytes_left - BlockSize
      /\ read_bytes_left' \in Nat /\ read_bytes_left' < read_bytes_left
      /\ read_bytes_left' > 0 => BlockSize = read_buffer_size
      /\ BlockSize \in 1..BufSize
  <2>1. TakeBlock
    BY DEF FetchPut
  <2> QED BY <2>1, <1>a, <1>k, Taking
<1>t. UNCHANGED <<ChildLives, Sent>>
  BY <1>a, <1>b DEF ChildLives, Sent
<1>n. /\ usb.end \in Nat /\ Total = Taken + read_bytes_left /\ Total <= usb.end
      /\ Taken \in Nat /\ read_bytes_left \in Nat /\ read_buffer_size \in Nat
      /\ BlockSize <= read_bytes_left /\ BlockSize <= read_buffer_size /\ BlockSize \in Nat
      /\ usb.end \in Positions
  BY CountFacts
<1>m. read_buffer.from \in Nat /\ read_buffer.fresh \in Nat
  BY <1>i, PositionsFacts DEF TypeOK
<1>h. /\ Whole(read_buffer.from, read_buffer.fresh) /\ Reached(read_buffer.from)
      /\ Continues(read_buffer.from + read_buffer.fresh)
  BY <1>i, <1>b, <1>k DEF Coming
<1>1. TypeOK'
  <2>1. read_bytes_left' \in Positions
    BY <1>x, <1>n, PositionsFacts
  <2>2. read_pos' \in 0..BufSize /\ read_bytes_in_buffer' \in 0..BufSize
    BY <1>x, WholeBuffer
  <2> QED BY <2>1, <2>2, <1>c, <1>a, <1>i DEF TypeOK, Channel!IInv
<1>2. Counts'
  BY <1>i, <1>a, <1>x DEF Counts
<1>3. ~ShortReads => InOrder'
  <2>1. ~ShortReads =>
          /\ read_buffer.from = Taken
          /\ read_buffer.fresh = Lesser(read_buffer_size, usb.end - Taken)
    BY <1>h DEF Whole, Reached
  <2>2. BlockSize <= Lesser(read_buffer_size, usb.end - Taken)
    BY <1>n DEF Lesser
  <2> QED BY <2>1, <2>2, <1>a, <1>x, <1>n, <1>m DEF InOrder
<1>4. Stages'
  BY <1>i, <1>a, <1>b, <1>k DEF Stages
<1>5. ChildCounts' /\ Row'
  BY <1>i, <1>a, <1>b, <1>t, <1>x DEF ChildCounts, Row, Whole, First, Bytes
<1>6. Coming'
  <2> DEFINE p == read_buffer.from + read_buffer.fresh
  <2>1. p \in Positions
    BY <1>h, <1>m, <1>n, PositionsFacts DEF Whole
  <2>2. Continues(p)'
    BY <1>h, <1>a, <1>b, <1>t DEF Continues, First
  <2>3. read_bytes_left' > 0 => Reached(p)'
    <3>1. read_buffer.fresh <= read_buffer_size /\ read_buffer.from <= Taken
      BY <1>h DEF Whole, Reached
    <3>2. ~ShortReads =>
            /\ read_buffer.from = Taken
            /\ read_buffer.fresh = Lesser(read_buffer_size, usb.end - Taken)
      BY <1>h DEF Whole, Reached
    <3>3. read_bytes_left' > 0 => Lesser(read_buffer_size, usb.end - Taken) = read_buffer_size
      BY <1>x, <1>n DEF Lesser
    <3>4. read_buffer'.from = read_buffer.from /\ read_buffer'.fresh = read_buffer.fresh
      BY <1>a
    <3> QED BY <3>1, <3>2, <3>3, <3>4, <1>x, <1>n, <1>m DEF Reached
  <2> HIDE DEF p
  <2>4. p' = p
    BY <1>a DEF p
  <2> QED BY <2>1, <2>2, <2>3, <2>4, <1>a, <1>b, PositionsFacts DEF Coming
<1>7. Raw'
  BY <1>a, <1>k DEF Raw
<1> QED BY <1>1, <1>2, <1>3, <1>4, <1>5, <1>6, <1>7, <1>c DEF IInv

\* A calibration scan reads as many whole transfers as hold the block.
LEMMA FetchRawStep ==
  ASSUME IInv, FetchRaw
  PROVE  IInv'
<1>i. /\ TypeOK /\ Channel!IInv /\ Counts /\ Stages /\ Raw
  BY DEF IInv
<1>a. /\ ~shm_channel /\ call = "loop" /\ call' = "loop"
      /\ read_bytes_in_buffer = 0 /\ BlockSize > 0
      /\ UNCHANGED channelVars
      /\ UNCHANGED <<left, left_to_read, byte_count, status, delivered>>
      /\ UNCHANGED <<read_active, final_scan, shm_channel, read_buffer_size, scans>>
  BY DEF FetchRaw, NeedsBlock, TakeBlock, deviceVars
<1>b. PICK n \in BulkReads(RoundUp(BlockSize)) :
        /\ read_buffer' = [from |-> usb.at, fresh |-> n]
        /\ usb' = [usb EXCEPT !.at = @ + n]
  BY DEF FetchRaw
<1>c. Channel!IInv' /\ UNCHANGED <<pcW, pcR>>
  BY <1>a, <1>i, ChannelStep DEF channelVars
<1>x. /\ read_bytes_in_buffer' = BlockSize /\ read_pos' = 0
      /\ Taken = delivered /\ Taken' = Taken + BlockSize /\ Total' = Total
      /\ read_bytes_left' = read_bytes_left - BlockSize
      /\ read_bytes_left' \in Nat /\ read_bytes_left' < read_bytes_left
      /\ read_bytes_left' > 0 => BlockSize = read_buffer_size
      /\ BlockSize \in 1..BufSize
  <2>1. TakeBlock
    BY DEF FetchRaw
  <2> QED BY <2>1, <1>a, Taking
<1>n. /\ usb.at \in Nat /\ usb.end \in Nat /\ usb.at <= usb.end /\ usb.end \in Positions
      /\ Total = Taken + read_bytes_left /\ Total <= usb.end
      /\ Taken \in Nat /\ read_bytes_left \in Nat /\ read_buffer_size \in Nat
      /\ BlockSize <= read_bytes_left /\ BlockSize <= read_buffer_size /\ BlockSize \in Nat
      /\ read_buffer_size <= BufSize
  BY CountFacts
<1>r. /\ RoundUp(BlockSize) \in Nat /\ BlockSize <= RoundUp(BlockSize)
      /\ RoundUp(BlockSize) <= read_buffer_size
  <2>1. RoundUp(read_buffer_size) = read_buffer_size
    BY <1>i DEF Counts
  <2> QED BY <2>1, <1>n, Rounding
<1>m. /\ n \in Nat /\ n <= RoundUp(BlockSize) /\ usb.at + n <= usb.end
      /\ ~ShortReads => n = Lesser(RoundUp(BlockSize), usb.end - usb.at)
  <2>1. Lesser(RoundUp(BlockSize), usb.end - usb.at) \in Nat
    BY <1>n, <1>r DEF Lesser
  <2>2. n \in Nat /\ n <= Lesser(RoundUp(BlockSize), usb.end - usb.at)
    BY <2>1, <1>b DEF BulkReads
  <2>3. ~ShortReads => n = Lesser(RoundUp(BlockSize), usb.end - usb.at)
    BY <1>b DEF BulkReads
  <2> QED BY <2>2, <2>3, <1>n, <1>r DEF Lesser
<1>u. usb'.at = usb.at + n /\ usb'.end = usb.end /\ usb' \in [at : Positions, end : Positions]
  <2>1. usb \in [at : Positions, end : Positions]
    BY <1>i DEF TypeOK
  <2>2. usb.at + n \in Positions
    BY <1>m, <1>n, PositionsFacts
  <2> QED BY <2>1, <2>2, <1>b
<1>g. /\ read_active /\ ~final_scan /\ Reached(usb.at)
  BY <1>i, <1>a, <1>n DEF Stages, Raw
<1>1. TypeOK'
  <2>1. read_bytes_left' \in Positions
    BY <1>x, <1>i, PositionsFacts DEF TypeOK
  <2>2. read_pos' \in 0..BufSize /\ read_bytes_in_buffer' \in 0..BufSize
    BY <1>x, WholeBuffer
  <2>3. read_buffer' \in [from : Positions, fresh : 0..BufSize]
    <3>1. usb.at \in Positions /\ n \in 0..BufSize
      BY <1>n, <1>m, <1>r, <1>i, WholeBuffer DEF TypeOK
    <3> QED BY <3>1, <1>b
  <2> QED BY <2>1, <2>2, <2>3, <1>u, <1>m, <1>c, <1>a, <1>i DEF TypeOK, Channel!IInv
<1>2. Counts'
  BY <1>i, <1>a, <1>x, <1>u DEF Counts
<1>3. ~ShortReads => InOrder'
  <2>1. ~ShortReads => usb.at = Taken
    BY <1>g DEF Reached
  <2>2. ~ShortReads => BlockSize <= n
    BY <2>1, <1>m, <1>n, <1>r DEF Lesser
  <2>3. read_buffer'.from = usb.at /\ read_buffer'.fresh = n
    BY <1>b
  <2> QED BY <2>1, <2>2, <2>3, <1>a, <1>x, <1>n, <1>m DEF InOrder
<1>4. Stages'
  BY <1>i, <1>a, <1>c, <1>g DEF Stages
<1>5. ChildCounts' /\ Row' /\ Coming'
  BY <1>a DEF ChildCounts, Row, Coming
<1>6. Raw'
  <2>1. read_bytes_left' > 0 => RoundUp(BlockSize) = read_buffer_size
    BY <1>x, <1>i DEF Counts
  <2>2. usb.at <= Taken /\ (~ShortReads => usb.at = Taken)
    BY <1>g DEF Reached
  <2>3. ~ShortReads /\ read_bytes_left' > 0 => n = read_buffer_size
    BY <2>1, <2>2, <1>m, <1>n, <1>x DEF Lesser
  <2>4. read_bytes_left' > 0 => Reached(usb.at)'
    BY <2>1, <2>2, <2>3, <1>x, <1>u, <1>m, <1>n, <1>a DEF Reached
  <2> QED BY <2>4 DEF Raw
<1> QED BY <1>1, <1>2, <1>3, <1>4, <1>5, <1>6, <1>c DEF IInv

\* What is copied to the caller was counted when its block was taken.
LEMMA TransferStep ==
  ASSUME IInv, Transfer
  PROVE  IInv'
<1>i. /\ TypeOK /\ Channel!IInv /\ Counts /\ Stages /\ ChildCounts /\ Row /\ Coming /\ Raw
      /\ ~ShortReads => InOrder
  BY DEF IInv
<1> DEFINE n == Lesser(left_to_read, read_bytes_in_buffer)
<1>a. /\ call = "loop" /\ n > 0 /\ call' = call
      /\ read_pos' = read_pos + n /\ read_bytes_in_buffer' = read_bytes_in_buffer - n
      /\ byte_count' = byte_count + n /\ left_to_read' = left_to_read - n
      /\ delivered' = delivered + n
      /\ UNCHANGED channelVars /\ UNCHANGED <<usb, left, read_bytes_left, read_buffer, status>>
      /\ UNCHANGED <<read_active, final_scan, shm_channel, read_buffer_size, scans>>
  BY DEF Transfer, deviceVars
<1>k. /\ left_to_read \in Nat /\ byte_count \in Nat
      /\ byte_count + left_to_read <= MaxOf(Requests)
  BY <1>i, Largest DEF TypeOK, Counts
<1>n. /\ read_bytes_in_buffer \in Nat /\ delivered \in Nat /\ read_pos \in Nat
      /\ read_bytes_left \in Nat /\ Total <= usb.end /\ usb.end \in Positions
      /\ Taken = delivered + read_bytes_in_buffer /\ Total = Taken + read_bytes_left
  BY CountFacts
<1>m. n \in Nat /\ n <= left_to_read /\ n <= read_bytes_in_buffer
  BY <1>k, <1>n DEF Lesser
<1> HIDE DEF n
<1>c. Channel!IInv'
  BY <1>a, <1>i, ChannelStep
<1>f. UNCHANGED <<buffers, buffer_bytes, writer_put_pipe, pcW, idW, bytesW, pcR, idR, bytesR>>
  BY <1>a DEF channelVars
<1>t. UNCHANGED <<Taken, Total, BlockSize, ChildLives, Sent>>
  BY <1>a, <1>f, <1>n, <1>m DEF Taken, Total, BlockSize, ChildLives, Sent
<1>1. TypeOK'
  <2>1. /\ read_pos' \in 0..BufSize /\ read_bytes_in_buffer' \in 0..BufSize
        /\ byte_count' \in 0..MaxOf(Requests) /\ left_to_read' \in 0..MaxOf(Requests)
    BY <1>a, <1>n, <1>m, <1>k, <1>i, WholeBuffer, Largest DEF Counts
  <2>2. delivered' \in Positions
    BY <1>a, <1>n, <1>m, PositionsFacts
  <2> QED BY <2>1, <2>2, <1>c, <1>a, <1>i DEF TypeOK, Channel!IInv
<1>2. Counts'
  <2>1. /\ read_pos' + read_bytes_in_buffer' = read_pos + read_bytes_in_buffer
        /\ byte_count' + left_to_read' = byte_count + left_to_read
    BY <1>a, <1>n, <1>m, <1>k
  <2> QED BY <2>1, <1>i, <1>a, <1>t DEF Counts
<1>3. ~ShortReads => InOrder'
  <2>1. /\ read_pos' + read_bytes_in_buffer' = read_pos + read_bytes_in_buffer
        /\ read_buffer.from \in Nat
    BY <1>a, <1>n, <1>m, <1>i, PositionsFacts DEF TypeOK
  <2>2. read_bytes_in_buffer > 0
    BY <1>a, <1>n, <1>m
  <2> QED BY <2>1, <2>2, <1>i, <1>a, <1>n, <1>m DEF InOrder
<1>4. Stages'
  BY <1>i, <1>a, <1>f, <1>t DEF Stages
<1>5. ChildCounts' /\ Row' /\ Raw'
  BY <1>i, <1>a, <1>f, <1>t DEF ChildCounts, Row, Raw, Whole, First, Bytes, Reached
<1>6. \A p : Continues(p) => Continues(p)'
  BY <1>f, <1>t DEF Continues, First
<1>7. Coming'
  BY <1>i, <1>a, <1>f, <1>t, <1>6 DEF Coming, Whole, Reached
<1> QED BY <1>1, <1>2, <1>3, <1>4, <1>5, <1>7, <1>c DEF IInv

-----------------------------------------------------------------------------
\* The child reads the next block into the buffer it holds, which is nobody else's.
LEMMA ChildReadRawStep ==
  ASSUME IInv, ChildReadRaw
  PROVE  IInv'
<1>i. /\ TypeOK /\ Channel!IInv /\ Counts /\ Stages /\ ChildCounts /\ Row /\ Coming /\ Raw
      /\ ~ShortReads => InOrder
  BY DEF IInv
<1>a. PICK n \in BulkReads(read_buffer_size) :
        /\ Channel!WriterFill(usb.at, n)
        /\ usb' = [usb EXCEPT !.at = @ + n]
        /\ UNCHANGED <<left, parentVars>>
  BY DEF ChildReadRaw
<1>f. UNCHANGED <<left, read_active, final_scan, shm_channel, read_buffer_size,
                  read_bytes_left, read_pos, read_bytes_in_buffer, read_buffer, call,
                  left_to_read, byte_count, status, delivered, scans>>
  BY <1>a DEF parentVars
<1>b. /\ pcW = "fill" /\ pcW' = "put" /\ bytesW' = n
      /\ buffers' = [buffers EXCEPT ![idW] = usb.at]
      /\ UNCHANGED <<idW, buffer_bytes, writer_put_pipe, pcR, idR, bytesR>>
  BY <1>a DEF Channel!WriterFill, Channel!readerVars
<1>n. /\ usb.at \in Nat /\ usb.end \in Nat /\ usb.at <= usb.end /\ usb.end \in Positions
      /\ read_buffer_size \in Nat /\ read_buffer_size <= BufSize
  BY CountFacts
<1>m. /\ n \in 1..BufSize /\ n <= read_buffer_size /\ usb.at + n <= usb.end
      /\ ~ShortReads => n = Lesser(read_buffer_size, usb.end - usb.at)
  <2>1. Lesser(read_buffer_size, usb.end - usb.at) \in Nat
    BY <1>n DEF Lesser
  <2>2. n \in Nat \ {0} /\ n <= Lesser(read_buffer_size, usb.end - usb.at)
    BY <2>1 DEF BulkReads
  <2>3. ~ShortReads => n = Lesser(read_buffer_size, usb.end - usb.at)
    BY DEF BulkReads
  <2> QED BY <2>2, <2>3, <1>n, WholeBuffer DEF Lesser
<1>c. Channel!IInv'
  <2>1. usb.at \in Positions
    BY <1>i DEF TypeOK
  <2>2. \E d \in Positions, m \in 1..BufSize : Channel!WriterFill(d, m)
    BY <2>1, <1>m, <1>a
  <2> QED BY <2>2, <1>i, ChannelStep DEF Channel!Next, Channel!WriterStep
<1>p. /\ \A k \in 1..Len(writer_put_pipe) :
           writer_put_pipe[k] \in Channel!Ids /\ writer_put_pipe[k] # idW
      /\ Len(writer_put_pipe) \in Nat
      /\ idW \in Channel!Ids /\ idW # idR
      /\ pcR \in {"use", "put"} => idR \in Channel!Ids
  BY <1>i, <1>b, PipeFacts
<1>d. /\ buffers'[idW] = usb.at
      /\ \A b \in Channel!Ids : b # idW => buffers'[b] = buffers[b]
  <2>1. Channel!TypeOK
    BY <1>i DEF Channel!IInv
  <2>2. buffers \in [Channel!Ids -> Positions \cup {NoPosition}]
    BY <2>1 DEF Channel!TypeOK
  <2> QED BY <2>2, <1>p, <1>b
<1>e. /\ \A k \in 1..Len(writer_put_pipe) : First(k)' = First(k) /\ Bytes(k)' = Bytes(k)
      /\ pcR \in {"use", "put"} => buffers'[idR] = buffers[idR]
  BY <1>d, <1>p, <1>b DEF First, Bytes
<1>u. usb'.at = usb.at + n /\ usb'.end = usb.end /\ usb' \in [at : Positions, end : Positions]
  <2>1. usb \in [at : Positions, end : Positions]
    BY <1>i DEF TypeOK
  <2>2. usb.at + n \in Positions
    BY <1>m, <1>n, PositionsFacts
  <2> QED BY <2>1, <2>2, <1>a
<1>t. UNCHANGED <<Taken, Total, BlockSize>>
  BY <1>f DEF Taken, Total, BlockSize
<1>s. Sent = usb.at /\ Sent' = usb.at /\ ChildLives /\ ChildLives'
  BY <1>b, <1>u, <1>m, <1>n DEF Sent, ChildLives
<1>g. shm_channel /\ final_scan
  BY <1>i, <1>b DEF Stages
<1>1. TypeOK'
  BY <1>c, <1>f, <1>u, <1>m, <1>i DEF TypeOK, Channel!IInv
<1>2. Counts' /\ Raw' /\ (~ShortReads => InOrder')
  BY <1>i, <1>f, <1>t, <1>u, <1>g DEF Counts, Raw, InOrder
<1>3. Stages'
  BY <1>i, <1>f, <1>t, <1>b, <1>g DEF Stages
<1>4. ChildCounts'
  BY <1>i, <1>f, <1>t, <1>s DEF ChildCounts
<1>5. Row'
  <2>1. buffers'[idW'] = Sent' /\ Whole(Sent, bytesW)'
    BY <1>b, <1>d, <1>s, <1>m, <1>u, <1>f DEF Whole
  <2>2. \A k \in 1..Len(writer_put_pipe) : Whole(First(k), Bytes(k))'
    BY <1>i, <1>g, <1>e, <1>u, <1>f DEF Row, Whole
  <2>3. \A k \in 1..(Len(writer_put_pipe) - 1) : First(k + 1)' = First(k)' + Bytes(k)'
    <3>1. \A k \in 1..(Len(writer_put_pipe) - 1) :
             k \in 1..Len(writer_put_pipe) /\ k + 1 \in 1..Len(writer_put_pipe)
      BY <1>p
    <3> QED BY <3>1, <1>i, <1>g, <1>e DEF Row
  <2>4. writer_put_pipe # <<>> =>
          First(Len(writer_put_pipe))' + Bytes(Len(writer_put_pipe))' = Sent
    <3>1. writer_put_pipe # <<>> => Len(writer_put_pipe) \in 1..Len(writer_put_pipe)
      BY <1>i, <1>p, PipeFacts, EmptySeq
    <3>2. writer_put_pipe # <<>> =>
            First(Len(writer_put_pipe)) + Bytes(Len(writer_put_pipe)) = Sent
      BY <1>i, <1>g, <1>s DEF Row
    <3> QED BY <3>1, <3>2, <1>e, <1>b DEF First, Bytes
  <2> QED BY <2>1, <2>2, <2>3, <2>4, <1>b, <1>s DEF Row, First, Bytes
<1>6. \A p : Continues(p) => Continues(p)'
  <2>1. writer_put_pipe # <<>> => 1 \in 1..Len(writer_put_pipe)
    BY <1>i, <1>p, PipeFacts, EmptySeq
  <2> QED BY <2>1, <1>e, <1>b, <1>s DEF Continues
<1>7. Coming'
  <2>1. \A p, m \in Nat : Whole(p, m) => Whole(p, m)'
    BY <1>u, <1>f DEF Whole
  <2>2. /\ pcR = "use" => /\ Whole(buffers[idR], bytesR)' /\ Reached(buffers[idR])'
                          /\ Continues(buffers[idR] + bytesR)'
    BY <1>i, <1>g, <1>b, <1>e, <1>t, <1>u, <1>f, <1>6 DEF Coming, Whole, Reached
  <2>3. /\ pcR = "put" => /\ Whole(read_buffer.from, read_buffer.fresh)'
                          /\ Reached(read_buffer.from)'
                          /\ Continues(read_buffer.from + read_buffer.fresh)'
    BY <1>i, <1>g, <1>b, <1>t, <1>u, <1>f, <1>6 DEF Coming, Whole, Reached
  <2>4. pcR \notin {"use", "put"} /\ read_bytes_left > 0 =>
          \E p \in Positions : Reached(p)' /\ Continues(p)'
    BY <1>i, <1>g, <1>t, <1>6 DEF Coming, Reached
  <2> QED BY <2>2, <2>3, <2>4, <1>b, <1>f DEF Coming
<1> QED BY <1>1, <1>2, <1>3, <1>4, <1>5, <1>6, <1>7, <1>c DEF IInv

\* shm_channel_writer_put_buffer: the count goes to shared memory.
LEMMA ChildPutBytesStep ==
  ASSUME IInv, Channel!WriterPutBytes, UNCHANGED <<usb, left, parentVars>>
  PROVE  IInv'
<1>i. /\ TypeOK /\ Channel!IInv /\ Counts /\ Stages /\ ChildCounts /\ Row /\ Coming /\ Raw
      /\ ~ShortReads => InOrder
  BY DEF IInv
<1>f. UNCHANGED <<usb, left, read_active, final_scan, shm_channel, read_buffer_size,
                  read_bytes_left, read_pos, read_bytes_in_buffer, read_buffer, call,
                  left_to_read, byte_count, status, delivered, scans>>
  BY DEF parentVars
<1>b. /\ pcW = "put" /\ pcW' = "send"
      /\ buffer_bytes' = [buffer_bytes EXCEPT ![idW] = bytesW]
      /\ UNCHANGED <<idW, bytesW, buffers, writer_put_pipe, pcR, idR, bytesR>>
  BY DEF Channel!WriterPutBytes, Channel!readerVars
<1>c. Channel!IInv'
  BY <1>i, ChannelStep DEF Channel!Next, Channel!WriterStep
<1>p. /\ \A k \in 1..Len(writer_put_pipe) :
           writer_put_pipe[k] \in Channel!Ids /\ writer_put_pipe[k] # idW
      /\ Len(writer_put_pipe) \in Nat
  BY <1>i, <1>b, PipeFacts
<1>d. \A b \in Channel!Ids : b # idW => buffer_bytes'[b] = buffer_bytes[b]
  <2>1. buffer_bytes \in [Channel!Ids -> 0..BufSize]
    BY <1>i DEF Channel!IInv, Channel!TypeOK
  <2> QED BY <2>1, <1>b
<1>e. \A k \in 1..Len(writer_put_pipe) : First(k)' = First(k) /\ Bytes(k)' = Bytes(k)
  BY <1>d, <1>p, <1>b DEF First, Bytes
<1>t. UNCHANGED <<Taken, Total, BlockSize>> /\ UNCHANGED <<Sent, ChildLives>>
  BY <1>f, <1>b DEF Taken, Total, BlockSize, Sent, ChildLives
<1>1. TypeOK'
  BY <1>c, <1>f, <1>i DEF TypeOK, Channel!IInv
<1>2. Counts' /\ Raw' /\ (~ShortReads => InOrder')
  BY <1>i, <1>f, <1>t DEF Counts, Raw, InOrder, Reached
<1>3. Stages' /\ ChildCounts'
  BY <1>i, <1>f, <1>t, <1>b DEF Stages, ChildCounts
<1>5. Row'
  <2> SUFFICES ASSUME shm_channel PROVE Row'
    BY <1>f DEF Row
  <2>1. buffers'[idW'] = Sent' /\ Whole(Sent, bytesW)'
    BY <1>i, <1>b, <1>t, <1>f DEF Row, Whole
  <2>2. \A k \in 1..Len(writer_put_pipe) : Whole(First(k), Bytes(k))'
    BY <1>i, <1>e, <1>f DEF Row, Whole
  <2>3. \A k \in 1..(Len(writer_put_pipe) - 1) : First(k + 1)' = First(k)' + Bytes(k)'
    <3>1. \A k \in 1..(Len(writer_put_pipe) - 1) :
             k \in 1..Len(writer_put_pipe) /\ k + 1 \in 1..Len(writer_put_pipe)
      BY <1>p
    <3> QED BY <3>1, <1>i, <1>e DEF Row
  <2>4. ChildLives /\ writer_put_pipe # <<>> =>
          First(Len(writer_put_pipe))' + Bytes(Len(writer_put_pipe))' = Sent
    <3>1. writer_put_pipe # <<>> => Len(writer_put_pipe) \in 1..Len(writer_put_pipe)
      BY <1>i, <1>p, PipeFacts, EmptySeq
    <3> QED BY <3>1, <1>i, <1>e, <1>b DEF Row, First, Bytes
  <2> QED BY <2>1, <2>2, <2>3, <2>4, <1>b, <1>t DEF Row, First, Bytes
<1>6. \A p : Continues(p) => Continues(p)'
  BY <1>b, <1>t DEF Continues, First
<1>7. Coming'
  BY <1>i, <1>b, <1>t, <1>f, <1>6 DEF Coming, Whole, Reached
<1> QED BY <1>1, <1>2, <1>3, <1>5, <1>7, <1>c DEF IInv

\* The child's count modulo SizeMod follows what it has sent, also past the Total.
LEMMA Countdown ==
  ASSUME IInv, NEW s \in Nat, NEW n \in Nat, s + n <= usb.end,
         NEW l, l = IF s <= Total THEN Total - s ELSE SizeMod - (s - Total)
  PROVE  (l - n) % SizeMod = IF s + n <= Total THEN Total - (s + n)
                             ELSE SizeMod - (s + n - Total)
<1>n. /\ usb.end \in Nat /\ usb.end < SizeMod /\ SizeMod \in Nat /\ Total \in Nat
      /\ Total <= usb.end
  BY CountFacts
<1>1. CASE s + n <= Total
  <2>1. l - n = Total - (s + n) /\ l - n \in 0..(SizeMod - 1)
    BY <1>1, <1>n
  <2> QED BY <2>1, <1>1, Wraps
<1>2. CASE s <= Total /\ Total < s + n
  <2>1. l - n = Total - (s + n) /\ l - n \in (-SizeMod)..(-1) /\ l - n \in Int
    BY <1>2, <1>n
  <2> QED BY <2>1, <1>2, <1>n, Wraps
<1>3. CASE Total < s
  <2>1. l - n = SizeMod - (s + n - Total) /\ l - n \in 0..(SizeMod - 1)
    BY <1>3, <1>n
  <2> QED BY <2>1, <1>3, <1>n, Wraps
<1> QED BY <1>1, <1>2, <1>3, <1>n

\* The identifier goes down the pipe and the child's count goes down.
LEMMA ChildPutIdStep ==
  ASSUME IInv, Channel!WriterPutId, left' = (left - bytesW) % SizeMod,
         UNCHANGED <<usb, parentVars>>
  PROVE  IInv'
<1>i. /\ TypeOK /\ Channel!IInv /\ Counts /\ Stages /\ ChildCounts /\ Row /\ Coming /\ Raw
      /\ ~ShortReads => InOrder
  BY DEF IInv
<1>f. UNCHANGED <<usb, read_active, final_scan, shm_channel, read_buffer_size,
                  read_bytes_left, read_pos, read_bytes_in_buffer, read_buffer, call,
                  left_to_read, byte_count, status, delivered, scans>>
  BY DEF parentVars
<1>b. /\ pcW = "send"
      /\ UNCHANGED <<bytesW, buffers, buffer_bytes, pcR, idR, bytesR>>
      /\ \/ /\ writer_put_pipe' = Append(writer_put_pipe, idW)
            /\ pcW' = "get"
         \/ pcW' = "gone" /\ UNCHANGED <<writer_put_pipe, idW>>
  BY DEF Channel!WriterPutId, Channel!WriterGone, Channel!readerVars, Channel!memVars
<1>c. Channel!IInv'
  BY <1>i, ChannelStep DEF Channel!Next, Channel!WriterStep
<1>n. /\ usb.end \in Nat /\ usb.at \in Nat /\ usb.at <= usb.end /\ Total \in Nat
      /\ usb.end < SizeMod /\ SizeMod \in Nat /\ Total <= usb.end
  BY CountFacts
<1>g. shm_channel /\ final_scan
  BY <1>i, <1>b DEF Stages
<1>h. /\ buffers[idW] = Sent /\ buffer_bytes[idW] = bytesW /\ Whole(Sent, bytesW)
      /\ Sent \in Nat /\ bytesW \in 1..BufSize
  <2>1. /\ buffers[idW] \in Positions /\ bytesW \in 1..BufSize
        /\ buffer_bytes[idW] = bytesW
    BY <1>i, <1>b DEF Channel!IInv, Channel!Contents
  <2> QED BY <2>1, <1>i, <1>b, <1>g, PositionsFacts DEF Row
<1>s. ChildLives /\ Sent = usb.at - bytesW /\ Sent' = usb.at /\ Sent' = Sent + bytesW
  BY <1>b, <1>f, <1>h, <1>n, WholeBuffer DEF ChildLives, Sent
<1>t. UNCHANGED <<Taken, Total, BlockSize>>
  BY <1>f DEF Taken, Total, BlockSize
<1>p. /\ writer_put_pipe \in Seq(Channel!Ids) /\ Len(writer_put_pipe) \in Nat
      /\ idW \in Channel!Ids
  BY <1>i, <1>b, PipeFacts
<1>l. left' = IF Sent' <= Total THEN Total - Sent' ELSE SizeMod - (Sent' - Total)
  <2>1. left = IF Sent <= Total THEN Total - Sent ELSE SizeMod - (Sent - Total)
    BY <1>i, <1>g, <1>s DEF ChildCounts
  <2>2. bytesW \in Nat /\ Sent + bytesW <= usb.end
    BY <1>h, <1>s, <1>n, WholeBuffer
  <2>3. (left - bytesW) % SizeMod =
          IF Sent + bytesW <= Total THEN Total - (Sent + bytesW)
          ELSE SizeMod - (Sent + bytesW - Total)
    BY <2>1, <2>2, <1>h, Countdown
  <2>4. left' = IF Sent + bytesW <= Total THEN Total - (Sent + bytesW)
                ELSE SizeMod - (Sent + bytesW - Total)
    BY <2>3, Zenon
  <2>5. Sent' = Sent + bytesW
    BY <1>s
  <2> QED BY <2>4, <2>5, <1>n, <1>h, WholeBuffer, SMT
<1>1. TypeOK'
  <2>1. left' \in 0..(SizeMod - 1)
    BY <1>l, <1>s, <1>n
  <2> QED BY <2>1, <1>c, <1>f, <1>i DEF TypeOK, Channel!IInv
<1>2. Counts' /\ Raw' /\ (~ShortReads => InOrder')
  BY <1>i, <1>f, <1>t DEF Counts, Raw, InOrder, Reached
<1>3. Stages'
  BY <1>i, <1>f, <1>t, <1>b DEF Stages
<1>4. ChildCounts'
  BY <1>l, <1>t DEF ChildCounts
<1>5. CASE pcW' = "gone" /\ UNCHANGED <<writer_put_pipe, idW>>
  <2>1. Row'
    BY <1>5, <1>i, <1>b, <1>f DEF Row, Whole, First, Bytes, ChildLives
  <2>2. \A p : Continues(p) => Continues(p)'
    BY <1>5, <1>b DEF Continues, First, ChildLives
  <2>3. Coming'
    BY <2>2, <1>i, <1>b, <1>t, <1>f DEF Coming, Whole, Reached
  <2> QED BY <2>1, <2>3, <1>1, <1>2, <1>3, <1>4, <1>c DEF IInv
<1>6. CASE writer_put_pipe' = Append(writer_put_pipe, idW) /\ pcW' = "get"
  <2>1. PICK m \in Nat : m = Len(writer_put_pipe)
    BY <1>p
  <2>2. /\ Len(writer_put_pipe') = m + 1 /\ writer_put_pipe' # <<>>
        /\ \A k \in 1..m : writer_put_pipe'[k] = writer_put_pipe[k]
        /\ writer_put_pipe'[m + 1] = idW
    BY <2>1, <1>p, <1>6, AppendProperties
  <2>3. /\ \A k \in 1..m : First(k)' = First(k) /\ Bytes(k)' = Bytes(k)
        /\ First(m + 1)' = Sent /\ Bytes(m + 1)' = bytesW
    BY <2>2, <1>b, <1>h DEF First, Bytes
  <2>4. \A k \in 1..(m + 1) : Whole(First(k), Bytes(k))'
    <3>1. \A k \in 1..m : Whole(First(k), Bytes(k))'
      BY <2>1, <2>3, <1>i, <1>g, <1>f DEF Row, Whole
    <3>2. Whole(First(m + 1), Bytes(m + 1))'
      BY <2>3, <1>h, <1>f DEF Whole
    <3>3. \A k \in 1..(m + 1) : k \in 1..m \/ k = m + 1
      BY <2>1
    <3> QED BY <3>1, <3>2, <3>3
  <2>5. m # 0 => First(m) + Bytes(m) = Sent
    <3>1. m # 0 => writer_put_pipe # <<>>
      BY <2>1, <1>p, EmptySeq
    <3> QED BY <3>1, <2>1, <1>i, <1>g, <1>s DEF Row
  <2>6. \A k \in 1..m : First(k + 1)' = First(k)' + Bytes(k)'
    <3>1. \A k \in 1..(m - 1) : First(k + 1)' = First(k)' + Bytes(k)'
      <4>1. \A k \in 1..(m - 1) : k \in 1..m /\ k + 1 \in 1..m
        BY <2>1
      <4> QED BY <4>1, <2>1, <2>3, <1>i, <1>g DEF Row
    <3>2. m # 0 => First(m + 1)' = First(m)' + Bytes(m)'
      BY <2>1, <2>3, <2>5
    <3>3. \A k \in 1..m : k \in 1..(m - 1) \/ (k = m /\ m # 0)
      BY <2>1
    <3> QED BY <3>1, <3>2, <3>3
  <2>7. Row'
    <3>1. First(m + 1)' + Bytes(m + 1)' = Sent'
      BY <2>3, <1>s
    <3>2. (m + 1) - 1 = m
      BY <2>1
    <3> QED BY <3>1, <3>2, <2>2, <2>4, <2>6, <1>6 DEF Row, First, Bytes
  <2>8. \A p : Continues(p) => Continues(p)'
    <3>1. m = 0 => \A p : Continues(p) => p = Sent
      BY <2>1, <1>p, <1>s, EmptySeq DEF Continues
    <3>2. m # 0 => \A p : Continues(p) => p = First(1)
      BY <2>1, <1>p, EmptySeq DEF Continues
    <3>3. m # 0 => 1 \in 1..m
      BY <2>1
    <3>4. \A p : Continues(p) => p = First(1)'
      BY <3>1, <3>2, <3>3, <2>3
    <3> QED BY <3>4, <2>2 DEF Continues
  <2>9. Coming'
    BY <2>8, <1>i, <1>b, <1>t, <1>f DEF Coming, Whole, Reached
  <2> QED BY <2>7, <2>9, <1>1, <1>2, <1>3, <1>4, <1>c DEF IInv
<1> QED BY <1>5, <1>6, <1>b

-----------------------------------------------------------------------------
\* Every step of either process keeps IInv.
LEMMA StepIInv == IInv /\ [Next]_vars => IInv'
<1> SUFFICES ASSUME IInv, [Next]_vars PROVE IInv'
  OBVIOUS
<1>1. CASE \E n \in Expected, final \in BOOLEAN : ReadPrepare(n, final)
  BY <1>1, ReadPrepareStep
<1>2. CASE \/ \E size \in Requests : Read(size)
           \/ FetchEof \/ FetchRawFails \/ ReadReturn
  BY <1>2, CallSteps
<1>3. CASE ReadStart
  BY <1>3, ReadStartStep
<1>4. CASE ReadFinish
  BY <1>4, ReadFinishStep
<1>5. CASE FetchGet \/ FetchCopy \/ FetchPut \/ FetchRaw \/ Transfer
  BY <1>5, FetchGetStep, FetchCopyStep, FetchPutStep, FetchRawStep, TransferStep
<1>6. CASE ReadStarting \/ ChildInit \/ ChildGet \/ ChildReadFails \/ ChildClose \/ ChildExit
  BY <1>6, QuietSteps
<1>7. CASE ChildReadRaw
  BY <1>7, ChildReadRawStep
<1>8. CASE ChildPut
  <2>1. CASE Channel!WriterPutBytes /\ UNCHANGED <<usb, left, parentVars>>
    BY <2>1, ChildPutBytesStep
  <2>2. CASE /\ Channel!WriterPutId /\ left' = (left - bytesW) % SizeMod
             /\ UNCHANGED <<usb, parentVars>>
    BY <2>2, ChildPutIdStep
  <2> QED BY <1>8, <2>1, <2>2 DEF ChildPut
<1>9. CASE Finished \/ UNCHANGED vars
  <2>1. UNCHANGED vars
    BY <1>9 DEF Finished
  <2> QED BY <2>1, CallSteps
<1> QED BY <1>1, <1>2, <1>3, <1>4, <1>5, <1>6, <1>7, <1>8, <1>9
        DEF Next, ReadStep, ChildStep

\* From shm_channel_new of the first scan to the free of the last.
THEOREM Invariance == Spec => []IInv
BY InitIInv, StepIInv, PTL DEF Spec

\* No count of gt68xx_device_read goes below zero, none is larger than the buffer, the
\* request or the image it counts, and the scanner is asked for no byte past the last.
THEOREM TypeCorrect == Spec => []TypeOK
<1>1. IInv => TypeOK
  BY DEF IInv
<1> QED BY <1>1, Invariance, PTL

\* When every bulk read gives all it was asked for, gt68xx_device_read delivers the
\* bytes of the scan once and in order, for every size of block and of request.
THEOREM BytesInOrder ==
  ASSUME ShortReads = FALSE
  PROVE  Spec => []InOrder
<1>1. IInv => InOrder
  BY DEF IInv
<1> QED BY <1>1, Invariance, PTL

\* The test that ends the loop of gt68xx_reader_process and the one that ends the
\* loop of gt68xx_device_read agree, short bulk reads or not: the parent asks for no
\* block after the child has sent the last.
THEOREM NoWaitOnSleep == Spec => []NoWaitOnSleepingChild
<1>1. IInv => NoWaitOnSleepingChild
  <2> SUFFICES ASSUME IInv, NeedsBlock, shm_channel, writer_put_pipe = <<>>, left = 0,
                      pcW = "get"
               PROVE  FALSE
    BY DEF NoWaitOnSleepingChild
  <2>1. ChildLives /\ pcR \in {"get", "eof"}
    BY DEF NeedsBlock, ChildLives, IInv, Stages
  <2>2. /\ Taken \in Nat /\ Total \in Nat /\ Total = Taken + read_bytes_left
        /\ read_bytes_left > 0 /\ read_bytes_left \in Nat
    BY CountFacts DEF NeedsBlock
  <2>3. PICK p \in Positions : Reached(p) /\ Continues(p)
    BY <2>1, <2>2 DEF IInv, Coming
  <2>4. p \in Nat /\ Sent = p /\ p <= Taken
    BY <2>1, <2>3, PositionsFacts DEF Continues, Reached
  <2>5. left = Total - Sent
    BY <2>1, <2>2, <2>4 DEF IInv, ChildCounts
  <2> QED BY <2>2, <2>4, <2>5
<1> QED BY <1>1, Invariance, PTL

\* The two processes never touch one buffer at the same time, and the frontend is
\* not killed by SIGPIPE, however often scans are started and cut off.
THEOREM ChannelKept == Spec => [](Channel!Ownership /\ Channel!ReaderNeverSigpipe)
<1>1. IInv => Channel!Ownership /\ Channel!ReaderNeverSigpipe
  BY DEF IInv, Channel!IInv
<1> QED BY <1>1, Invariance, PTL
=============================================================================
