------------------------- MODULE ShmChannel_proofs -------------------------
(***************************************************************************)
(* Proofs about ShmChannel for every buf_count, buf_size and payload: the  *)
(* inductive invariant IInv, the safety properties it implies, and the     *)
(* refinement of BoundedFifo.                                              *)
(***************************************************************************)
EXTENDS ShmChannel, QueueLemmas

USE BufCountAssumption, BufSizeAssumption, NoDataAssumption,
    CapacityAssumption

\* The identifiers are those of shm_channel_new: below buf_count, and -1
\* (here NoId) is not one of them.
LEMMA IdsFacts == /\ BufCount \in Nat \ {0} /\ NoId \notin Ids
                  /\ \A b \in Nat : b < BufCount => b \in Ids
BY DEF Ids, NoId

LEMMA AppendId ==
  ASSUME NEW s \in Seq(Ids), NEW b \in Ids
  PROVE  Append(s, b) \in Seq(Ids)
BY AppendProperties

-----------------------------------------------------------------------------
\* After fork() no identifier has been issued and both processes have all four
\* descriptors open.
LEMMA InitIInv == Init => IInv
<1> SUFFICES ASSUME Init PROVE IInv
  OBVIOUS
<1> USE DEF Init
<1>1. TypeOK
  BY IdsFacts DEF TypeOK, Fds, NoId
<1>2. Range(reader_put_pipe) = {} /\ Range(writer_put_pipe) = {}
  BY DEF Range
<1>3. Ownership
  BY <1>2 DEF Ownership, Unissued, Free, Filled, HeldW, HeldR, IsInjective, Ids
<1>4. ReaderNeverSigpipe /\ Holding /\ Descriptors
  BY DEF ReaderNeverSigpipe, Holding, Descriptors, Fds
<1>5. Contents
  BY <1>2 DEF Contents, Filled
<1> QED BY <1>1, <1>3, <1>4, <1>5 DEF IInv

\* Every step of either process keeps the types.
LEMMA TypeStep == IInv /\ [Next]_vars => TypeOK'
<1> SUFFICES ASSUME IInv, [Next]_vars PROVE TypeOK'
  OBVIOUS
<1>t. TypeOK /\ Ownership /\ ReaderNeverSigpipe /\ Holding /\ Descriptors /\ Contents
  BY DEF IInv
<1> USE <1>t, IdsFacts DEF TypeOK, Fds
<1>1. CASE WriterInit
  BY <1>1 DEF WriterInit, readerVars, memVars
<1>2. CASE WriterGetBuffer
  BY <1>2, HeadTailProperties DEF WriterGetBuffer, readerVars, memVars
<1>3. CASE WriterGetEof
  BY <1>3 DEF WriterGetEof, WriterGone, readerVars, memVars
<1>4. ASSUME NEW d \in Data, NEW n \in 1..BufSize, WriterFill(d, n) PROVE TypeOK'
  <2>1. buffers' \in [Ids -> Data \cup {NoData}]
    BY <1>4 DEF WriterFill
  <2>2. bytesW' \in 0..BufSize
    BY <1>4 DEF WriterFill
  <2> QED BY <1>4, <2>1, <2>2 DEF WriterFill, readerVars
<1>5. CASE WriterPutBytes
  BY <1>5 DEF WriterPutBytes, readerVars
<1>6. CASE WriterPutId
  <2>1. CASE IsOpen(WriterPut0)
    <3>1. idW \in Ids
      BY <1>6 DEF WriterPutId, Holding
    <3>2. writer_put_pipe' = Append(writer_put_pipe, idW)
      BY <1>6, <2>1 DEF WriterPutId
    <3>3. writer_put_pipe' \in Seq(Ids)
      BY <3>1, <3>2, AppendId
    <3> QED BY <1>6, <2>1, <3>3 DEF WriterPutId, readerVars, memVars
  <2>2. CASE ~IsOpen(WriterPut0)
    BY <1>6, <2>2 DEF WriterPutId, WriterGone, readerVars, memVars
  <2> QED BY <2>1, <2>2
<1>7. CASE WriterClose
  BY <1>7 DEF WriterClose, readerVars, memVars
<1>8. CASE WriterExit
  BY <1>8 DEF WriterExit, WriterGone, readerVars, memVars
<1>9. CASE WriterDie
  BY <1>9 DEF WriterDie, WriterGone, readerVars, memVars
<1>10. CASE ReaderInit
  BY <1>10 DEF ReaderInit, writerVars, memVars
<1>11. CASE ReaderStart
  <2>1. issued \in Ids /\ issued' \in 0..BufCount
    BY <1>11 DEF ReaderStart, Ids
  <2>2. CASE IsOpen(ReaderPut0)
    <3>1. reader_put_pipe' = Append(reader_put_pipe, issued)
      BY <1>11, <2>2 DEF ReaderStart, SendFree
    <3>2. reader_put_pipe' \in Seq(Ids)
      BY <2>1, <3>1, AppendId
    <3> QED BY <1>11, <2>1, <2>2, <3>2 DEF ReaderStart, SendFree, writerVars, memVars
  <2>3. CASE ~IsOpen(ReaderPut0)
    BY <1>11, <2>1, <2>3 DEF ReaderStart, SendFree, writerVars, memVars
  <2> QED BY <2>2, <2>3
<1>12. CASE ReaderGetBuffer
  <2>1. Head(writer_put_pipe) \in Ids /\ writer_put_pipe' \in Seq(Ids)
    BY <1>12, HeadTailProperties DEF ReaderGetBuffer
  <2> QED BY <1>12, <2>1 DEF ReaderGetBuffer, writerVars, memVars
<1>13. CASE ReaderGetEof
  BY <1>13 DEF ReaderGetEof, writerVars, memVars
<1>14. CASE ReaderUse
  <2>1. idR \in Ids
    BY <1>14 DEF ReaderUse, Holding
  <2> QED BY <1>14, <2>1 DEF ReaderUse, writerVars, memVars
<1>15. CASE ReaderPutBuffer
  <2>1. idR \in Ids
    BY <1>15 DEF ReaderPutBuffer, Holding
  <2>2. CASE IsOpen(ReaderPut0)
    <3>1. reader_put_pipe' = Append(reader_put_pipe, idR)
      BY <1>15, <2>2 DEF ReaderPutBuffer, SendFree
    <3>2. reader_put_pipe' \in Seq(Ids)
      BY <2>1, <3>1, AppendId
    <3> QED BY <1>15, <2>2, <3>2 DEF ReaderPutBuffer, SendFree, writerVars, memVars
  <2>3. CASE ~IsOpen(ReaderPut0)
    BY <1>15, <2>3 DEF ReaderPutBuffer, SendFree, writerVars, memVars
  <2> QED BY <2>2, <2>3
<1>16. CASE ReaderFree
  BY <1>16 DEF ReaderFree, writerVars, memVars
<1>17. CASE ReaderDie
  BY <1>17 DEF ReaderDie, writerVars, memVars
<1>18. CASE UNCHANGED vars
  BY <1>18 DEF vars, writerVars, readerVars, memVars
<1> QED BY <1>1, <1>2, <1>3, <1>4, <1>5, <1>6, <1>7, <1>8, <1>9, <1>10, <1>11,
           <1>12, <1>13, <1>14, <1>15, <1>16, <1>17, <1>18
        DEF Next, WriterStep, ReaderStep, BothEnded

-----------------------------------------------------------------------------
\* The identifiers in a pipe are buffers.
LEMMA PlacesAreIds == TypeOK => Free \subseteq Ids /\ Filled \subseteq Ids
<1> SUFFICES ASSUME TypeOK PROVE Free \subseteq Ids /\ Filled \subseteq Ids
  OBVIOUS
<1>1. reader_put_pipe \in Seq(Ids) /\ writer_put_pipe \in Seq(Ids)
  BY DEF TypeOK
<1> QED BY <1>1, RangeOfSeq DEF Free, Filled

\* Only five steps move an identifier, each from one place to the next.
LEMMA OwnershipStep == IInv /\ [Next]_vars => Ownership'
<1> SUFFICES ASSUME IInv, [Next]_vars PROVE Ownership'
  OBVIOUS
<1>t. TypeOK /\ Ownership /\ ReaderNeverSigpipe /\ Holding /\ Descriptors
  BY DEF IInv
<1>s. /\ reader_put_pipe \in Seq(Ids) /\ writer_put_pipe \in Seq(Ids)
      /\ IsInjective(reader_put_pipe) /\ IsInjective(writer_put_pipe)
      /\ idW \in Ids \cup {NoId} /\ idR \in Ids \cup {NoId}
      /\ issued \in 0..BufCount
  BY <1>t DEF TypeOK, Ownership
<1>o. /\ Unissued \cup Free \cup HeldW \cup Filled \cup HeldR = Ids
      /\ Unissued \cap (Free \cup HeldW \cup Filled \cup HeldR) = {}
      /\ Free \cap (HeldW \cup Filled \cup HeldR) = {}
      /\ HeldW \cap (Filled \cup HeldR) = {}
      /\ Filled \cap HeldR = {}
  BY <1>t DEF Ownership
<1>p. Free \subseteq Ids /\ Filled \subseteq Ids
  BY <1>t, PlacesAreIds
<1>1. CASE WriterGetBuffer
  <2> DEFINE b == Head(reader_put_pipe)
  <2>1. /\ idW = NoId /\ idW' = b /\ reader_put_pipe # <<>>
        /\ reader_put_pipe' = Tail(reader_put_pipe)
        /\ UNCHANGED <<writer_put_pipe, idR, issued>>
    BY <1>1, <1>t DEF WriterGetBuffer, Holding, readerVars
  <2>2. /\ b \in Ids /\ b \in Free /\ Free' = Free \ {b}
        /\ IsInjective(reader_put_pipe')
    BY <2>1, <1>s, TailElements DEF Free
  <2>3. HeldW = {} /\ HeldW' = {b}
    BY <2>1, <2>2, IdsFacts DEF HeldW
  <2>4. Unissued' = Unissued /\ Filled' = Filled /\ HeldR' = HeldR
    BY <2>1 DEF Unissued, Filled, HeldR
  <2> HIDE DEF b
  <2> QED BY <1>s, <1>o, <2>1, <2>2, <2>3, <2>4 DEF Ownership
<1>2. CASE WriterPutId
  <2>1. CASE IsOpen(WriterPut0)
    <3>1. /\ idW \in Ids /\ idW' = NoId
          /\ writer_put_pipe' = Append(writer_put_pipe, idW)
          /\ UNCHANGED <<reader_put_pipe, idR, issued>>
      BY <1>2, <2>1, <1>t, <1>s DEF WriterPutId, Holding, readerVars
    <3>2. HeldW = {idW} /\ HeldW' = {}
      BY <3>1, IdsFacts DEF HeldW
    <3>3. idW \notin Filled
      BY <3>2, <1>o
    <3>4. Filled' = Filled \cup {idW} /\ IsInjective(writer_put_pipe')
      BY <3>1, <3>3, <1>s, AppendElements DEF Filled
    <3>5. Unissued' = Unissued /\ Free' = Free /\ HeldR' = HeldR
      BY <3>1 DEF Unissued, Free, HeldR
    <3> QED BY <1>s, <1>o, <3>1, <3>2, <3>4, <3>5 DEF Ownership
  <2>2. CASE ~IsOpen(WriterPut0)
    <3>1. UNCHANGED <<reader_put_pipe, writer_put_pipe, idW, idR, issued>>
      BY <1>2, <2>2 DEF WriterPutId, WriterGone, readerVars
    <3> QED BY <3>1, <1>t
            DEF Ownership, Unissued, Free, Filled, HeldW, HeldR
  <2> QED BY <2>1, <2>2
<1>3. CASE ReaderStart
  <2>1. IsOpen(ReaderPut0)
    BY <1>3, <1>t DEF ReaderStart, Descriptors, IsOpen
  <2>2. /\ issued < BufCount /\ issued' = issued + 1
        /\ reader_put_pipe' = Append(reader_put_pipe, issued)
        /\ UNCHANGED <<writer_put_pipe, idW, idR>>
    BY <1>3, <2>1 DEF ReaderStart, SendFree, writerVars
  <2>3. /\ issued \in Ids /\ issued \in Unissued
        /\ Unissued' = Unissued \ {issued}
    BY <2>2, <1>s DEF Ids, Unissued
  <2>4. issued \notin Free
    BY <2>3, <1>o
  <2>5. Free' = Free \cup {issued} /\ IsInjective(reader_put_pipe')
    BY <2>2, <2>3, <2>4, <1>s, AppendElements DEF Free
  <2>6. Filled' = Filled /\ HeldW' = HeldW /\ HeldR' = HeldR
    BY <2>2 DEF Filled, HeldW, HeldR
  <2> QED BY <1>s, <1>o, <2>2, <2>3, <2>5, <2>6 DEF Ownership
<1>4. CASE ReaderGetBuffer
  <2> DEFINE b == Head(writer_put_pipe)
  <2>1. /\ idR = NoId /\ idR' = b /\ writer_put_pipe # <<>>
        /\ writer_put_pipe' = Tail(writer_put_pipe)
        /\ UNCHANGED <<reader_put_pipe, idW, issued>>
    BY <1>4, <1>t DEF ReaderGetBuffer, Holding, writerVars
  <2>2. /\ b \in Ids /\ b \in Filled /\ Filled' = Filled \ {b}
        /\ IsInjective(writer_put_pipe')
    BY <2>1, <1>s, TailElements DEF Filled
  <2>3. HeldR = {} /\ HeldR' = {b}
    BY <2>1, <2>2, IdsFacts DEF HeldR
  <2>4. Unissued' = Unissued /\ Free' = Free /\ HeldW' = HeldW
    BY <2>1 DEF Unissued, Free, HeldW
  <2> HIDE DEF b
  <2> QED BY <1>s, <1>o, <2>1, <2>2, <2>3, <2>4 DEF Ownership
<1>5. CASE ReaderPutBuffer
  <2>1. IsOpen(ReaderPut0)
    BY <1>5, <1>t DEF ReaderPutBuffer, Descriptors, IsOpen
  <2>2. /\ idR \in Ids /\ idR' = NoId
        /\ reader_put_pipe' = Append(reader_put_pipe, idR)
        /\ UNCHANGED <<writer_put_pipe, idW, issued>>
    BY <1>5, <2>1, <1>t, <1>s DEF ReaderPutBuffer, SendFree, Holding, writerVars
  <2>3. HeldR = {idR} /\ HeldR' = {}
    BY <2>2, IdsFacts DEF HeldR
  <2>4. idR \notin Free
    BY <2>3, <1>o
  <2>5. Free' = Free \cup {idR} /\ IsInjective(reader_put_pipe')
    BY <2>2, <2>4, <1>s, AppendElements DEF Free
  <2>6. Unissued' = Unissued /\ Filled' = Filled /\ HeldW' = HeldW
    BY <2>2 DEF Unissued, Filled, HeldW
  <2> QED BY <1>s, <1>o, <2>2, <2>3, <2>5, <2>6 DEF Ownership
<1>6. CASE UNCHANGED <<reader_put_pipe, writer_put_pipe, idW, idR, issued>>
  BY <1>6, <1>t DEF Ownership, Unissued, Free, Filled, HeldW, HeldR
<1>7. ASSUME \/ WriterInit \/ WriterGetEof \/ WriterPutBytes \/ WriterClose
             \/ WriterExit \/ WriterDie
             \/ \E d \in Data, n \in 1..BufSize : WriterFill(d, n)
      PROVE  UNCHANGED <<reader_put_pipe, writer_put_pipe, idW, idR, issued>>
  BY <1>7 DEF WriterInit, WriterGetEof, WriterPutBytes, WriterClose, WriterExit,
              WriterDie, WriterFill, WriterGone, readerVars
<1>8. ASSUME \/ ReaderInit \/ ReaderGetEof \/ ReaderUse \/ ReaderFree
             \/ ReaderDie \/ UNCHANGED vars
      PROVE  UNCHANGED <<reader_put_pipe, writer_put_pipe, idW, idR, issued>>
  BY <1>8 DEF ReaderInit, ReaderGetEof, ReaderUse, ReaderFree, ReaderDie,
              writerVars, readerVars, vars
<1> QED BY <1>1, <1>2, <1>3, <1>4, <1>5, <1>6, <1>7, <1>8
        DEF Next, WriterStep, ReaderStep, BothEnded

\* The control of the two processes: which of them holds a buffer, and which
\* descriptors are open, whatever step is taken.
LEMMA ControlStep ==
  IInv /\ [Next]_vars => ReaderNeverSigpipe' /\ Holding' /\ Descriptors'
<1> SUFFICES ASSUME IInv, [Next]_vars
             PROVE  ReaderNeverSigpipe' /\ Holding' /\ Descriptors'
  OBVIOUS
<1>t. /\ ReaderNeverSigpipe /\ Holding /\ Descriptors
      /\ issued \in 0..BufCount
      /\ reader_put_pipe \in Seq(Ids) /\ writer_put_pipe \in Seq(Ids)
  BY DEF IInv, TypeOK
<1>fd. /\ WriterPut0 # WriterPut1 /\ WriterPut1 # ReaderPut1
       /\ ReaderPut0 # WriterPut1
  BY DEF WriterPut0, WriterPut1, ReaderPut0, ReaderPut1
<1> USE <1>t DEF ReaderNeverSigpipe, Holding, Descriptors
<1>1. CASE WriterInit
  BY <1>1, <1>fd DEF WriterInit, readerVars
<1>2. CASE WriterGetBuffer
  <2>1. Head(reader_put_pipe) \in Ids
    BY <1>2, HeadTailProperties DEF WriterGetBuffer
  <2> QED BY <1>2, <2>1, IdsFacts DEF WriterGetBuffer, readerVars
<1>3. CASE WriterGetEof \/ WriterExit \/ WriterDie
  BY <1>3 DEF WriterGetEof, WriterExit, WriterDie, WriterGone, readerVars
<1>4. CASE \E d \in Data, n \in 1..BufSize : WriterFill(d, n)
  BY <1>4 DEF WriterFill, readerVars
<1>5. CASE WriterPutBytes
  BY <1>5 DEF WriterPutBytes, readerVars
<1>6. CASE WriterPutId
  BY <1>6 DEF WriterPutId, WriterGone, readerVars
<1>7. CASE WriterClose
  BY <1>7 DEF WriterClose, readerVars
<1>8. CASE ReaderInit
  BY <1>8, <1>fd DEF ReaderInit, writerVars
<1>9. CASE ReaderStart
  <2>1. IsOpen(ReaderPut0)
    BY <1>9 DEF ReaderStart, IsOpen
  <2>2. /\ pcR' \in {"start", "get"} /\ UNCHANGED <<openR, idR, writerVars>>
    BY <1>9, <2>1 DEF ReaderStart, SendFree
  <2> QED BY <1>9, <2>2 DEF ReaderStart, writerVars
<1>10. CASE ReaderGetBuffer
  <2>1. Head(writer_put_pipe) \in Ids
    BY <1>10, <1>t, HeadTailProperties DEF ReaderGetBuffer
  <2> QED BY <1>10, <2>1, IdsFacts DEF ReaderGetBuffer, writerVars
<1>11. CASE ReaderGetEof
  BY <1>11 DEF ReaderGetEof, writerVars
<1>12. CASE ReaderUse
  BY <1>12 DEF ReaderUse, writerVars
<1>13. CASE ReaderPutBuffer
  <2>1. IsOpen(ReaderPut0)
    BY <1>13 DEF ReaderPutBuffer, IsOpen
  <2>2. /\ pcR = "put" /\ pcR' = "get" /\ idR' = NoId
        /\ UNCHANGED <<openR, writerVars>>
    BY <1>13, <2>1 DEF ReaderPutBuffer, SendFree
  <2> QED BY <2>2 DEF writerVars
<1>14. CASE ReaderFree \/ ReaderDie
  BY <1>14 DEF ReaderFree, ReaderDie, writerVars
<1>15. CASE UNCHANGED vars
  BY <1>15 DEF vars, writerVars, readerVars
<1> QED BY <1>1, <1>2, <1>3, <1>4, <1>5, <1>6, <1>7, <1>8, <1>9, <1>10, <1>11,
           <1>12, <1>13, <1>14, <1>15
        DEF Next, WriterStep, ReaderStep, BothEnded

\* A filled buffer is not written until its contents have been copied: the
\* writer writes only the buffer it holds, which is nobody else's.
LEMMA ContentsStep == IInv /\ [Next]_vars => Contents'
<1> SUFFICES ASSUME IInv, [Next]_vars PROVE Contents'
  OBVIOUS
<1>t. /\ ReaderNeverSigpipe /\ Holding /\ Descriptors /\ Contents
      /\ idW \in Ids \cup {NoId} /\ idR \in Ids \cup {NoId}
      /\ reader_put_pipe \in Seq(Ids) /\ writer_put_pipe \in Seq(Ids)
      /\ IsInjective(writer_put_pipe)
      /\ buffers \in [Ids -> Data \cup {NoData}]
      /\ buffer_bytes \in [Ids -> 0..BufSize]
  BY DEF IInv, TypeOK, Ownership
<1>o. Filled \subseteq Ids
  BY PlacesAreIds DEF IInv
<1>w. idW # NoId => idW \in Ids /\ idW \notin Filled /\ idW # idR
  BY <1>t DEF IInv, Ownership, HeldW, HeldR
<1>1. ASSUME NEW d \in Data, NEW n \in 1..BufSize, WriterFill(d, n)
      PROVE  Contents'
  <2>1. /\ pcW = "fill" /\ idW \in Ids /\ idW' = idW /\ idW \notin Filled /\ idW # idR
        /\ buffers' = [buffers EXCEPT ![idW] = d] /\ bytesW' = n /\ pcW' = "put"
        /\ UNCHANGED <<buffer_bytes, writer_put_pipe, pcR, idR, bytesR>>
    BY <1>1, <1>w, <1>t DEF WriterFill, Holding, readerVars
  <2>2. buffers'[idW] = d /\ \A b \in Ids : b # idW => buffers'[b] = buffers[b]
    BY <2>1, <1>t
  <2>3. Filled' = Filled
    BY <2>1 DEF Filled
  <2>4. pcR = "use" => idR \in Ids
    BY <1>t DEF Holding
  <2> QED BY <2>1, <2>2, <2>3, <2>4, <1>o, <1>t DEF Contents
<1>2. CASE WriterPutBytes
  <2>1. /\ pcW = "put" /\ idW \in Ids /\ idW \notin Filled /\ idW # idR
        /\ buffer_bytes' = [buffer_bytes EXCEPT ![idW] = bytesW] /\ pcW' = "send"
        /\ UNCHANGED <<buffers, writer_put_pipe, idW, bytesW, pcR, idR, bytesR>>
    BY <1>2, <1>w, <1>t DEF WriterPutBytes, Holding, readerVars
  <2>2. /\ buffer_bytes'[idW] = bytesW
        /\ \A b \in Ids : b # idW => buffer_bytes'[b] = buffer_bytes[b]
    BY <2>1, <1>t
  <2>3. Filled' = Filled
    BY <2>1 DEF Filled
  <2>4. pcR = "use" => idR \in Ids
    BY <1>t DEF Holding
  <2> QED BY <2>1, <2>2, <2>3, <2>4, <1>o, <1>t DEF Contents
<1>3. CASE WriterPutId
  <2>1. CASE IsOpen(WriterPut0)
    <3>1. /\ pcW = "send" /\ idW \in Ids /\ pcW' = "get"
          /\ writer_put_pipe' = Append(writer_put_pipe, idW)
          /\ UNCHANGED <<buffers, buffer_bytes, pcR, idR, bytesR>>
      BY <1>3, <2>1, <1>w, <1>t DEF WriterPutId, Holding, readerVars, memVars
    <3>2. Filled' = Filled \cup {idW}
      BY <3>1, <1>t, AppendElements DEF Filled
    <3> QED BY <3>1, <3>2, <1>t DEF Contents
  <2>2. CASE ~IsOpen(WriterPut0)
    <3>1. /\ pcW' = "gone"
          /\ UNCHANGED <<memVars, writer_put_pipe, pcR, idR, bytesR>>
      BY <1>3, <2>2 DEF WriterPutId, WriterGone, readerVars
    <3> QED BY <3>1, <1>t DEF Contents, Filled, memVars
  <2> QED BY <2>1, <2>2
<1>4. CASE ReaderGetBuffer
  <2> DEFINE b == Head(writer_put_pipe)
  <2>1. /\ writer_put_pipe # <<>> /\ writer_put_pipe' = Tail(writer_put_pipe)
        /\ idR' = b /\ bytesR' = buffer_bytes[b] /\ pcR' = "use"
        /\ UNCHANGED <<buffers, buffer_bytes, pcW, idW, bytesW>>
    BY <1>4 DEF ReaderGetBuffer, writerVars, memVars
  <2>2. b \in Filled /\ Filled' \subseteq Filled
    BY <2>1, <1>t, TailElements DEF Filled
  <2> HIDE DEF b
  <2> QED BY <2>1, <2>2, <1>t DEF Contents
<1>5. CASE UNCHANGED <<memVars, writer_put_pipe>> /\ UNCHANGED <<idR, bytesR, readerVars>>
           /\ pcW' \notin {"put", "send"}
  BY <1>5, <1>t DEF Contents, Filled, memVars, readerVars
<1>6. CASE UNCHANGED <<memVars, writer_put_pipe, writerVars>> /\ pcR' # "use"
  BY <1>6, <1>t DEF Contents, Filled, memVars, writerVars
<1>7. CASE UNCHANGED vars
  BY <1>7, <1>t DEF Contents, Filled, vars, memVars, writerVars, readerVars
<1>8. ASSUME \/ WriterInit \/ WriterGetBuffer \/ WriterGetEof \/ WriterClose
             \/ WriterExit \/ WriterDie
      PROVE  /\ UNCHANGED <<memVars, writer_put_pipe>> /\ UNCHANGED <<idR, bytesR, readerVars>>
             /\ pcW' \notin {"put", "send"}
  BY <1>8 DEF WriterInit, WriterGetBuffer, WriterGetEof, WriterClose,
              WriterExit, WriterDie, WriterGone, readerVars
<1>9. ASSUME \/ ReaderInit \/ ReaderGetEof \/ ReaderUse \/ ReaderFree \/ ReaderDie
      PROVE  UNCHANGED <<memVars, writer_put_pipe, writerVars>> /\ pcR' # "use"
  BY <1>9 DEF ReaderInit, ReaderGetEof, ReaderUse, ReaderFree, ReaderDie
<1>10. ASSUME ReaderStart \/ ReaderPutBuffer
       PROVE  UNCHANGED <<memVars, writer_put_pipe, writerVars>> /\ pcR' # "use"
  BY <1>10 DEF ReaderStart, ReaderPutBuffer, SendFree
<1> QED BY <1>1, <1>2, <1>3, <1>4, <1>5, <1>6, <1>7, <1>8, <1>9, <1>10
        DEF Next, WriterStep, ReaderStep, BothEnded

-----------------------------------------------------------------------------
THEOREM Invariance == Spec => []IInv
<1>1. IInv /\ [Next]_vars => IInv'
  BY TypeStep, OwnershipStep, ControlStep, ContentsStep DEF IInv
<1> QED BY <1>1, InitIInv, PTL DEF Spec

THEOREM TypeCorrect == Spec => []TypeOK
<1>1. IInv => TypeOK
  BY DEF IInv
<1> QED BY <1>1, Invariance, PTL

\* No buffer is lost, duplicated, or in two hands.
THEOREM BuffersHaveOneOwner == Spec => []Ownership
<1>1. IInv => Ownership
  BY DEF IInv
<1> QED BY <1>1, Invariance, PTL

\* Writing an identifier never kills the frontend.
THEOREM FrontendSurvives == Spec => []ReaderNeverSigpipe
<1>1. IInv => ReaderNeverSigpipe
  BY DEF IInv
<1> QED BY <1>1, Invariance, PTL

-----------------------------------------------------------------------------
\* The messages of the buffers s, as BoundedFifo's queue.
Messages(s) == [i \in DOMAIN s |-> Message(s[i])]
MessageSet == (Data \cup {NoData}) \X (0..BufSize)

LEMMA MessagesType ==
  ASSUME TypeOK, NEW s \in Seq(Ids)
  PROVE  /\ Messages(s) \in Seq(MessageSet) /\ Len(Messages(s)) = Len(s)
         /\ \A i \in 1..Len(s) : Messages(s)[i] = Message(s[i])
<1>1. DOMAIN s = 1..Len(s) /\ Len(s) \in Nat /\ \A i \in 1..Len(s) : s[i] \in Ids
  BY LenProperties, ElementOfSeq
<1>2. \A b \in Ids : Message(b) \in MessageSet
  BY DEF TypeOK, Message, MessageSet
<1>3. Messages(s) \in [1..Len(s) -> MessageSet]
  BY <1>1, <1>2 DEF Messages
<1>4. Messages(s) \in Seq(MessageSet)
  BY <1>1, <1>3, SeqDef
<1>5. Len(Messages(s)) = Len(s)
  BY <1>1, <1>3, <1>4, LenProperties
<1> QED BY <1>1, <1>4, <1>5 DEF Messages

\* Appending an identifier appends its message.
LEMMA MessagesAppend ==
  ASSUME TypeOK, NEW s \in Seq(Ids), NEW b \in Ids
  PROVE  Messages(Append(s, b)) = Append(Messages(s), Message(b))
<1> DEFINE l == Messages(Append(s, b))
           r == Append(Messages(s), Message(b))
<1>1. /\ Append(s, b) \in Seq(Ids) /\ Len(Append(s, b)) = Len(s) + 1
      /\ \A i \in 1..Len(s) : Append(s, b)[i] = s[i]
      /\ Append(s, b)[Len(s) + 1] = b
  BY AppendProperties
<1>2. /\ l \in Seq(MessageSet) /\ Len(l) = Len(s) + 1
      /\ \A i \in 1..(Len(s) + 1) : l[i] = Message(Append(s, b)[i])
  BY <1>1, MessagesType
<1>3. /\ Messages(s) \in Seq(MessageSet) /\ Len(Messages(s)) = Len(s)
      /\ \A i \in 1..Len(s) : Messages(s)[i] = Message(s[i])
  BY MessagesType
<1>4. Message(b) \in MessageSet
  BY DEF TypeOK, Message, MessageSet
<1>5. /\ r \in Seq(MessageSet) /\ Len(r) = Len(s) + 1
      /\ \A i \in 1..Len(s) : r[i] = Messages(s)[i]
      /\ r[Len(s) + 1] = Message(b)
  BY <1>3, <1>4, AppendProperties
<1>6. Len(s) \in Nat
  BY LenProperties
<1>7. \A i \in 1..(Len(s) + 1) : l[i] = r[i]
  BY <1>1, <1>2, <1>3, <1>5, <1>6
<1> HIDE DEF l, r
<1> QED BY <1>2, <1>5, <1>7, SeqEqual DEF l, r

\* Removing the first identifier removes its message.
LEMMA MessagesTail ==
  ASSUME TypeOK, NEW s \in Seq(Ids), s # <<>>
  PROVE  /\ Messages(s) # <<>>
         /\ Head(Messages(s)) = Message(Head(s))
         /\ Messages(Tail(s)) = Tail(Messages(s))
<1> DEFINE l == Messages(Tail(s))
           r == Tail(Messages(s))
<1>1. /\ Tail(s) \in Seq(Ids) /\ Len(Tail(s)) = Len(s) - 1 /\ Len(s) \in Nat
      /\ \A i \in 1..Len(Tail(s)) : Tail(s)[i] = s[i + 1]
      /\ Len(s) # 0 /\ Head(s) = s[1]
  BY HeadTailProperties, LenProperties, EmptySeq
<1>2. /\ Messages(s) \in Seq(MessageSet) /\ Len(Messages(s)) = Len(s)
      /\ \A i \in 1..Len(s) : Messages(s)[i] = Message(s[i])
  BY MessagesType
<1>3. Messages(s) # <<>>
  BY <1>1, <1>2, EmptySeq
<1>4. Head(Messages(s)) = Message(Head(s))
  <2>1. Head(Messages(s)) = Messages(s)[1]
    BY <1>2, <1>3
  <2>2. Messages(s)[1] = Message(s[1])
    BY <1>1, <1>2
  <2> QED BY <2>1, <2>2, <1>1
<1>5. /\ l \in Seq(MessageSet) /\ Len(l) = Len(s) - 1
      /\ \A i \in 1..(Len(s) - 1) : l[i] = Message(s[i + 1])
  <2>1. /\ l \in Seq(MessageSet) /\ Len(l) = Len(Tail(s))
        /\ \A i \in 1..Len(Tail(s)) : l[i] = Message(Tail(s)[i])
    BY <1>1, MessagesType
  <2> HIDE DEF l
  <2> QED BY <1>1, <2>1
<1>6. /\ r \in Seq(MessageSet) /\ Len(r) = Len(s) - 1
      /\ \A i \in 1..Len(r) : r[i] = Messages(s)[i + 1]
  BY <1>2, <1>3, HeadTailProperties
<1>7. \A i \in 1..(Len(s) - 1) : l[i] = r[i]
  BY <1>1, <1>2, <1>5, <1>6
<1> HIDE DEF l, r
<1>8. l = r
  BY <1>5, <1>6, <1>7, SeqEqual
<1> QED BY <1>3, <1>4, <1>8 DEF l, r

\* What is in transit is a sequence of buffers, and there is room for another
\* one while the writer holds a buffer.
LEMMA InTransitFacts ==
  ASSUME IInv
  PROVE  /\ InTransit \in Seq(Ids)
         /\ pcR # "use" => InTransit = writer_put_pipe
         /\ pcR = "use" => /\ InTransit # <<>> /\ Head(InTransit) = idR
                           /\ Tail(InTransit) = writer_put_pipe
         /\ idW # NoId => Len(InTransit) < BufCount
<1>t. /\ writer_put_pipe \in Seq(Ids) /\ IsInjective(writer_put_pipe)
      /\ Ownership /\ idW \in Ids \cup {NoId} /\ idR \in Ids \cup {NoId}
      /\ pcR = "use" => idR \in Ids
      /\ BufCount \in Nat
  BY DEF IInv, TypeOK, Ownership, Holding
<1>w. idW # NoId => idW \in Ids /\ idW \notin Filled /\ idW # idR
  BY <1>t DEF Ownership, HeldW, HeldR
<1>1. CASE pcR # "use"
  <2>1. InTransit = writer_put_pipe
    BY <1>1, <1>t, ConcatEmptySeq DEF InTransit
  <2>2. idW # NoId => Len(InTransit) < BufCount
    BY <2>1, <1>t, <1>w, InjectiveLength DEF Filled, Ids
  <2> QED BY <1>1, <2>1, <2>2, <1>t
<1>2. CASE pcR = "use"
  <2>1. <<idR>> \in Seq(Ids) /\ Len(<<idR>>) = 1 /\ <<idR>>[1] = idR
    BY <1>2, <1>t
  <2>2. InTransit = <<idR>> \o writer_put_pipe
    BY <1>2 DEF InTransit
  <2>3. /\ InTransit \in Seq(Ids) /\ Len(InTransit) = 1 + Len(writer_put_pipe)
        /\ Len(writer_put_pipe) \in Nat
        /\ \A i \in 1..(1 + Len(writer_put_pipe)) :
             InTransit[i] = IF i <= 1 THEN <<idR>>[i] ELSE writer_put_pipe[i - 1]
    BY <2>1, <2>2, <1>t, ConcatProperties, LenProperties
  <2>4. InTransit # <<>> /\ Head(InTransit) = idR
    BY <2>1, <2>3, EmptySeq
  <2>5. Tail(InTransit) = writer_put_pipe
    <3>1. /\ Tail(InTransit) \in Seq(Ids)
          /\ Len(Tail(InTransit)) = Len(writer_put_pipe)
          /\ \A i \in 1..Len(writer_put_pipe) : Tail(InTransit)[i] = InTransit[i + 1]
      BY <2>3, <2>4, HeadTailProperties
    <3>2. \A i \in 1..Len(writer_put_pipe) : Tail(InTransit)[i] = writer_put_pipe[i]
      BY <2>3, <3>1
    <3> QED BY <3>1, <3>2, <1>t, SeqEqual
  <2>6. ASSUME idW # NoId PROVE Len(InTransit) < BufCount
    <3>1. idR \notin Filled
      BY <1>2, <1>t, IdsFacts DEF Ownership, HeldR
    <3>2. LET s == Append(writer_put_pipe, idR) IN
            /\ s \in Seq(Ids) /\ IsInjective(s) /\ idW \notin Range(s)
            /\ Len(s) = Len(writer_put_pipe) + 1
      BY <1>2, <1>t, <1>w, <2>6, <3>1, AppendElements, AppendProperties DEF Filled
    <3>3. Len(Append(writer_put_pipe, idR)) < BufCount
      BY <3>2, <1>t, <1>w, <2>6, InjectiveLength DEF Ids
    <3> QED BY <3>2, <3>3, <2>3
  <2> QED BY <1>2, <2>3, <2>4, <2>5, <2>6
<1> QED BY <1>1, <1>2

\* The channel starts as an empty FIFO.
LEMMA InitRefines == Init => Fifo!Init
<1> SUFFICES ASSUME Init PROVE Fifo!Init
  OBVIOUS
<1>1. InTransit = <<>>
  BY DEF Init, InTransit
<1>2. [i \in DOMAIN InTransit |-> Message(InTransit[i])] = <<>>
  BY <1>1
<1>3. FifoReading = "yes"
  BY DEF Init, FifoReading
<1> QED BY <1>2, <1>3 DEF Init, Fifo!Init

\* Every step of the channel is a step of the FIFO or leaves it unchanged.
LEMMA StepRefines == IInv /\ [Next]_vars => [Fifo!Next]_(Fifo!vars)
<1> SUFFICES ASSUME IInv, [Next]_vars PROVE [Fifo!Next]_(Fifo!vars)
  OBVIOUS
<1> DEFINE Q == [i \in DOMAIN InTransit |-> Message(InTransit[i])]
           Writing == pcW \notin {"closed", "gone"}
<1>f. /\ Fifo!vars = <<Q, out, FifoReading, Writing>>
      /\ (Fifo!vars)' = <<Q', out', FifoReading', Writing'>>
  BY DEF Fifo!vars
<1>q. Q = Messages(InTransit)
  BY DEF Messages
<1>t. /\ TypeOK /\ ReaderNeverSigpipe /\ Holding /\ Descriptors /\ Contents
      /\ idW \in Ids \cup {NoId} /\ writer_put_pipe \in Seq(Ids)
      /\ DOMAIN buffers = Ids /\ DOMAIN buffer_bytes = Ids
  BY DEF IInv, TypeOK
<1>i. /\ InTransit \in Seq(Ids)
      /\ pcR # "use" => InTransit = writer_put_pipe
      /\ pcR = "use" => /\ InTransit # <<>> /\ Head(InTransit) = idR
                        /\ Tail(InTransit) = writer_put_pipe
      /\ idW # NoId => Len(InTransit) < BufCount
  BY InTransitFacts
<1>l. Len(Q) = Len(InTransit)
  BY <1>i, <1>q, <1>t, MessagesType
<1>r. FifoReading = "yes" <=> pcR \notin {"gone", "sigpipe", "eof"}
  BY DEF FifoReading
<1>1. CASE WriterPutId
  <2>1. CASE IsOpen(WriterPut0)
    <3>1. /\ pcW = "send" /\ idW \in Ids /\ pcW' = "get"
          /\ writer_put_pipe' = Append(writer_put_pipe, idW)
          /\ UNCHANGED <<buffers, buffer_bytes, pcR, idR, out>>
      BY <1>1, <2>1, <1>t DEF WriterPutId, Holding, readerVars, memVars
    <3>2. InTransit' = Append(InTransit, idW)
      <4>1. CASE pcR # "use"
        <5>1. writer_put_pipe' \in Seq(Ids)
          BY <3>1, <1>t, AppendId
        <5>2. InTransit' = writer_put_pipe'
          BY <3>1, <4>1, <5>1, ConcatEmptySeq DEF InTransit
        <5> QED BY <3>1, <4>1, <5>2, <1>i
      <4>2. CASE pcR = "use"
        <5>1. idR \in Ids
          BY <4>2 DEF IInv, TypeOK, Holding
        <5>2. /\ InTransit = <<idR>> \o writer_put_pipe
              /\ InTransit' = <<idR>> \o Append(writer_put_pipe, idW)
          BY <3>1, <4>2 DEF InTransit
        <5>3. /\ Append(writer_put_pipe, idW) = writer_put_pipe \o <<idW>>
              /\ Append(InTransit, idW) = InTransit \o <<idW>>
          BY <3>1, <1>t, <1>i, AppendIsConcat
        <5>4. <<idR>> \in Seq(Ids) /\ <<idW>> \in Seq(Ids)
          BY <5>1, <3>1
        <5> QED BY <5>2, <5>3, <5>4, <1>t, ConcatAssociative
      <4> QED BY <4>1, <4>2
    <3>3. Q' = Messages(Append(InTransit, idW))
      BY <3>1, <3>2 DEF Messages, Message
    <3>4. Q' = Append(Q, Message(idW))
      BY <3>1, <3>3, <1>q, <1>t, <1>i, MessagesAppend
    <3>5. Message(idW) \in Data \X (1..BufSize)
      BY <3>1, <1>t DEF Contents, Message
    <3>6. FifoReading' = FifoReading
      BY <3>1 DEF FifoReading
    <3>7. Len(Q) < BufCount /\ Writing /\ Writing'
      BY <3>1, <1>i, <1>l, IdsFacts
    <3>8. Fifo!Put(Message(idW))
      BY <3>1, <3>4, <3>6, <3>7 DEF Fifo!Put
    <3> QED BY <3>5, <3>8 DEF Fifo!Next
  <2>2. CASE ~IsOpen(WriterPut0)
    <3>1. /\ pcW = "send" /\ pcW' = "gone"
          /\ UNCHANGED <<memVars, writer_put_pipe, pcR, idR, out>>
      BY <1>1, <2>2 DEF WriterPutId, WriterGone, readerVars
    <3>2. Q' = Q /\ FifoReading' = FifoReading
      BY <3>1 DEF InTransit, Message, FifoReading, memVars
    <3>3. Fifo!StopWriting
      BY <3>1, <3>2 DEF Fifo!StopWriting
    <3> QED BY <3>3 DEF Fifo!Next
  <2> QED BY <2>1, <2>2
<1>2. CASE WriterGetEof \/ WriterClose \/ WriterDie
  <2>1. /\ pcW \notin {"closed", "gone"} /\ pcW' \in {"closed", "gone"}
        /\ UNCHANGED <<memVars, writer_put_pipe, pcR, idR, out>>
    BY <1>2 DEF WriterGetEof, WriterClose, WriterDie, WriterGone, readerVars
  <2>2. Q' = Q /\ FifoReading' = FifoReading
    BY <2>1 DEF InTransit, Message, FifoReading, memVars
  <2>3. Fifo!StopWriting
    BY <2>1, <2>2 DEF Fifo!StopWriting
  <2> QED BY <2>3 DEF Fifo!Next
<1>3. CASE WriterInit \/ WriterGetBuffer \/ WriterExit
  <2>1. /\ Writing' = Writing
        /\ UNCHANGED <<memVars, writer_put_pipe, pcR, idR, out>>
    BY <1>3 DEF WriterInit, WriterGetBuffer, WriterExit, WriterGone, readerVars
  <2>2. Q' = Q /\ FifoReading' = FifoReading
    BY <2>1 DEF InTransit, Message, FifoReading, memVars
  <2> QED BY <1>f, <2>1, <2>2
<1>4. CASE WriterPutBytes \/ \E d \in Data, n \in 1..BufSize : WriterFill(d, n)
  <2>1. /\ pcW \in {"fill", "put"} /\ pcW' \in {"put", "send"}
        /\ UNCHANGED <<writer_put_pipe, pcR, idR, out>>
        /\ \A b \in Ids : b # idW => /\ buffers'[b] = buffers[b]
                                     /\ buffer_bytes'[b] = buffer_bytes[b]
    BY <1>4, <1>t DEF WriterPutBytes, WriterFill, readerVars
  <2>2. idW # NoId
    BY <2>1, <1>t DEF Holding
  <2>3. idW \notin Filled /\ (pcR = "use" => idW # idR)
    BY <2>2, <1>t DEF IInv, Ownership, HeldW, HeldR, Holding
  <2>4. \A i \in DOMAIN InTransit : InTransit[i] # idW /\ InTransit[i] \in Ids
    <3>1. CASE pcR # "use"
      <4>1. InTransit = writer_put_pipe /\ Range(writer_put_pipe) \subseteq Ids
        BY <3>1, <1>i, <1>t, RangeOfSeq
      <4> QED BY <4>1, <2>3 DEF Filled, Range
    <3>2. CASE pcR = "use"
      <4>1. /\ DOMAIN InTransit = 1..Len(InTransit) /\ Len(InTransit) \in Nat
            /\ InTransit[1] = idR
            /\ Len(writer_put_pipe) = Len(InTransit) - 1
            /\ DOMAIN writer_put_pipe = 1..(Len(InTransit) - 1)
            /\ \A i \in 1..(Len(InTransit) - 1) : writer_put_pipe[i] = InTransit[i + 1]
        <5>1. /\ DOMAIN InTransit = 1..Len(InTransit) /\ Len(InTransit) \in Nat
              /\ Len(writer_put_pipe) = Len(InTransit) - 1
              /\ \A i \in 1..Len(writer_put_pipe) : writer_put_pipe[i] = InTransit[i + 1]
          BY <3>2, <1>i, LenProperties, HeadTailProperties
        <5>2. DOMAIN writer_put_pipe = 1..Len(writer_put_pipe)
          BY <1>t, LenProperties
        <5>3. InTransit[1] = Head(InTransit)
          BY <3>2, <1>i
        <5> QED BY <3>2, <1>i, <5>1, <5>2, <5>3
      <4>2. ASSUME NEW i \in DOMAIN InTransit, i # 1
            PROVE  InTransit[i] \in Filled
        <5>1. i - 1 \in DOMAIN writer_put_pipe /\ InTransit[i] = writer_put_pipe[i - 1]
          BY <4>1, <4>2
        <5> QED BY <5>1 DEF Filled, Range
      <4>3. \A i \in DOMAIN InTransit : InTransit[i] \in Ids
        BY <1>i, LenProperties, ElementOfSeq
      <4> QED BY <3>2, <2>3, <4>1, <4>2, <4>3
    <3> QED BY <3>1, <3>2
  <2>5. InTransit' = InTransit /\ FifoReading' = FifoReading
    BY <2>1 DEF InTransit, FifoReading
  <2>6. \A i \in DOMAIN InTransit : Message(InTransit[i])' = Message(InTransit[i])
    BY <2>1, <2>4, <2>5 DEF Message
  <2>7. Q' = Q
    BY <2>5, <2>6 DEF Message
  <2> QED BY <1>f, <2>1, <2>5, <2>7
<1>5. CASE ReaderInit \/ ReaderStart \/ ReaderPutBuffer
  <2>1. /\ pcR \in {"init", "start", "put"} /\ UNCHANGED <<memVars, writer_put_pipe, pcW, out>>
    BY <1>5 DEF ReaderInit, ReaderStart, ReaderPutBuffer, writerVars
  <2>2. pcR' \in {"start", "get"}
    <3>1. pcR # "init" => IsOpen(ReaderPut0)
      BY <2>1, <1>t DEF Descriptors, IsOpen
    <3> QED BY <1>5, <3>1 DEF ReaderInit, ReaderStart, ReaderPutBuffer, SendFree
  <2>3. Q' = Q /\ FifoReading' = FifoReading
    BY <2>1, <2>2 DEF InTransit, Message, FifoReading, memVars
  <2> QED BY <1>f, <2>1, <2>3
<1>6. CASE ReaderGetBuffer
  <2>1. /\ pcR = "get" /\ pcR' = "use" /\ writer_put_pipe # <<>>
        /\ idR' = Head(writer_put_pipe) /\ writer_put_pipe' = Tail(writer_put_pipe)
        /\ UNCHANGED <<memVars, pcW, out>>
    BY <1>6 DEF ReaderGetBuffer, writerVars
  <2>2. InTransit = writer_put_pipe
    BY <2>1, <1>i
  <2>3. InTransit' = <<Head(writer_put_pipe)>> \o Tail(writer_put_pipe)
    BY <2>1 DEF InTransit
  <2>4. <<Head(writer_put_pipe)>> \o Tail(writer_put_pipe) = writer_put_pipe
    <3> DEFINE h == <<Head(writer_put_pipe)>>
               w == h \o Tail(writer_put_pipe)
    <3>1. /\ Head(writer_put_pipe) \in Ids /\ Tail(writer_put_pipe) \in Seq(Ids)
          /\ Len(Tail(writer_put_pipe)) = Len(writer_put_pipe) - 1
          /\ \A i \in 1..Len(Tail(writer_put_pipe)) :
               Tail(writer_put_pipe)[i] = writer_put_pipe[i + 1]
          /\ Head(writer_put_pipe) = writer_put_pipe[1]
          /\ Len(writer_put_pipe) \in Nat
      BY <2>1, <1>t, HeadTailProperties, LenProperties
    <3>2. h \in Seq(Ids) /\ Len(h) = 1 /\ h[1] = Head(writer_put_pipe)
      BY <3>1
    <3>3. /\ w \in Seq(Ids) /\ Len(w) = Len(h) + Len(Tail(writer_put_pipe))
          /\ \A i \in 1..(Len(h) + Len(Tail(writer_put_pipe))) :
               w[i] = IF i <= Len(h) THEN h[i] ELSE Tail(writer_put_pipe)[i - Len(h)]
      BY <3>1, <3>2, ConcatProperties
    <3> HIDE DEF w, h
    <3>4. Len(w) = Len(writer_put_pipe)
      BY <3>1, <3>2, <3>3
    <3>5. \A i \in 1..Len(w) : w[i] = writer_put_pipe[i]
      BY <3>1, <3>2, <3>3, <3>4
    <3>6. w = writer_put_pipe
      BY <3>3, <3>4, <3>5, <1>t, SeqEqual
    <3> QED BY <3>6 DEF w, h
  <2>5. Q' = Q /\ FifoReading' = FifoReading
    BY <2>1, <2>2, <2>3, <2>4 DEF Message, FifoReading, memVars
  <2> QED BY <1>f, <2>1, <2>5
<1>7. CASE ReaderGetEof
  <2>1. /\ pcR = "get" /\ pcR' = "eof" /\ writer_put_pipe = <<>>
        /\ ~IsOpen(WriterPut1)
        /\ UNCHANGED <<memVars, writer_put_pipe, pcW, out>>
    BY <1>7 DEF ReaderGetEof, writerVars
  <2>2. ~Writing
    BY <2>1, <1>t DEF Descriptors, IsOpen
  <2>3. Q = <<>> /\ Q' = <<>>
    BY <2>1, <1>i DEF InTransit
  <2>4. FifoReading = "yes" /\ FifoReading' = "end"
    BY <2>1 DEF FifoReading
  <2>5. Fifo!TellEnd
    BY <2>1, <2>2, <2>3, <2>4 DEF Fifo!TellEnd
  <2> QED BY <2>5 DEF Fifo!Next
<1>8. CASE ReaderUse
  <2>1. /\ pcR = "use" /\ pcR' = "put" /\ out' = <<buffers[idR], bytesR>>
        /\ UNCHANGED <<memVars, writer_put_pipe, pcW>>
    BY <1>8 DEF ReaderUse, writerVars
  <2>2. out' = Message(idR)
    BY <2>1, <1>t DEF Contents, Message
  <2>3. Q # <<>> /\ Head(Q) = Message(idR) /\ Tail(Q) = Messages(writer_put_pipe)
    BY <2>1, <1>i, <1>t, <1>q, MessagesTail
  <2>4. InTransit' = writer_put_pipe
    BY <2>1, <1>t, ConcatEmptySeq DEF InTransit
  <2>5. Q' = Messages(writer_put_pipe)
    BY <2>1, <2>4 DEF Messages, Message, memVars
  <2>6. FifoReading = "yes" /\ FifoReading' = "yes"
    BY <2>1 DEF FifoReading
  <2>7. Fifo!Take
    BY <2>1, <2>2, <2>3, <2>5, <2>6 DEF Fifo!Take
  <2> QED BY <2>7 DEF Fifo!Next
<1>9. CASE ReaderFree \/ ReaderDie
  <2>1. /\ pcR \notin {"gone", "sigpipe"} /\ pcR' = "gone"
        /\ UNCHANGED <<memVars, writer_put_pipe, pcW, out>>
    BY <1>9 DEF ReaderFree, ReaderDie, writerVars
  <2>2. InTransit' = writer_put_pipe
    BY <2>1, <1>t, ConcatEmptySeq DEF InTransit
  <2>3. Q' = Messages(writer_put_pipe)
    BY <2>1, <2>2 DEF Messages, Message, memVars
  <2>4. Q' = Q \/ (Q # <<>> /\ Q' = Tail(Q))
    <3>1. CASE pcR # "use"
      BY <3>1, <2>3, <1>i, <1>q
    <3>2. CASE pcR = "use"
      BY <3>2, <2>3, <1>i, <1>t, <1>q, MessagesTail
    <3> QED BY <3>1, <3>2
  <2>5. FifoReading # "no" /\ FifoReading' = "no"
    BY <2>1 DEF FifoReading
  <2>6. Fifo!StopReading
    BY <2>1, <2>4, <2>5 DEF Fifo!StopReading
  <2> QED BY <2>6 DEF Fifo!Next
<1>10. CASE UNCHANGED vars
  <2>1. Q' = Q /\ FifoReading' = FifoReading /\ UNCHANGED <<out, pcW>>
    BY <1>10 DEF vars, writerVars, readerVars, memVars, InTransit, Message, FifoReading
  <2> QED BY <1>f, <2>1
<1> QED BY <1>1, <1>2, <1>3, <1>4, <1>5, <1>6, <1>7, <1>8, <1>9, <1>10
        DEF Next, WriterStep, ReaderStep, BothEnded

\* The channel of gt68xx_shm_channel.c implements a bounded FIFO, for every
\* number and size of buffers.
THEOREM ChannelIsFifo == Spec => FifoSpec
<1>1. IInv /\ [Next]_vars => [Fifo!Next]_(Fifo!vars)
  BY StepRefines
<1>2. Init => Fifo!Init
  BY InitRefines
<1> QED BY <1>1, <1>2, Invariance, PTL DEF Spec, FifoSpec, Fifo!Spec
=============================================================================
