-------------------------- MODULE BinaryListProofs --------------------------
(***************************************************************************)
(* Theorems about BinaryList, for every capacity, every set of blobs and   *)
(* every number of readers, failures and crashes. All follow from one      *)
(* inductive invariant, IInv: each action is taken through its parts.      *)
(***************************************************************************)
EXTENDS BinaryList, TLAPS

\* The index area ends at a natural offset that lies behind the count field.
LEMMA DataStartType == DataStart \in Nat /\ DataStart > EntrySize
  BY ListAssumption DEF DataStart, EntrySize

\* Appending one byte keeps every byte that was there and puts it last.
LEMMA AppendByte ==
  ASSUME NEW S, NEW p \in Seq(S), NEW e \in S
  PROVE  /\ Append(p, e) \in Seq(S)
         /\ Len(Append(p, e)) = Len(p) + 1
         /\ \A k \in 1 .. Len(p) : Append(p, e)[k] = p[k]
         /\ Append(p, e)[Len(p) + 1] = e
  OBVIOUS

\* IInv holds of a new file.
LEMMA InitIInv == Init => IInv
<1> SUFFICES ASSUME Init PROVE IInv
  OBVIOUS
<1> USE ListAssumption, DataStartType DEF Init
<1>1. TypeOK
  BY DEF TypeOK, Steps, Slots, Closed
<1>2. Layout
  BY DEF Layout
<1>3. AddInv
  BY DEF AddInv, Open, Adding
<1>4. ViewsInside
  BY DEF ViewsInside
<1>5. OffsetsOrdered /\ OffsetsFit /\ AckedDurable /\ NoOverlap
  BY DEF OffsetsOrdered, OffsetsFit, AckedDurable, NoOverlap
<1> QED
  BY <1>1, <1>2, <1>3, <1>4, <1>5 DEF IInv

-----------------------------------------------------------------------------
(* Steps that leave the file alone and start or end no Add.                *)

LEMMA OpenIInv == IInv /\ NewBinaryList => IInv'
<1> SUFFICES ASSUME IInv, NewBinaryList PROVE IInv'
  OBVIOUS
<1> USE ListAssumption, DataStartType DEF IInv, NewBinaryList, file
<1>1. TypeOK'
  BY DEF TypeOK, Closed
<1>2. Layout' /\ ViewsInside' /\ OffsetsOrdered' /\ OffsetsFit'
  BY DEF Layout, ViewsInside, OffsetsOrdered, OffsetsFit
<1>3. AckedDurable' /\ NoOverlap'
  BY DEF AckedDurable, NoOverlap, Holds
<1>4. AddInv'
  <2>1. pc = "idle" /\ pc' = "idle"
    BY DEF AddInv
  <2>2. realSize' = count /\ count' = count
    BY DEF TypeOK, Layout, EntrySize
  <2> QED
    BY <2>1, <2>2 DEF AddInv, Adding
<1> QED
  BY <1>1, <1>2, <1>3, <1>4

LEMMA ReaderIInv ==
  ASSUME IInv, NEW r \in Readers,
         DropReader(r) \/ \E i \in Slots : OpenReader(r, i)
  PROVE  IInv'
<1> USE ListAssumption, DataStartType
<1>1. UNCHANGED <<file, realSize, pc, blob, start, acked>>
  BY DEF DropReader, OpenReader
<1>2. Layout' /\ OffsetsOrdered' /\ OffsetsFit' /\ AckedDurable' /\ NoOverlap' /\ AddInv'
  BY <1>1 DEF IInv, Layout, OffsetsOrdered, OffsetsFit, AckedDurable, NoOverlap,
     Holds, AddInv, Open, Adding, file
<1>3. CASE DropReader(r)
  <2>1. TypeOK'
    BY <1>1, <1>3 DEF IInv, TypeOK, DropReader, NoView, View, file
  <2>2. ViewsInside'
    BY <1>1, <1>3 DEF IInv, TypeOK, ViewsInside, DropReader, file
  <2> QED
    BY <1>2, <2>1, <2>2 DEF IInv
<1>4. ASSUME NEW i \in Slots, OpenReader(r, i)
      PROVE  IInv'
  <2> DEFINE v == [slot |-> i, lo |-> StartOf(i), hi |-> EndOf(i)]
  <2>1. views' = [views EXCEPT ![r] = v]
    BY <1>4 DEF OpenReader
  <2>2. realSize = count /\ i < count /\ count \in Nat /\ i \in Nat
    BY <1>4 DEF OpenReader, IInv, AddInv, Free, Open, TypeOK, Slots
  <2>3. StartOf(i) \in Nat /\ DataStart <= StartOf(i) /\ StartOf(i) <= size
    BY <2>2, <1>4 DEF IInv, OffsetsOrdered, StartOf, TypeOK
  <2>4. EndOf(i) \in Nat /\ StartOf(i) <= EndOf(i) /\ EndOf(i) <= size
    <3>1. CASE i + 1 < realSize /\ index[i + 1] > 0
      <4>1. i + 1 \in 0 .. count - 1 /\ i \in 0 .. i + 1 /\ i + 1 \in Slots
        BY <2>2, <3>1 DEF IInv, TypeOK, Slots
      <4>2. index[i] <= index[i + 1] /\ index[i + 1] <= size /\ index[i + 1] \in Nat
        BY <4>1, <2>2 DEF IInv, OffsetsOrdered, TypeOK
      <4> QED
        BY <3>1, <4>2 DEF EndOf, StartOf
    <3>2. CASE ~(i + 1 < realSize /\ index[i + 1] > 0)
      BY <3>2, <2>3 DEF EndOf, IInv, TypeOK
    <3> QED
      BY <3>1, <3>2
  <2>5. v \in View
    BY <2>3, <2>4 DEF View
  <2>6. TypeOK'
    BY <1>1, <2>1, <2>5 DEF IInv, TypeOK, file
  <2>7. ViewsInside'
    BY <1>1, <2>1, <2>3, <2>4 DEF IInv, TypeOK, ViewsInside, file
  <2> QED
    BY <1>2, <2>6, <2>7 DEF IInv
<1> QED
  BY <1>3, <1>4

\* Fail, TooLong and Crash leave the file as it is, with l.mu free.
LEMMA StopIInv == IInv /\ (Fail \/ TooLong \/ Crash) => IInv'
<1> SUFFICES ASSUME IInv, Fail \/ TooLong \/ Crash PROVE IInv'
  OBVIOUS
<1> USE ListAssumption, DataStartType
<1>1. UNCHANGED <<file, acked>> /\ pc' = "idle" /\ blob' = NoBlob
  BY DEF Fail, TooLong, Crash
<1>2. Layout' /\ OffsetsOrdered' /\ OffsetsFit' /\ AckedDurable' /\ NoOverlap'
  BY <1>1 DEF IInv, Layout, OffsetsOrdered, OffsetsFit, AckedDurable, NoOverlap,
     Holds, file
<1>3. realSize' = Closed \/ realSize' = count
  BY DEF IInv, TypeOK, AddInv, Open, Fail, TooLong, Crash, Closed
<1>4. AddInv'
  BY <1>1, <1>3 DEF AddInv, Open, Adding, file
<1>5. views' = views \/ views' = [r \in Readers |-> NoView]
  BY DEF Fail, TooLong, Crash
<1>6. start' \in Nat
  BY DEF IInv, TypeOK, Fail, TooLong, Crash
<1>7. TypeOK'
  BY <1>1, <1>3, <1>5, <1>6 DEF IInv, TypeOK, Steps, file
<1>8. ViewsInside'
  BY <1>1, <1>5 DEF IInv, ViewsInside, file
<1> QED
  BY <1>2, <1>4, <1>7, <1>8 DEF IInv

-----------------------------------------------------------------------------
(* Initialize                                                              *)

LEMMA InitializeIInv == IInv /\ (Initialize \/ Reserve) => IInv'
<1> SUFFICES ASSUME IInv, Initialize \/ Reserve PROVE IInv'
  OBVIOUS
<1> USE ListAssumption, DataStartType
<1>1. UNCHANGED <<index, payload, realSize, blob, start, views, acked>>
  BY DEF Initialize, Reserve
<1>2. size < DataStart /\ payload = << >> /\ count = 0 /\ Open
  BY DEF IInv, Layout, AddInv, Initialize, Reserve, Free, TypeOK
<1>3. count' = 0 /\ size' \in Nat /\ size' >= size /\ size' <= DataStart
      /\ pc' \in {"reserve", "idle"} /\ (pc' = "reserve" => size' < DataStart)
  BY <1>2 DEF IInv, TypeOK, AddInv, Open, Initialize, Reserve, Free, EntrySize
<1>4. TypeOK'
  BY <1>1, <1>3 DEF IInv, TypeOK, Steps
<1>5. Layout'
  <2>1. Len(<< >>) = 0
    OBVIOUS
  <2>2. payload' = << >> /\ Len(payload') = 0 /\ count' = 0
    BY <1>1, <1>2, <1>3, <2>1
  <2>3. ASSUME size' >= DataStart PROVE size' - DataStart = 0
    <3>1. size' = DataStart
      BY <1>3, <2>3
    <3> QED
      BY <3>1
  <2> QED
    BY <1>3, <2>2, <2>3 DEF Layout
<1>6. OffsetsOrdered' /\ OffsetsFit'
  BY <1>1, <1>3 DEF IInv, OffsetsOrdered, OffsetsFit
<1>7. AckedDurable' /\ NoOverlap'
  BY <1>1, <1>2, <1>3 DEF IInv, AckedDurable, NoOverlap, Slots, Holds
<1>8. AddInv'
  BY <1>1, <1>2, <1>3 DEF IInv, AddInv, Open, Adding, Initialize, Reserve, Free
<1>9. ViewsInside'
  BY <1>1, <1>2, <1>3 DEF IInv, ViewsInside, TypeOK, View
<1> QED
  BY <1>4, <1>5, <1>6, <1>7, <1>8, <1>9 DEF IInv

-----------------------------------------------------------------------------
(* The steps of an Add                                                     *)

LEMMA AddBeginIInv ==
  ASSUME IInv, NEW b \in Blobs, AddBegin(b)
  PROVE  IInv'
<1> USE ListAssumption, DataStartType
<1>1. UNCHANGED <<size, count, index, payload, realSize, views, acked>>
      /\ blob' = b /\ pc' = "copy" /\ pc = "idle" /\ Open
      /\ realSize = count /\ count < MaxSize
  BY DEF AddBegin, file, Free, IInv, AddInv
<1>2. start' = (IF size < DataStart THEN DataStart ELSE size) /\ start' <= MaxOffset
  BY DEF AddBegin
<1>3. start' \in Nat /\ start' >= DataStart /\ Len(payload) = start' - DataStart
  <2>1. CASE size < DataStart
    BY <1>2, <2>1 DEF IInv, Layout
  <2>2. CASE ~(size < DataStart)
    BY <1>2, <2>2 DEF IInv, TypeOK, Layout
  <2> QED
    BY <2>1, <2>2
<1>4. TypeOK'
  BY <1>1, <1>3 DEF IInv, TypeOK, Steps
<1>5. Layout' /\ ViewsInside' /\ OffsetsOrdered' /\ OffsetsFit' /\ AckedDurable' /\ NoOverlap'
  BY <1>1 DEF IInv, Layout, ViewsInside, OffsetsOrdered, OffsetsFit, AckedDurable,
     NoOverlap, Holds
<1>6. \A i \in 0 .. count - 1 : index[i] <= start'
  BY <1>2, <1>3 DEF IInv, OffsetsOrdered, TypeOK, Slots
<1>7. ASSUME NEW i \in Slots, acked[i] # NoBlob
      PROVE  index[i] - DataStart + Len(acked[i]) <= start' - DataStart
  <2>1. i \in 0 .. count - 1 /\ Holds(index[i], acked[i]) /\ acked[i] \in Seq(Byte)
        /\ index[i] \in Nat
    BY <1>7 DEF IInv, AckedDurable, TypeOK, Slots
  <2>2. Len(acked[i]) \in Nat
    BY <2>1
  <2>3. CASE Len(acked[i]) = 0
    BY <2>1, <2>3, <1>6, <1>3
  <2>4. CASE Len(acked[i]) # 0
    <3>1. Len(acked[i]) \in 1 .. Len(acked[i])
      BY <2>2, <2>4
    <3>2. index[i] - DataStart + Len(acked[i]) <= Len(payload)
      BY <3>1, <2>1 DEF Holds
    <3> QED
      BY <3>2, <1>3
  <2> QED
    BY <2>3, <2>4
<1>8. Len(b) \in Nat
  OBVIOUS
<1>9. AddInv'
  BY <1>1, <1>2, <1>3, <1>6, <1>7, <1>8 DEF AddInv, Adding, Open
<1> QED
  BY <1>4, <1>5, <1>9 DEF IInv

LEMMA CopyBytesIInv == IInv /\ CopyBytes => IInv'
<1> SUFFICES ASSUME IInv, CopyBytes PROVE IInv'
  OBVIOUS
<1> USE ListAssumption, DataStartType
<1> DEFINE k == Len(payload) - (start - DataStart) + 1
<1>1. pc = "copy" /\ Adding /\ blob \in Seq(Byte) /\ payload \in Seq(Byte) /\ start \in Nat
      /\ size \in Nat
  BY DEF CopyBytes, Adding, IInv, AddInv, TypeOK
<1>2. k \in 1 .. Len(blob) /\ Len(payload) \in Nat /\ Len(blob) \in Nat
  <2>1. start - DataStart <= Len(payload) /\ start >= DataStart
    BY <1>1 DEF IInv, AddInv
  <2>2. Len(payload) < start - DataStart + Len(blob)
    BY DEF CopyBytes
  <2>3. Len(payload) \in Nat /\ Len(blob) \in Nat
    BY <1>1
  <2> QED
    BY <1>1, <2>1, <2>2, <2>3
<1>3. blob[k] \in Byte
  BY <1>1, <1>2
<1>4. payload' = Append(payload, blob[k]) /\ size' = DataStart + Len(payload')
      /\ UNCHANGED <<count, index, realSize, pc, blob, start, views, acked>>
  BY DEF CopyBytes
<1>5. /\ payload' \in Seq(Byte) /\ Len(payload') = Len(payload) + 1
      /\ \A j \in 1 .. Len(payload) : payload'[j] = payload[j]
      /\ payload'[Len(payload) + 1] = blob[k]
  BY <1>1, <1>3, <1>4, AppendByte
<1>6. size' \in Nat /\ size' >= size /\ size' >= DataStart
  <2>1. size' = DataStart + Len(payload) + 1
    BY <1>2, <1>4, <1>5
  <2>2. size <= DataStart + Len(payload)
    BY <1>1, <1>2 DEF IInv, Layout
  <2> QED
    BY <1>1, <1>2, <2>1, <2>2
<1> HIDE DEF k
<1>7. TypeOK' /\ Layout' /\ ViewsInside' /\ OffsetsOrdered' /\ OffsetsFit'
  <2>1. TypeOK'
    BY <1>4, <1>5, <1>6 DEF IInv, TypeOK
  <2>2. Layout'
    BY <1>2, <1>4, <1>5, <1>6 DEF Layout
  <2>3. ViewsInside'
    BY <1>1, <1>4, <1>6 DEF IInv, TypeOK, ViewsInside, View
  <2>4. OffsetsOrdered' /\ OffsetsFit'
    BY <1>1, <1>4, <1>6 DEF IInv, TypeOK, OffsetsOrdered, OffsetsFit, Slots
  <2> QED
    BY <2>1, <2>2, <2>3, <2>4
<1>8. ASSUME NEW i \in Slots, acked[i] # NoBlob
      PROVE  i < count /\ Holds(index[i], acked[i])'
  <2>1. i < count /\ Holds(index[i], acked[i]) /\ index[i] \in Nat /\ i \in 0 .. count - 1
        /\ acked[i] \in Seq(Byte)
    BY <1>8 DEF IInv, AckedDurable, TypeOK, Slots
  <2>2. index[i] >= DataStart
    BY <2>1 DEF IInv, OffsetsOrdered
  <2>3. ASSUME NEW j \in 1 .. Len(acked[i])
        PROVE  /\ index[i] - DataStart + j <= Len(payload')
               /\ payload'[index[i] - DataStart + j] = acked[i][j]
    <3>1. /\ index[i] - DataStart + j <= Len(payload)
          /\ payload[index[i] - DataStart + j] = acked[i][j]
      BY <2>1 DEF Holds
    <3>2. index[i] - DataStart + j \in 1 .. Len(payload)
      BY <3>1, <2>1, <2>2, <1>2
    <3> QED
      BY <3>1, <3>2, <1>2, <1>5
  <2> QED
    BY <2>1, <2>3, <1>4 DEF Holds
<1>9. AckedDurable' /\ NoOverlap'
  BY <1>4, <1>8 DEF IInv, AckedDurable, NoOverlap
<1>10. AddInv'
  <2>1. ASSUME NEW j \in 1 .. Len(payload') - (start - DataStart)
        PROVE  payload'[start - DataStart + j] = blob[j]
    <3>1. CASE j = k
      BY <3>1, <1>1, <1>2, <1>5 DEF k
    <3>2. CASE j # k
      <4>0. start - DataStart \in Nat
        BY <1>1 DEF IInv, AddInv
      <4>1. j \in 1 .. Len(payload) - (start - DataStart) /\ start - DataStart + j \in 1 .. Len(payload)
        BY <4>0, <3>2, <1>2, <1>5 DEF k
      <4>2. payload[start - DataStart + j] = blob[j]
        BY <4>1, <1>1 DEF IInv, AddInv
      <4> QED
        BY <4>1, <4>2, <1>5
    <3> QED
      BY <3>1, <3>2
  <2>2. start - DataStart <= Len(payload') /\ Len(payload') <= start - DataStart + Len(blob)
    BY <1>1, <1>2, <1>5 DEF k, IInv, AddInv
  <2> QED
    BY <1>1, <1>4, <2>1, <2>2 DEF IInv, AddInv, Adding, Open
<1> QED
  BY <1>7, <1>9, <1>10 DEF IInv

LEMMA CopyDoneIInv == IInv /\ CopyDone => IInv'
<1> SUFFICES ASSUME IInv, CopyDone PROVE IInv'
  OBVIOUS
<1> USE ListAssumption, DataStartType
<1>1. UNCHANGED <<size, count, index, payload, realSize, blob, start, views, acked>>
      /\ pc' = (IF size < start THEN "grow" ELSE "index") /\ pc = "copy"
      /\ Len(payload) = start - DataStart + Len(blob)
      /\ Len(blob) <= MaxOffset - start
  BY DEF CopyDone, file
<1>2. TypeOK' /\ Layout' /\ ViewsInside' /\ OffsetsOrdered' /\ OffsetsFit'
      /\ AckedDurable' /\ NoOverlap'
  BY <1>1 DEF IInv, TypeOK, Steps, Layout, ViewsInside, OffsetsOrdered, OffsetsFit,
     AckedDurable, NoOverlap, Holds
<1>3. size \in Nat /\ start \in Nat
  BY DEF IInv, TypeOK
<1>4. AddInv'
  BY <1>1, <1>3 DEF IInv, AddInv, Adding, Open
<1> QED
  BY <1>2, <1>4 DEF IInv

LEMMA GrowIInv == IInv /\ GrowToStart => IInv'
<1> SUFFICES ASSUME IInv, GrowToStart PROVE IInv'
  OBVIOUS
<1> USE ListAssumption, DataStartType
<1>1. UNCHANGED <<count, index, payload, realSize, blob, start, views, acked>>
      /\ pc' = "index" /\ pc = "grow" /\ size' = start
  BY DEF GrowToStart
<1>2. size \in Nat /\ start \in Nat /\ size < start /\ Adding /\ blob \in Seq(Byte)
      /\ start >= DataStart
  BY <1>1 DEF IInv, TypeOK, AddInv, Adding
<1>3. size < DataStart
  BY <1>2 DEF IInv, Layout, AddInv
<1>4. payload = << >> /\ count = 0 /\ Len(payload) = 0 /\ start = DataStart
  <2>1. payload = << >> /\ count = 0
    BY <1>3 DEF IInv, Layout
  <2> QED
    BY <2>1, <1>2 DEF IInv, AddInv
<1>5. TypeOK' /\ Layout' /\ OffsetsOrdered' /\ OffsetsFit'
  BY <1>1, <1>2, <1>4 DEF IInv, TypeOK, Steps, Layout, OffsetsOrdered, OffsetsFit
<1>6. ViewsInside'
  BY <1>1, <1>2 DEF IInv, TypeOK, View, ViewsInside
<1>7. AckedDurable' /\ NoOverlap'
  BY <1>1 DEF IInv, AckedDurable, NoOverlap, Holds
<1>8. AddInv'
  BY <1>1, <1>2 DEF IInv, AddInv, Adding, Open
<1> QED
  BY <1>5, <1>6, <1>7, <1>8 DEF IInv

LEMMA WriteIndexIInv == IInv /\ WriteIndex => IInv'
<1> SUFFICES ASSUME IInv, WriteIndex PROVE IInv'
  OBVIOUS
<1> USE ListAssumption, DataStartType
<1>1. UNCHANGED <<size, count, payload, blob, start, views, acked>>
      /\ pc' = "count" /\ pc = "index" /\ realSize = count /\ realSize' = count + 1
      /\ index' = [index EXCEPT ![count] = start]
  BY DEF WriteIndex, IInv, AddInv, Open
<1>2. count \in Slots /\ count \in Nat /\ count + 1 \in 0 .. MaxSize /\ start \in Nat /\ Adding
      /\ Open /\ Open'
  BY <1>1 DEF IInv, TypeOK, AddInv, Adding, Slots, Open, Closed
<1>3. \A i \in Slots : i < count => index'[i] = index[i]
  BY <1>1, <1>2 DEF IInv, TypeOK, Slots
<1>4. index'[count] = start /\ index' \in [Slots -> Nat]
  BY <1>1, <1>2 DEF IInv, TypeOK
<1>5. TypeOK'
  BY <1>1, <1>2, <1>4 DEF IInv, TypeOK, Steps
<1>6. Layout' /\ ViewsInside'
  BY <1>1 DEF IInv, Layout, ViewsInside
<1>7. \A i \in 0 .. count - 1 : i \in Slots /\ index'[i] = index[i]
  BY <1>2, <1>3 DEF Slots
<1>8. OffsetsOrdered'
  BY <1>1, <1>2, <1>7 DEF IInv, OffsetsOrdered
<1>9. \A i \in Slots : acked[i] # NoBlob => i < count
  BY DEF IInv, AckedDurable
<1>13. OffsetsFit'
  BY <1>1, <1>3, <1>9 DEF IInv, OffsetsFit
<1>10. AckedDurable'
  BY <1>1, <1>3, <1>9 DEF IInv, AckedDurable, Holds
<1>11. NoOverlap'
  <2> SUFFICES ASSUME NEW i \in Slots, i + 1 < count, acked[i] # NoBlob
               PROVE  index'[i] + Len(acked[i]) <= index'[i + 1]
    BY <1>1 DEF NoOverlap
  <2>1. i + 1 \in Slots /\ i < count
    BY <1>2 DEF Slots
  <2> QED
    BY <2>1, <1>3 DEF IInv, NoOverlap
<1>12. AddInv'
  BY <1>1, <1>2, <1>3, <1>4, <1>7, <1>9 DEF IInv, AddInv, Adding
<1> QED
  BY <1>5, <1>6, <1>8, <1>10, <1>11, <1>12, <1>13 DEF IInv

LEMMA WriteCountIInv == IInv /\ WriteCount => IInv'
<1> SUFFICES ASSUME IInv, WriteCount PROVE IInv'
  OBVIOUS
<1> USE ListAssumption, DataStartType
<1>1. UNCHANGED <<size, index, payload, realSize, start, views>>
      /\ pc = "count" /\ pc' = "idle" /\ blob' = NoBlob
      /\ realSize = count + 1 /\ count' = count + 1 /\ index[count] = start
      /\ acked' = [acked EXCEPT ![count] = blob]
  <2>1. realSize = count + 1 /\ count \in Int
    BY DEF WriteCount, IInv, AddInv, TypeOK
  <2>2. realSize - 1 = count
    BY <2>1
  <2> QED
    BY <2>1, <2>2 DEF WriteCount, IInv, AddInv
<1>2. count \in Slots /\ count \in Nat /\ count + 1 \in 0 .. MaxSize /\ start \in Nat
      /\ Adding /\ blob \in Blobs /\ blob \in Seq(Byte) /\ blob # NoBlob
  BY <1>1 DEF IInv, TypeOK, AddInv, Adding, Slots
<1>3. /\ start >= DataStart /\ start <= MaxOffset /\ size >= start /\ size \in Nat
      /\ Len(payload) = start - DataStart + Len(blob) /\ Len(blob) \in Nat
      /\ \A i \in 0 .. count - 1 : index[i] <= start
      /\ \A k \in 1 .. Len(payload) - (start - DataStart) :
            payload[start - DataStart + k] = blob[k]
      /\ \A i \in Slots : acked[i] # NoBlob =>
            index[i] - DataStart + Len(acked[i]) <= start - DataStart
  BY <1>1, <1>2 DEF IInv, TypeOK, AddInv
<1>4. TypeOK'
  BY <1>1, <1>2 DEF IInv, TypeOK, Steps
<1>5. Layout'
  <2>1. size >= DataStart
    BY <1>2, <1>3
  <2> QED
    BY <1>1, <1>3, <2>1 DEF IInv, Layout
<1>6. ViewsInside'
  BY <1>1 DEF IInv, ViewsInside
<1>7. OffsetsOrdered'
  <2>1. ASSUME NEW i \in 0 .. count
        PROVE  index[i] >= DataStart /\ index[i] <= size
    <3>1. CASE i = count
      BY <3>1, <1>1, <1>3
    <3>2. CASE i # count
      BY <3>2, <1>2 DEF IInv, OffsetsOrdered
    <3> QED
      BY <3>1, <3>2
  <2>2. ASSUME NEW j \in 0 .. count, NEW i \in 0 .. j
        PROVE  index[i] <= index[j]
    <3>1. CASE j = count /\ i = count
      BY <3>1, <1>1, <1>2
    <3>2. CASE j = count /\ i # count
      <4>1. i \in 0 .. count - 1
        BY <1>2, <3>2
      <4> QED
        BY <3>2, <4>1, <1>1, <1>3
    <3>3. CASE j # count
      BY <3>3, <1>2 DEF IInv, OffsetsOrdered
    <3> QED
      BY <3>1, <3>2, <3>3
  <2>3. count' - 1 = count
    BY <1>1, <1>2
  <2> QED
    BY <1>1, <2>1, <2>2, <2>3 DEF OffsetsOrdered
<1>8. OffsetsFit'
  <2> SUFFICES ASSUME NEW i \in Slots, acked'[i] # NoBlob
               PROVE  index[i] + Len(acked'[i]) <= MaxOffset
    BY <1>1 DEF OffsetsFit
  <2>1. CASE i = count
    <3>1. acked'[i] = blob /\ index[i] = start
      BY <1>1, <1>2, <2>1 DEF IInv, TypeOK
    <3>2. start + Len(blob) <= MaxOffset
      BY <1>1 DEF IInv, AddInv
    <3> QED
      BY <3>1, <3>2
  <2>2. CASE i # count
    <3>1. acked'[i] = acked[i]
      BY <1>1, <2>2 DEF IInv, TypeOK
    <3> QED
      BY <3>1 DEF IInv, OffsetsFit
  <2> QED
    BY <2>1, <2>2
<1>9. AckedDurable'
  <2> SUFFICES ASSUME NEW i \in Slots, acked'[i] # NoBlob
               PROVE  i < count' /\ Holds(index[i], acked[i])'
    BY <1>1 DEF AckedDurable
  <2>1. CASE i = count
    <3>1. acked'[i] = blob
      BY <1>1, <1>2, <2>1 DEF IInv, TypeOK
    <3>2. Len(payload) - (start - DataStart) = Len(blob)
      BY <1>2, <1>3
    <3>3. Holds(start, blob)
      BY <1>2, <1>3, <3>2 DEF Holds
    <3> QED
      BY <1>1, <1>2, <2>1, <3>1, <3>3 DEF Holds
  <2>2. CASE i # count
    <3>1. acked'[i] = acked[i]
      BY <1>1, <2>2 DEF IInv, TypeOK
    <3>2. i < count /\ Holds(index[i], acked[i])
      BY <2>2, <3>1 DEF IInv, AckedDurable
    <3> QED
      BY <1>1, <1>2, <3>1, <3>2 DEF Holds, Slots
  <2> QED
    BY <2>1, <2>2
<1>10. NoOverlap'
  <2> SUFFICES ASSUME NEW i \in Slots, i + 1 < count + 1, acked'[i] # NoBlob
               PROVE  index[i] + Len(acked'[i]) <= index[i + 1]
    BY <1>1 DEF NoOverlap
  <2>1. i \in Nat /\ i < count /\ acked'[i] = acked[i] /\ acked[i] # NoBlob
        /\ acked[i] \in Seq(Byte) /\ index[i] \in Nat
    BY <1>1, <1>2 DEF IInv, TypeOK, Slots
  <2>2. CASE i + 1 < count
    BY <2>1, <2>2 DEF IInv, NoOverlap
  <2>3. CASE ~(i + 1 < count)
    <3>1. i + 1 = count /\ index[i + 1] = start
      BY <1>1, <1>2, <2>1, <2>3
    <3>2. Len(acked[i]) \in Nat
      BY <2>1
    <3>3. index[i] - DataStart + Len(acked[i]) <= start - DataStart
      BY <1>3, <2>1
    <3> QED
      BY <1>2, <2>1, <3>1, <3>2, <3>3
  <2> QED
    BY <2>2, <2>3
<1>11. AddInv'
  BY <1>1, <1>2 DEF AddInv, Adding, IInv
<1> QED
  BY <1>4, <1>5, <1>6, <1>7, <1>8, <1>9, <1>10, <1>11 DEF IInv

-----------------------------------------------------------------------------
(* What the views show                                                     *)

\* Steps that leave the views alone, keep the blobs the views were opened for
\* where they are, and start no Add.
LEMMA QuietViewInv ==
  ASSUME IInv, IInv', ViewInv, UNCHANGED <<views, acked, start, index>>,
         count' = count, Adding' => Adding
  PROVE  ViewInv'
  BY DEF ViewInv, ViewsApart, IInv, Adding

LEMMA OpenReaderViewInv ==
  ASSUME IInv, ViewInv, NEW r \in Readers, NEW i \in Slots, OpenReader(r, i)
  PROVE  ViewInv'
<1> USE ListAssumption, DataStartType
<1> DEFINE v == [slot |-> i, lo |-> StartOf(i), hi |-> EndOf(i)]
<1>1. /\ views' = [views EXCEPT ![r] = v]
      /\ UNCHANGED <<size, count, index, payload, acked, start>>
      /\ ~Adding /\ ~Adding'
  BY DEF OpenReader, file, Free, Adding
<1>2. /\ realSize = count /\ i < count /\ count \in Nat /\ i \in Nat /\ count <= MaxSize
      /\ v.slot = i /\ v.lo = index[i] /\ index[i] \in Nat
  BY DEF OpenReader, IInv, AddInv, Free, Open, TypeOK, Slots, StartOf
<1>3. ASSUME acked[i] # NoBlob PROVE index[i] + Len(acked[i]) <= EndOf(i)
  <2>1. Holds(index[i], acked[i]) /\ acked[i] \in Seq(Byte) /\ index[i] >= DataStart
        /\ index[i] <= size
    BY <1>2, <1>3 DEF IInv, AckedDurable, TypeOK, OffsetsOrdered
  <2>2. size \in Nat /\ Len(acked[i]) \in Nat /\ Len(payload) = size - DataStart
    BY <1>2, <2>1 DEF IInv, TypeOK, Layout
  <2>3. index[i] + Len(acked[i]) <= size
    <3>1. CASE Len(acked[i]) = 0
      BY <1>2, <2>1, <2>2, <3>1
    <3>2. CASE Len(acked[i]) # 0
      <4>1. Len(acked[i]) \in 1 .. Len(acked[i])
        BY <2>2, <3>2
      <4>2. index[i] - DataStart + Len(acked[i]) <= Len(payload)
        BY <4>1, <2>1 DEF Holds
      <4> QED
        BY <4>2, <1>2, <2>2
    <3> QED
      BY <3>1, <3>2
  <2>4. CASE i + 1 < count
    BY <1>2, <1>3, <2>3, <2>4 DEF EndOf, IInv, NoOverlap
  <2>5. CASE ~(i + 1 < count)
    BY <1>2, <2>3, <2>5 DEF EndOf
  <2> QED
    BY <2>4, <2>5
<1>4. ASSUME NEW j \in Slots, j > i, acked[j] # NoBlob
      PROVE  EndOf(i) <= index[j]
  <2>1. j < count /\ j \in Nat /\ i + 1 < count /\ i + 1 \in Slots
    BY <1>2, <1>4 DEF IInv, AckedDurable, Slots
  <2>2. index[i + 1] >= DataStart /\ index[i + 1] \in Nat
    BY <1>2, <2>1 DEF IInv, OffsetsOrdered, TypeOK
  <2>3. EndOf(i) = index[i + 1]
    BY <1>2, <2>1, <2>2 DEF EndOf, EntrySize
  <2>4. index[i + 1] <= index[j]
    BY <1>2, <1>4, <2>1 DEF IInv, OffsetsOrdered
  <2> QED
    BY <2>3, <2>4
<1>5. \A s \in Readers : s # r => views'[s] = views[s]
  BY <1>1 DEF IInv, TypeOK
<1>6. views'[r] = v
  BY <1>1 DEF IInv, TypeOK
<1> HIDE DEF v
<1>7. v.hi = EndOf(i)
  BY DEF v
<1>8. ViewsApart'
  BY <1>1, <1>2, <1>4, <1>5, <1>6, <1>7 DEF ViewInv, ViewsApart
<1> QED
  BY <1>1, <1>2, <1>3, <1>5, <1>6, <1>7, <1>8 DEF ViewInv

LEMMA NextViewInv == IInv /\ IInv' /\ ViewInv /\ [Next]_vars => ViewInv'
<1> SUFFICES ASSUME IInv, IInv', ViewInv, [Next]_vars PROVE ViewInv'
  OBVIOUS
<1> USE ListAssumption, DataStartType
<1>1. CASE NewBinaryList \/ Initialize \/ Reserve \/ CopyBytes \/ CopyDone \/ GrowToStart
           \/ TooLong \/ Fail \/ UNCHANGED vars
  <2>1. UNCHANGED <<views, acked, start, index>>
    BY <1>1 DEF NewBinaryList, Initialize, Reserve, CopyBytes, CopyDone, GrowToStart,
       TooLong, Fail, file, vars
  <2>2. count' = count
    BY <1>1 DEF NewBinaryList, Initialize, Reserve, CopyBytes, CopyDone, GrowToStart,
       TooLong, Fail, file, vars, IInv, Layout, TypeOK, AddInv, Free, EntrySize
  <2>3. Adding' => Adding
    BY <1>1 DEF NewBinaryList, Initialize, Reserve, CopyBytes, CopyDone, GrowToStart,
       TooLong, Fail, vars, Adding, Free
  <2> QED
    BY <2>1, <2>2, <2>3, QuietViewInv
<1>2. ASSUME NEW b \in Blobs, AddBegin(b)
      PROVE  ViewInv'
  <2>1. UNCHANGED <<views, acked, index, count, size>> /\ start' >= size
    BY <1>2 DEF AddBegin, file, IInv, TypeOK
  <2>2. \A r \in Readers : views[r] # NoView => views[r].hi <= start'
    BY <1>2, <2>1 DEF IInv, TypeOK, ViewsInside, View, AddBegin
  <2> QED
    BY <2>1, <2>2 DEF ViewInv, ViewsApart
<1>3. CASE WriteIndex
  <2>1. /\ UNCHANGED <<views, acked, start, count>> /\ Adding /\ count \in Int
        /\ index' = [index EXCEPT ![count] = start]
    BY <1>3 DEF WriteIndex, IInv, AddInv, Adding, Open, TypeOK
  <2>2. \A i \in Slots : i < count => index'[i] = index[i]
    BY <2>1 DEF IInv, TypeOK, Slots
  <2>3. \A i \in Slots : acked[i] # NoBlob => i < count
    BY DEF IInv, AckedDurable
  <2>4. \A r \in Readers : views[r] # NoView => views[r].slot \in Slots
    BY DEF IInv, TypeOK, View
  <2>5. ViewsApart'
    BY <2>1, <2>2, <2>3 DEF ViewInv, ViewsApart
  <2> QED
    BY <2>1, <2>2, <2>4, <2>5 DEF ViewInv
<1>4. CASE WriteCount
  <2>1. /\ UNCHANGED <<views, start, index>> /\ Adding /\ ~Adding'
        /\ count \in Nat /\ count \in Slots /\ count' = count + 1 /\ index[count] = start
        /\ acked' = [acked EXCEPT ![count] = blob]
    <3>1. realSize = count + 1 /\ count \in Int /\ Adding /\ pc = "count"
      BY <1>4 DEF WriteCount, IInv, AddInv, TypeOK, Adding
    <3>2. realSize - 1 = count
      BY <3>1
    <3> QED
      BY <1>4, <3>1, <3>2 DEF WriteCount, IInv, AddInv, TypeOK, Adding, Slots
  <2>2. \A i \in Slots : i # count => acked'[i] = acked[i]
    BY <2>1 DEF IInv, TypeOK
  <2>3. \A r \in Readers : views[r] # NoView =>
          views[r].slot \in Slots /\ views[r].slot < count /\ views[r].hi <= start
    BY <2>1 DEF ViewInv, IInv, TypeOK, View
  <2>4. ViewsApart'
    BY <2>1, <2>2, <2>3 DEF ViewInv, ViewsApart
  <2>5. \A r \in Readers : views[r] # NoView =>
          views[r].slot < count' /\ acked'[views[r].slot] = acked[views[r].slot]
    BY <2>1, <2>2, <2>3 DEF Slots
  <2> QED
    BY <2>1, <2>4, <2>5 DEF ViewInv
<1>5. ASSUME NEW r \in Readers, DropReader(r)
      PROVE  ViewInv'
  <2>1. UNCHANGED <<acked, index, count, start, pc>>
        /\ \A s \in Readers : views'[s] # NoView => views'[s] = views[s]
    BY <1>5 DEF DropReader, file, IInv, TypeOK
  <2> QED
    BY <2>1 DEF ViewInv, ViewsApart, Adding
<1>6. ASSUME NEW r \in Readers, NEW i \in Slots, OpenReader(r, i)
      PROVE  ViewInv'
  BY <1>6, OpenReaderViewInv
<1>7. CASE Crash
  BY <1>7 DEF Crash, ViewInv, ViewsApart
<1> QED
  BY <1>1, <1>2, <1>3, <1>4, <1>5, <1>6, <1>7 DEF Next, AddStep

-----------------------------------------------------------------------------
(* The theorems                                                            *)

LEMMA StutterIInv == IInv /\ UNCHANGED vars => IInv'
  BY DEF IInv, vars, TypeOK, Layout, AddInv, ViewsInside, OffsetsOrdered, OffsetsFit,
     AckedDurable, NoOverlap, Holds, Adding, Open

LEMMA NextIInv == IInv /\ [Next]_vars => IInv'
<1> SUFFICES ASSUME IInv, [Next]_vars PROVE IInv'
  OBVIOUS
<1>1. CASE NewBinaryList
  BY <1>1, OpenIInv
<1>2. CASE Initialize \/ Reserve
  BY <1>2, InitializeIInv
<1>3. ASSUME NEW b \in Blobs, AddBegin(b)
      PROVE  IInv'
  BY <1>3, AddBeginIInv
<1>4. CASE AddStep
  BY <1>4, CopyBytesIInv, CopyDoneIInv, GrowIInv, WriteIndexIInv, WriteCountIInv
     DEF AddStep
<1>5. ASSUME NEW r \in Readers, DropReader(r) \/ \E i \in Slots : OpenReader(r, i)
      PROVE  IInv'
  BY <1>5, ReaderIInv
<1>6. CASE TooLong \/ Fail \/ Crash
  BY <1>6, StopIInv
<1>7. CASE UNCHANGED vars
  BY <1>7, StutterIInv
<1> QED
  BY <1>1, <1>2, <1>3, <1>4, <1>5, <1>6, <1>7 DEF Next

\* The inductive invariant holds throughout, whatever fails and whenever the
\* process dies: the conjunction of the parts named in BinaryList.
THEOREM Inductive == Spec => []IInv
<1>1. IInv /\ [Next]_vars => IInv'
  BY NextIInv
<1> QED
  BY <1>1, InitIInv, PTL DEF Spec

\* The variables keep their types; in particular the count never exceeds the
\* capacity, so NewBinaryList never refuses a file this code has written.
THEOREM TypeCorrect == Spec => []TypeOK
<1>1. IInv => TypeOK
  BY DEF IInv
<1> QED
  BY <1>1, Inductive, PTL

\* The offsets of the published blobs rise, lie behind the index and inside the
\* stream: the ErrCorrupt branches of Reader are unreachable.
THEOREM OffsetsAreOrdered == Spec => []OffsetsOrdered
<1>1. IInv => OffsetsOrdered
  BY DEF IInv
<1> QED
  BY <1>1, Inductive, PTL

\* An Add that returned success is never undone, by whatever happens later.
THEOREM AcknowledgedIsDurable == Spec => []AckedDurable
<1>1. IInv => AckedDurable
  BY DEF IInv
<1> QED
  BY <1>1, Inductive, PTL

\* Every acknowledged blob ends at a 32-bit offset.
THEOREM OffsetsAre32Bit == Spec => []OffsetsFit
<1>1. IInv => OffsetsFit
  BY DEF IInv
<1> QED
  BY <1>1, Inductive, PTL

\* No blob runs into the next one.
THEOREM BlobsDoNotOverlap == Spec => []NoOverlap
<1>1. IInv => NoOverlap
  BY DEF IInv
<1> QED
  BY <1>1, Inductive, PTL

\* No step of any kind touches a byte a SubReader can see, so reading one
\* without l.mu is safe. The invariant part used is ViewsInside.
THEOREM ViewsAreStable == Spec => ViewsStable
<1> DEFINE Stable == \A r \in Readers : views[r] # NoView =>
             \A k \in views[r].lo - DataStart + 1 .. views[r].hi - DataStart :
                 payload'[k] = payload[k]
<1>1. ASSUME IInv, Next PROVE Stable
  <2>1. CASE CopyBytes
    <3> SUFFICES ASSUME NEW r \in Readers, views[r] # NoView,
                        NEW k \in views[r].lo - DataStart + 1 .. views[r].hi - DataStart
                 PROVE  payload'[k] = payload[k]
      OBVIOUS
    <3>1. /\ DataStart <= views[r].lo /\ views[r].hi <= size /\ views[r].lo <= views[r].hi
          /\ views[r].lo \in Nat /\ views[r].hi \in Nat /\ size \in Nat
      BY <1>1 DEF IInv, ViewsInside, TypeOK, View
    <3>2. k \in 1 .. Len(payload) /\ payload \in Seq(Byte)
      BY <1>1, <3>1, DataStartType DEF IInv, Layout, TypeOK
    <3>3. \E e \in Byte : payload' = Append(payload, e)
      <4>1. /\ blob \in Seq(Byte)
            /\ Len(payload) - (start - DataStart) + 1 \in 1 .. Len(blob)
        BY <1>1, <2>1, DataStartType, ListAssumption
           DEF CopyBytes, IInv, AddInv, Adding, TypeOK
      <4> QED
        BY <4>1, <2>1 DEF CopyBytes
    <3> QED
      BY <3>2, <3>3, AppendByte
  <2>2. CASE UNCHANGED payload
    BY <2>2
  <2>3. CopyBytes \/ UNCHANGED payload
    BY <1>1 DEF Next, AddStep, NewBinaryList, Initialize, Reserve, AddBegin,
       CopyDone, GrowToStart, WriteIndex, WriteCount, TooLong, Fail, Crash,
       DropReader, OpenReader, file
  <2> QED
    BY <2>1, <2>2, <2>3
<1>2. IInv /\ [Next]_vars => [Stable]_vars
  BY <1>1
<1> QED
  BY <1>2, Inductive, PTL DEF Spec, ViewsStable

\* What a view says of the file holds throughout.
THEOREM ViewsAreTrue == Spec => []ViewInv
<1>1. Init => ViewInv
  BY DEF Init, ViewInv, ViewsApart
<1>2. IInv /\ IInv' /\ ViewInv /\ [Next]_vars => ViewInv'
  BY NextViewInv
<1> QED
  BY <1>1, <1>2, Inductive, PTL DEF Spec

\* A SubReader shows its whole blob as long as it is held, and no byte of another
\* one: the end it was opened with, even when that was the end of the stream, lies
\* before every blob added later.
THEOREM ViewsAreExact == Spec => []ViewsExact
<1>1. ViewInv => ViewsApart
  BY DEF ViewInv
<1>2. IInv /\ ViewInv => ViewsShowBlob
  BY DEF IInv, TypeOK, View, ViewInv, AckedDurable, ViewsShowBlob
<1>3. IInv /\ ViewInv => ViewsExact
  BY <1>1, <1>2 DEF ViewsExact
<1> QED
  BY <1>3, Inductive, ViewsAreTrue, PTL

-----------------------------------------------------------------------------
(* BinaryList implements BlobLog                                           *)

\* The log that the state stands for, as RefinesLog maps it.
Log == [n \in 1 .. count |-> Stored(n - 1)]

\* Where blob i ends, counted from DataStart.
Hi(i) == IF i + 1 < count THEN index[i + 1] - DataStart ELSE TailEnd

LEMMA StoredIsPart ==
  /\ \A i : Stored(i) = SubSeq(payload, index[i] - DataStart + 1, Hi(i))
  /\ \A i : Stored(i)' = SubSeq(payload', index'[i] - DataStart + 1, Hi(i)')
  BY DEF Stored, Hi

\* The part of a sequence from m to n.
LEMMA PartOfSequence ==
  ASSUME NEW p \in Seq(Byte), NEW m \in Nat, NEW n \in Nat, m <= n, n <= Len(p)
  PROVE  /\ SubSeq(p, m + 1, n) \in Seq(Byte)
         /\ Len(SubSeq(p, m + 1, n)) = n - m
         /\ \A k \in 1 .. n - m : SubSeq(p, m + 1, n)[k] = p[m + k]
  OBVIOUS

\* Sequences with the same elements are the same.
LEMMA SameSequence ==
  ASSUME NEW p \in Seq(Byte), NEW q \in Seq(Byte), Len(p) = Len(q),
         \A k \in 1 .. Len(p) : p[k] = q[k]
  PROVE  p = q
  OBVIOUS

\* A blob that is stored lies in the payload.
LEMMA StoredInside ==
  ASSUME IInv, NEW i \in 0 .. count - 1
  PROVE  /\ i \in Slots /\ index[i] - DataStart \in Nat
         /\ Hi(i) \in Nat /\ TailEnd \in Nat
         /\ index[i] - DataStart <= Hi(i) /\ Hi(i) <= TailEnd /\ TailEnd <= Len(payload)
<1> USE ListAssumption, DataStartType
<1>1. /\ count \in Nat /\ count > 0 /\ count <= MaxSize /\ i \in Slots /\ i \in Nat
      /\ index[i] \in Nat /\ DataStart <= index[i] /\ index[i] <= size
      /\ size \in Nat /\ size >= DataStart /\ Len(payload) = size - DataStart
  BY DEF IInv, TypeOK, Layout, OffsetsOrdered, Slots
<1>2. /\ TailEnd \in Nat /\ TailEnd <= Len(payload)
      /\ \A j \in 0 .. count - 1 : index[j] - DataStart <= TailEnd
  <2>1. CASE Adding
    <3>1. /\ start - DataStart <= Len(payload)
          /\ start >= DataStart
          /\ \A j \in 0 .. count - 1 : index[j] <= start
      BY <2>1 DEF IInv, AddInv
    <3>2. start \in Nat /\ \A j \in 0 .. count - 1 : index[j] \in Nat
      BY <1>1 DEF IInv, TypeOK, Slots
    <3>3. TailEnd = start - DataStart
      BY <1>1, <2>1 DEF TailEnd
    <3> QED
      BY <1>1, <3>1, <3>2, <3>3
  <2>2. CASE ~Adding
    <3>1. TailEnd = size - DataStart
      BY <1>1, <2>2 DEF TailEnd
    <3>2. \A j \in 0 .. count - 1 : index[j] <= size /\ index[j] \in Nat
      BY <1>1 DEF IInv, OffsetsOrdered, TypeOK, Slots
    <3> QED
      BY <1>1, <3>1, <3>2
  <2> QED
    BY <2>1, <2>2
<1>3. CASE i + 1 < count
  <2>1. i + 1 \in 0 .. count - 1 /\ i + 1 \in Slots /\ i \in 0 .. i + 1
    BY <1>1, <1>3 DEF Slots
  <2>2. index[i] <= index[i + 1] /\ index[i + 1] \in Nat /\ DataStart <= index[i + 1]
    BY <1>1, <2>1 DEF IInv, OffsetsOrdered, TypeOK
  <2> QED
    BY <1>1, <1>2, <1>3, <2>1, <2>2 DEF Hi
<1>4. CASE ~(i + 1 < count)
  BY <1>1, <1>2, <1>4 DEF Hi
<1> QED
  BY <1>3, <1>4

\* A file of which the published part stays what it is stands for the same log.
LEMMA SameLog ==
  ASSUME IInv, IInv', count' = count,
         \A i \in 0 .. count - 1 : index'[i] = index[i],
         count > 0 => TailEnd' = TailEnd,
         \/ payload' = payload
         \/ \E e \in Byte : payload' = Append(payload, e)
  PROVE  Log' = Log
<1> USE DataStartType
<1>1. ASSUME NEW i \in 0 .. count - 1 PROVE Stored(i)' = Stored(i)
  <2> DEFINE a == index[i] - DataStart
             b == Hi(i)
  <2>1. count \in Nat /\ payload \in Seq(Byte) /\ payload' \in Seq(Byte)
    BY DEF IInv, TypeOK
  <2>2. a \in Nat /\ b \in Nat /\ a <= b /\ b <= Len(payload)
    BY StoredInside, <2>1
  <2>3. index'[i] - DataStart = a /\ Hi(i)' = b
    BY <2>1 DEF Hi
  <2>4. Len(payload) <= Len(payload') /\ \A k \in 1 .. Len(payload) : payload'[k] = payload[k]
    BY <2>1, AppendByte
  <2>5. Stored(i) = SubSeq(payload, a + 1, b) /\ Stored(i)' = SubSeq(payload', a + 1, b)
    BY <2>3, StoredIsPart
  <2> HIDE DEF a, b
  <2>6. b <= Len(payload')
    BY <2>1, <2>2, <2>4
  <2>7. \A k \in 1 .. b - a : payload'[a + k] = payload[a + k]
    BY <2>1, <2>2, <2>4
  <2>8. SubSeq(payload, a + 1, b) = SubSeq(payload', a + 1, b)
    <3> DEFINE p == SubSeq(payload, a + 1, b)
               q == SubSeq(payload', a + 1, b)
    <3>1. /\ p \in Seq(Byte) /\ Len(p) = b - a
          /\ \A k \in 1 .. b - a : p[k] = payload[a + k]
      BY <2>1, <2>2, PartOfSequence
    <3>2. /\ q \in Seq(Byte) /\ Len(q) = b - a
          /\ \A k \in 1 .. b - a : q[k] = payload'[a + k]
      BY <2>1, <2>2, <2>6, PartOfSequence
    <3> HIDE DEF p, q
    <3>3. \A k \in 1 .. Len(p) : p[k] = q[k]
      BY <2>7, <3>1, <3>2
    <3>4. p = q
      BY <3>1, <3>2, <3>3, SameSequence
    <3> QED
      BY <3>4 DEF p, q
  <2> QED
    BY <2>5, <2>8
<1>2. count \in Nat
  BY DEF IInv, TypeOK
<1>3. \A n \in 1 .. count : Stored(n - 1)' = Stored(n - 1)
  BY <1>1, <1>2
<1> QED
  BY <1>3 DEF Log

\* The log as a sequence.
LEMMA LogLength ==
  ASSUME IInv
  PROVE  /\ count \in Nat /\ Len(Log) = count
         /\ \A i \in 1 .. count : Log[i] = Stored(i - 1)
         /\ (Log = << >> <=> count = 0)
<1>1. count \in Nat
  BY DEF IInv, TypeOK
<1> QED
  BY <1>1 DEF Log

LEMMA LogLengthNext ==
  ASSUME IInv'
  PROVE  /\ count' \in Nat /\ Len(Log') = count'
         /\ \A i \in 1 .. count' : Log'[i] = Stored(i - 1)'
<1>1. count' \in Nat
  BY DEF IInv, TypeOK
<1> QED
  BY <1>1 DEF Log

\* When an Add ends without a blob, what it has written becomes the tail of the
\* last one.
LEMMA SpillLog ==
  ASSUME IInv, IInv', UNCHANGED file, ~Adding'
  PROVE  BL!Spill \/ Log' = Log
<1> USE DataStartType
<1>1. CASE count = 0
  BY <1>1, SameLog DEF file, IInv, TypeOK
<1>2. CASE count > 0 /\ TailEnd' = TailEnd
  BY <1>2, SameLog DEF file
<1>3. CASE count > 0 /\ TailEnd' # TailEnd
  <2> PICK l : l = count - 1
    OBVIOUS
  <2> DEFINE a == index[l] - DataStart
             b == TailEnd
             c == Len(payload)
  <2>1. /\ count \in Nat /\ l \in 0 .. count - 1 /\ payload \in Seq(Byte)
        /\ payload' = payload /\ count' = count /\ index' = index /\ size' = size
    BY <1>3 DEF IInv, TypeOK, file
  <2>2. a \in Nat /\ b \in Nat /\ a <= b /\ b <= c /\ Hi(l) = b /\ c \in Nat
    BY <2>1, StoredInside DEF Hi
  <2>3. TailEnd' = c /\ Hi(l)' = c /\ b < c
    <3>1. size >= DataStart /\ Len(payload) = size - DataStart
      BY <1>3 DEF IInv, Layout, TypeOK
    <3>2. TailEnd' = c
      BY <2>1, <3>1 DEF TailEnd, IInv, TypeOK
    <3> QED
      BY <1>3, <2>1, <2>2, <3>2 DEF Hi
  <2>4. /\ Stored(l) = SubSeq(payload, a + 1, b)
        /\ Stored(l)' = SubSeq(payload, a + 1, c)
    BY <2>1, <2>2, <2>3, StoredIsPart
  <2> HIDE DEF a, b, c
  <2>5. /\ Len(Stored(l)) = b - a /\ Len(Stored(l)') = c - a
        /\ \A k \in 1 .. b - a : Stored(l)[k] = payload[a + k]
        /\ \A k \in 1 .. c - a : Stored(l)'[k] = payload[a + k]
    <3>1. a <= c /\ c <= Len(payload) /\ b <= Len(payload)
      BY <2>2 DEF c
    <3>2. /\ Len(SubSeq(payload, a + 1, b)) = b - a
          /\ \A k \in 1 .. b - a : SubSeq(payload, a + 1, b)[k] = payload[a + k]
      BY <2>1, <2>2, <3>1, PartOfSequence
    <3>3. /\ Len(SubSeq(payload, a + 1, c)) = c - a
          /\ \A k \in 1 .. c - a : SubSeq(payload, a + 1, c)[k] = payload[a + k]
      BY <2>1, <2>2, <3>1, PartOfSequence
    <3> QED
      BY <2>4, <3>2, <3>3
  <2>6. ASSUME NEW i \in 1 .. count - 1 PROVE Log'[i] = Log[i]
    <3>1. Hi(i - 1)' = Hi(i - 1)
      BY <2>1 DEF Hi
    <3>2. Stored(i - 1)' = Stored(i - 1)
      BY <2>1, <3>1, StoredIsPart
    <3> QED
      BY <2>1, <3>2, LogLength, LogLengthNext
  <2>7. Len(Log) = count /\ Len(Log') = count /\ Log # << >>
    BY <1>3, <2>1, LogLength, LogLengthNext
  <2>8. Log[count] = Stored(l) /\ Log'[count] = Stored(l)'
    BY <2>1, LogLength, LogLengthNext
  <2>9. /\ Len(Log'[count]) > Len(Log[count])
        /\ \A k \in 1 .. Len(Log[count]) : Log'[count][k] = Log[count][k]
    BY <2>2, <2>3, <2>5, <2>8
  <2> QED
    BY <2>6, <2>7, <2>9 DEF BL!Spill, Log
<1> QED
  BY <1>1, <1>2, <1>3 DEF IInv, TypeOK

\* The write of the count appends the blob, whole.
LEMMA AppendLog ==
  ASSUME IInv, IInv', WriteCount
  PROVE  BL!AppendBlob
<1> USE ListAssumption, DataStartType
<1>1. /\ UNCHANGED <<size, index, payload>> /\ pc = "count" /\ pc' = "idle"
      /\ realSize = count + 1 /\ count' = count + 1 /\ index[count] = start
      /\ Adding /\ ~Adding' /\ count < MaxSize /\ count \in Nat
  BY DEF WriteCount, IInv, AddInv, Adding, TypeOK
<1>2. /\ start \in Nat /\ start >= DataStart /\ size >= DataStart
      /\ blob \in Blobs /\ blob \in Seq(Byte) /\ payload \in Seq(Byte)
      /\ Len(payload) = start - DataStart + Len(blob)
      /\ Len(payload) = size - DataStart /\ size \in Nat
  BY <1>1 DEF IInv, AddInv, Layout, TypeOK, Adding
<1>3. TailEnd = start - DataStart /\ TailEnd' = Len(payload)
  BY <1>1, <1>2 DEF TailEnd
<1>4. ASSUME NEW i \in 1 .. count PROVE Log'[i] = Log[i]
  <2>1. Hi(i - 1)' = Hi(i - 1)
    <3>1. CASE i < count
      BY <1>1, <3>1 DEF Hi
    <3>2. CASE i = count
      BY <1>1, <1>3, <3>2 DEF Hi
    <3> QED
      BY <1>1, <3>1, <3>2
  <2>2. Stored(i - 1)' = Stored(i - 1)
    BY <1>1, <2>1, StoredIsPart
  <2> QED
    BY <1>1, <2>2, LogLength, LogLengthNext
<1>5. Log'[count + 1] = blob
  <2> PICK c : c = count
    OBVIOUS
  <2> DEFINE a == start - DataStart
             q == SubSeq(payload, a + 1, Len(payload))
  <2>1. Log'[count + 1] = Stored(c)'
    BY <1>1, LogLengthNext
  <2>2. Hi(c)' = Len(payload)
    BY <1>1, <1>3 DEF Hi
  <2>3. Stored(c)' = q
    BY <1>1, <2>2, StoredIsPart
  <2>4. a \in Nat /\ Len(payload) \in Nat /\ a <= Len(payload) /\ Len(payload) - a = Len(blob)
    BY <1>2
  <2>5. /\ q \in Seq(Byte) /\ Len(q) = Len(blob)
        /\ \A k \in 1 .. Len(blob) : q[k] = payload[a + k]
    BY <1>2, <2>4, PartOfSequence
  <2>6. \A k \in 1 .. Len(payload) - a : payload[a + k] = blob[k]
    BY <1>1 DEF IInv, AddInv
  <2> HIDE DEF a, q
  <2>7. \A k \in 1 .. Len(q) : q[k] = blob[k]
    BY <2>4, <2>5, <2>6
  <2>8. q = blob
    BY <1>2, <2>5, <2>7, SameSequence
  <2> QED
    BY <2>1, <2>3, <2>8
<1>6. Len(Log) = count /\ Len(Log') = count + 1
  BY <1>1, LogLength, LogLengthNext
<1> QED
  BY <1>1, <1>2, <1>4, <1>5, <1>6 DEF BL!AppendBlob, Log

\* Every step is a step of BlobLog or leaves the log as it is.
LEMMA NextLog == IInv /\ IInv' /\ [Next]_vars => BL!AppendBlob \/ BL!Spill \/ Log' = Log
<1> SUFFICES ASSUME IInv, IInv', [Next]_vars
             PROVE  BL!AppendBlob \/ BL!Spill \/ Log' = Log
  OBVIOUS
<1> USE ListAssumption, DataStartType
<1>1. CASE WriteCount
  BY <1>1, AppendLog
<1>2. CASE TooLong \/ Fail \/ Crash
  <2>1. UNCHANGED file /\ ~Adding'
    BY <1>2 DEF TooLong, Fail, Crash, Adding
  <2> QED
    BY <2>1, SpillLog
<1>3. CASE Initialize \/ Reserve \/ GrowToStart
  <2>1. UNCHANGED <<index, payload>> /\ count = 0 /\ count' = 0
    BY <1>3 DEF Initialize, Reserve, GrowToStart, IInv, Layout, TypeOK, AddInv, Free, EntrySize
  <2> QED
    BY <2>1, SameLog
<1>4. CASE \/ NewBinaryList \/ CopyDone \/ UNCHANGED vars
           \/ \E r \in Readers : DropReader(r) \/ \E i \in Slots : OpenReader(r, i)
  <2>1. UNCHANGED file
    BY <1>4 DEF NewBinaryList, CopyDone, vars, DropReader, OpenReader, file
  <2>2. (Adding' <=> Adding) /\ (Adding => start' = start)
    BY <1>4 DEF NewBinaryList, CopyDone, vars, DropReader, OpenReader, Adding
  <2>3. TailEnd' = TailEnd
    BY <2>1, <2>2 DEF TailEnd, file
  <2> QED
    BY <2>1, <2>3, SameLog DEF file
<1>5. ASSUME NEW b \in Blobs, AddBegin(b)
      PROVE  Log' = Log
  <2>1. UNCHANGED file /\ ~Adding /\ Adding' /\ start' = (IF size < DataStart THEN DataStart ELSE size)
    BY <1>5 DEF AddBegin, Free, Adding
  <2>2. count > 0 => TailEnd' = TailEnd
    BY <2>1 DEF TailEnd, file, IInv, Layout, TypeOK
  <2> QED
    BY <2>1, <2>2, SameLog DEF file
<1>6. CASE CopyBytes
  <2>1. /\ UNCHANGED <<count, index, start, pc>> /\ Adding /\ Adding'
        /\ start \in Nat /\ start >= DataStart
    BY <1>6 DEF CopyBytes, IInv, AddInv, Adding, TypeOK
  <2>2. size < DataStart => count = 0
    BY DEF IInv, Layout
  <2>3. size' >= DataStart
    <3>1. payload' \in Seq(Byte) /\ size' = DataStart + Len(payload')
      BY <1>6 DEF CopyBytes, IInv, TypeOK
    <3> QED
      BY <3>1
  <2>4. count > 0 => TailEnd' = TailEnd
    BY <2>1, <2>2, <2>3 DEF TailEnd, IInv, TypeOK
  <2>5. \E e \in Byte : payload' = Append(payload, e)
    <3>1. /\ blob \in Seq(Byte)
          /\ Len(payload) - (start - DataStart) + 1 \in 1 .. Len(blob)
      BY <1>6, <2>1 DEF CopyBytes, IInv, AddInv, TypeOK
    <3> QED
      BY <3>1, <1>6 DEF CopyBytes
  <2> QED
    BY <2>1, <2>4, <2>5, SameLog
<1>7. CASE WriteIndex
  <2>1. /\ UNCHANGED <<size, count, payload, start>> /\ Adding /\ Adding' /\ count \in Nat
        /\ index' = [index EXCEPT ![count] = start]
    BY <1>7 DEF WriteIndex, IInv, AddInv, Adding, Open, TypeOK
  <2>2. \A i \in 0 .. count - 1 : index'[i] = index[i]
    BY <2>1 DEF IInv, TypeOK, Slots
  <2>3. TailEnd' = TailEnd
    BY <2>1 DEF TailEnd
  <2> QED
    BY <2>1, <2>2, <2>3, SameLog
<1> QED
  BY <1>1, <1>2, <1>3, <1>4, <1>5, <1>6, <1>7 DEF Next, AddStep

\* A list implements the log of blobs of BlobLog: whatever fails and whenever the
\* process dies, blobs only ever appear whole behind the others, nothing stored is
\* taken away or changed, and at most the last blob gains a tail.
THEOREM ImplementsLog == Spec => RefinesLog
<1>1. Init => BL!LogInit
  BY DEF Init, BL!LogInit
<1>2. IInv /\ IInv' /\ [Next]_vars => [BL!AppendBlob \/ BL!Spill]_Log
  BY NextLog
<1>3. [BL!AppendBlob \/ BL!Spill]_Log => [BL!AppendBlob \/ BL!Spill]_[n \in 1 .. count |-> Stored(n - 1)]
  BY DEF Log
<1> QED
  BY <1>1, <1>2, <1>3, Inductive, PTL DEF Spec, RefinesLog, BL!Spec
=============================================================================
