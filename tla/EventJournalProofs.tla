------------------------- MODULE EventJournalProofs -------------------------
(***************************************************************************)
(* What a read of the journal answers is complete, ordered and an          *)
(* extension of what earlier reads answered, for any number of appends and *)
(* any interruptions.                                                      *)
(***************************************************************************)
EXTENDS EventJournal, SequenceTheorems, TLAPS

(* A write of the call's whole event has reached the file. *)
Written(e) ==
  \E n \in 1..Len(lines) : \E k \in 1..Len(lines[n]) :
     lines[n][k] = [event |-> e, whole |-> TRUE]

(* The line under way is not empty, and no line is. *)
LinesInv ==
  /\ open => Len(lines) > 0
  /\ \A n \in 1..Len(lines) : Len(lines[n]) > 0

(* Calls are numbered in the order in which their pieces lie; one that has *)
(* not written yet has the highest number of all.                          *)
OrderInv ==
  /\ \A n \in 1..Len(lines) : \A k \in 1..Len(lines[n]) :
       /\ lines[n][k].event <= last
       /\ At(writer, "opened") => lines[n][k].event < last
  /\ \A m, n \in 1..Len(lines) : m < n =>
       \A j \in 1..Len(lines[m]), k \in 1..Len(lines[n]) : lines[m][j].event < lines[n][k].event

WriterInv ==
  writer # None =>
    /\ writer.event = last
    /\ writer.stage \in {"partial", "line"} =>
         open /\ LET line == lines[Len(lines)] IN line[Len(line)].event = last
    /\ writer.stage \in {"line", "flushed"} => Written(last)

AckedInv == \A e \in acked : Written(e)

(* A later line never takes the place of one that was read. *)
ReadInv ==
  /\ Len(lastRead) <= Len(lines)
  /\ \A n \in 1..Len(lastRead) : lastRead[n] = lines[n][1].event

JournalInv == LinesInv /\ OrderInv /\ WriterInv /\ AckedInv /\ ReadInv

-----------------------------------------------------------------------------
(* What an action does to the lines *)

(* The line that a write goes to, and its length so far. *)
End    == IF open THEN Len(lines) ELSE Len(lines) + 1
EndLen == IF open THEN Len(lines[End]) ELSE 0

PutAtEnd(piece) ==
  /\ lines' \in Seq(Seq(Pieces)) /\ Len(lines') = End
  /\ \A n \in 1..(End - 1) : lines'[n] = lines[n]
  /\ Len(lines'[End]) = EndLen + 1
  /\ \A k \in 1..EndLen : lines'[End][k] = lines[End][k]
  /\ lines'[End][EndLen + 1] = piece

(* What the types say of the lines, as the provers need it. *)
LEMMA LinesTyping ==
  ASSUME TypeOK
  PROVE  /\ lines \in Seq(Seq(Pieces)) /\ open \in BOOLEAN /\ Len(lines) \in Nat
         /\ \A n \in 1..Len(lines) :
              /\ lines[n] \in Seq(Pieces) /\ Len(lines[n]) \in Nat
              /\ \A k \in 1..Len(lines[n]) :
                   lines[n][k] \in Pieces /\ lines[n][k].event \in Nat
<1>1. lines \in Seq(Seq(Pieces)) /\ open \in BOOLEAN /\ Len(lines) \in Nat
  BY LenProperties DEF TypeOK, FileTypeOK
<1>2. ASSUME NEW n \in 1..Len(lines)
      PROVE  lines[n] \in Seq(Pieces) /\ Len(lines[n]) \in Nat
  BY <1>1, ElementOfSeq, LenProperties
<1>3. ASSUME NEW n \in 1..Len(lines), NEW k \in 1..Len(lines[n])
      PROVE  lines[n][k] \in Pieces /\ lines[n][k].event \in Nat
  <2>1. lines[n][k] \in Pieces
    BY <1>2, ElementOfSeq
  <2> QED BY <2>1, JournalAssumption DEF Pieces, Events
<1> QED BY <1>1, <1>2, <1>3

LEMMA PutPiecePutsAtEnd ==
  ASSUME TypeOK, LinesInv, writer # None, NEW whole \in BOOLEAN, PutPiece(writer.event, whole)
  PROVE  /\ PutAtEnd([event |-> writer.event, whole |-> whole]) /\ open' = TRUE
         /\ End \in Nat \ {0} /\ EndLen \in Nat
<1> DEFINE piece == [event |-> writer.event, whole |-> whole]
<1>1. piece \in Pieces
  BY DEF TypeOK, Calls, Pieces
<1>2. lines \in Seq(Seq(Pieces)) /\ open \in BOOLEAN /\ Len(lines) \in Nat
  BY LinesTyping
<1>3. open' = TRUE
  BY DEF PutPiece
<1>4. CASE open
  <2> DEFINE n == Len(lines)
             line == lines[n]
  <2>1. n \in 1..Len(lines) /\ line \in Seq(Pieces) /\ Len(line) \in Nat
    BY <1>2, <1>4, LinesTyping DEF LinesInv
  <2>2. lines' = [lines EXCEPT ![n] = Append(line, piece)]
    BY <1>4 DEF PutPiece
  <2> HIDE DEF piece, line
  <2>3. /\ Append(line, piece) \in Seq(Pieces) /\ Len(Append(line, piece)) = Len(line) + 1
        /\ \A k \in 1..Len(line) : Append(line, piece)[k] = line[k]
        /\ Append(line, piece)[Len(line) + 1] = piece
    BY <1>1, <2>1
  <2> DEFINE new == Append(line, piece)
  <2> HIDE DEF new
  <2>4. lines' \in Seq(Seq(Pieces)) /\ Len(lines') = n /\ lines'[n] = new
    BY <1>2, <2>1, <2>2, <2>3 DEF new
  <2>5. \A m \in 1..(n - 1) : lines'[m] = lines[m]
    BY <1>2, <2>1, <2>2, <2>3
  <2>6. End = n /\ EndLen = Len(line)
    BY <1>4 DEF End, EndLen, line
  <2>7. PutAtEnd(piece)
    BY <2>3, <2>4, <2>5, <2>6 DEF PutAtEnd, line, new
  <2> QED BY <1>3, <2>1, <2>6, <2>7 DEF piece
<1>5. CASE ~open
  <2>1. lines' = Append(lines, <<piece>>)
    BY <1>5 DEF PutPiece
  <2> DEFINE line == <<piece>>
  <2>2. line \in Seq(Pieces) /\ Len(line) = 1 /\ line[1] = piece
    BY <1>1
  <2> HIDE DEF line, piece
  <2>3. /\ lines' \in Seq(Seq(Pieces)) /\ Len(lines') = Len(lines) + 1
        /\ \A m \in 1..Len(lines) : lines'[m] = lines[m]
        /\ lines'[Len(lines) + 1] = line
    BY <1>2, <2>1, <2>2 DEF line
  <2>4. End = Len(lines) + 1 /\ EndLen = 0
    BY <1>5 DEF End, EndLen
  <2>5. PutAtEnd(piece)
    BY <1>2, <2>2, <2>3, <2>4 DEF PutAtEnd
  <2> QED BY <1>2, <1>3, <2>4, <2>5 DEF piece
<1> QED BY <1>2, <1>4, <1>5

(* The rest of a line goes where its first part is. *)
CompletesLast ==
  /\ lines' \in Seq(Seq(Pieces)) /\ Len(lines') = Len(lines)
  /\ \A n \in 1..Len(lines) :
       /\ Len(lines'[n]) = Len(lines[n])
       /\ \A k \in 1..Len(lines[n]) :
            /\ lines'[n][k].event = lines[n][k].event
            /\ lines[n][k].whole => lines'[n][k] = lines[n][k]
       /\ n # Len(lines) => lines'[n] = lines[n]
  /\ LET n == Len(lines) IN lines'[n][Len(lines[n])] = [event |-> last, whole |-> TRUE]

LEMMA PartialIsCompleted ==
  ASSUME TypeOK, LinesInv, WriterInv, At(writer, "partial"), CompletePiece(writer.event)
  PROVE  CompletesLast
<1> DEFINE n == Len(lines)
           line == lines[n]
           k == Len(line)
           piece == [event |-> writer.event, whole |-> TRUE]
           new == [line EXCEPT ![k] = piece]
<1>1. /\ n \in 1..Len(lines) /\ line \in Seq(Pieces) /\ k \in 1..Len(line)
      /\ line[k] \in Pieces /\ line[k].event = last
  <2>1. open /\ line[k].event = last
    BY DEF WriterInv, At
  <2>2. n \in 1..Len(lines)
    BY <2>1, LinesTyping DEF LinesInv
  <2>3. line \in Seq(Pieces) /\ k \in 1..Len(line)
    <3>1. line \in Seq(Pieces) /\ Len(line) \in Nat
      BY <2>2, LinesTyping
    <3>2. Len(line) > 0
      BY <2>2 DEF LinesInv
    <3> QED BY <3>1, <3>2
  <2>4. line[k] \in Pieces
    BY <2>2, <2>3, LinesTyping
  <2> QED BY <2>1, <2>2, <2>3, <2>4
<1>2. piece \in Pieces /\ piece.event = last /\ piece = [event |-> last, whole |-> TRUE]
  BY DEF TypeOK, Calls, WriterInv, At, Pieces
<1>3. line[k].whole => line[k] = piece
  BY <1>1, <1>2 DEF Pieces
<1>5. lines' = [lines EXCEPT ![n] = new]
  BY DEF CompletePiece
<1>6. lines \in Seq(Seq(Pieces)) /\ n \in Nat
  BY LinesTyping
<1> HIDE DEF new, piece
<1>7. /\ new \in Seq(Pieces) /\ Len(new) = Len(line)
      /\ \A j \in 1..Len(line) : new[j] = IF j = k THEN piece ELSE line[j]
  BY <1>1, <1>2 DEF new
<1>8. /\ lines' \in Seq(Seq(Pieces)) /\ Len(lines') = Len(lines)
      /\ \A m \in 1..Len(lines) : lines'[m] = IF m = n THEN new ELSE lines[m]
  BY <1>1, <1>5, <1>6, <1>7
<1>9. ASSUME NEW j \in 1..Len(line)
      PROVE  new[j].event = line[j].event /\ (line[j].whole => new[j] = line[j])
  <2>1. CASE j = k
    BY <1>1, <1>2, <1>3, <1>7, <2>1
  <2>2. CASE j # k
    BY <1>7, <2>2
  <2> QED BY <2>1, <2>2
<1>10. ASSUME NEW m \in 1..Len(lines)
       PROVE  /\ Len(lines'[m]) = Len(lines[m])
              /\ \A j \in 1..Len(lines[m]) :
                   /\ lines'[m][j].event = lines[m][j].event
                   /\ lines[m][j].whole => lines'[m][j] = lines[m][j]
              /\ m # n => lines'[m] = lines[m]
  <2>1. CASE m = n
    <3>1. lines'[m] = new /\ lines[m] = line
      BY <1>8, <2>1
    <3> HIDE DEF line
    <3> QED BY <1>7, <1>9, <2>1, <3>1
  <2>2. CASE m # n
    <3>1. lines'[m] = lines[m]
      BY <1>8, <2>2
    <3> QED BY <3>1
  <2> QED BY <2>1, <2>2
<1>11. lines'[n][k] = [event |-> last, whole |-> TRUE]
  BY <1>1, <1>2, <1>7, <1>8
<1> HIDE DEF n, line, k
<1>12. n = Len(lines) /\ k = Len(lines[n])
  BY DEF n, k, line
<1> QED BY <1>8, <1>10, <1>11, <1>12 DEF CompletesLast

(* Either way what was there stays: only a piece that was not whole may    *)
(* become so.                                                              *)
Grows ==
  /\ Len(lines) <= Len(lines')
  /\ \A n \in 1..Len(lines) :
       /\ Len(lines[n]) <= Len(lines'[n])
       /\ \A k \in 1..Len(lines[n]) :
            /\ lines'[n][k].event = lines[n][k].event
            /\ lines[n][k].whole => lines'[n][k] = lines[n][k]

LEMMA PutAtEndGrows ==
  ASSUME TypeOK, LinesInv, NEW piece, PutAtEnd(piece)
  PROVE  Grows
<1>1. /\ Len(lines) \in Nat /\ open \in BOOLEAN /\ (open => Len(lines) > 0)
      /\ \A n \in 1..Len(lines) : Len(lines[n]) \in Nat
  BY LinesTyping DEF LinesInv
<1>2. Len(lines) <= Len(lines')
  BY <1>1 DEF PutAtEnd, End
<1>3. ASSUME NEW n \in 1..Len(lines)
      PROVE  /\ Len(lines[n]) <= Len(lines'[n])
             /\ \A k \in 1..Len(lines[n]) : lines'[n][k] = lines[n][k]
  <2>1. CASE n = End
    <3>1. EndLen = Len(lines[n])
      BY <1>1, <2>1 DEF End, EndLen
    <3> QED BY <1>1, <2>1, <3>1 DEF PutAtEnd
  <2>2. CASE n # End
    <3>1. n \in 1..(End - 1)
      BY <1>1, <2>2 DEF End
    <3> QED BY <1>1, <3>1 DEF PutAtEnd
  <2> QED BY <2>1, <2>2
<1> QED BY <1>2, <1>3 DEF Grows

LEMMA CompletingGrows ==
  ASSUME TypeOK, CompletesLast
  PROVE  Grows
  BY LinesTyping DEF CompletesLast, Grows

LEMMA WrittenStays ==
  ASSUME TypeOK, TypeOK', Grows, NEW e, Written(e)
  PROVE  Written(e)'
<1>0. PICK n \in 1..Len(lines) :
        \E k \in 1..Len(lines[n]) : lines[n][k] = [event |-> e, whole |-> TRUE]
  BY DEF Written
<1>1. PICK k \in 1..Len(lines[n]) : lines[n][k] = [event |-> e, whole |-> TRUE]
  BY <1>0
<1>2. lines'[n][k] = [event |-> e, whole |-> TRUE]
  BY <1>1 DEF Grows
<1>3. n \in 1..Len(lines') /\ k \in 1..Len(lines'[n])
  BY <1>1, LinesTyping, LenProperties, ElementOfSeq DEF Grows, TypeOK, FileTypeOK
<1> QED BY <1>2, <1>3 DEF Written

(* The numbers of the calls still rise along the lines.                    *)
Ordered ==
  /\ \A n \in 1..Len(lines) : \A k \in 1..Len(lines[n]) : lines[n][k].event <= last
  /\ \A m, n \in 1..Len(lines) : m < n =>
       \A j \in 1..Len(lines[m]), k \in 1..Len(lines[n]) : lines[m][j].event < lines[n][k].event

LEMMA PutKeepsOrder ==
  ASSUME TypeOK, LinesInv, OrderInv, At(writer, "opened"), NEW piece, piece.event = last,
         PutAtEnd(piece), open' = TRUE, last' = last, End \in Nat \ {0}, EndLen \in Nat
  PROVE  LinesInv' /\ Ordered'
<1>1. /\ Len(lines) \in Nat /\ open \in BOOLEAN /\ (open => Len(lines) > 0)
      /\ \A n \in 1..Len(lines) : Len(lines[n]) \in Nat /\ Len(lines[n]) > 0
  BY LinesTyping DEF LinesInv
<1>2. Len(lines') = End /\ Len(lines'[End]) = EndLen + 1
  BY DEF PutAtEnd
<1>3. ASSUME NEW n \in 1..(End - 1)
      PROVE  n \in 1..Len(lines) /\ lines'[n] = lines[n]
  BY <1>1 DEF PutAtEnd, End
<1>4. ASSUME NEW k \in 1..EndLen
      PROVE  End \in 1..Len(lines) /\ k \in 1..Len(lines[End]) /\ lines'[End][k] = lines[End][k]
  BY <1>1 DEF PutAtEnd, End, EndLen
<1>5. lines'[End][EndLen + 1].event = last
  BY DEF PutAtEnd
<1>6. LinesInv'
  <2>1. ASSUME NEW n \in 1..End PROVE Len(lines'[n]) > 0
    <3>1. CASE n = End
      BY <1>2, <3>1
    <3>2. CASE n # End
      BY <1>1, <1>3, <3>2
    <3> QED BY <3>1, <3>2
  <2> QED BY <1>2, <2>1 DEF LinesInv
<1>7. ASSUME NEW n \in 1..End, NEW k \in 1..Len(lines'[n]),
             ~(n = End /\ k = EndLen + 1)
      PROVE  n \in 1..Len(lines) /\ k \in 1..Len(lines[n]) /\ lines'[n][k] = lines[n][k]
  <2>1. CASE n = End
    <3>1. k \in 1..EndLen
      BY <1>2, <1>7, <2>1
    <3> QED BY <1>4, <2>1, <3>1
  <2>2. CASE n # End
    BY <1>3, <2>2
  <2> QED BY <2>1, <2>2
<1>8. last \in Nat
  BY JournalAssumption DEF TypeOK, FileTypeOK
<1>9. ASSUME NEW n \in 1..End, NEW k \in 1..Len(lines'[n])
      PROVE  lines'[n][k].event <= last
  <2>1. CASE n = End /\ k = EndLen + 1
    BY <1>5, <1>8, <2>1
  <2>2. CASE ~(n = End /\ k = EndLen + 1)
    BY <1>7, <2>2 DEF OrderInv
  <2> QED BY <2>1, <2>2
<1>10. ASSUME NEW m \in 1..End, NEW n \in 1..End, m < n,
              NEW j \in 1..Len(lines'[m]), NEW k \in 1..Len(lines'[n])
       PROVE  lines'[m][j].event < lines'[n][k].event
  <2>1. m \in 1..Len(lines) /\ j \in 1..Len(lines[m]) /\ lines'[m][j] = lines[m][j]
    BY <1>7, <1>10
  <2>2. CASE n = End /\ k = EndLen + 1
    BY <1>5, <2>1, <2>2 DEF OrderInv
  <2>3. CASE ~(n = End /\ k = EndLen + 1)
    <3>1. n \in 1..Len(lines) /\ k \in 1..Len(lines[n]) /\ lines'[n][k] = lines[n][k]
      BY <1>7, <2>3
    <3> QED BY <1>10, <2>1, <3>1 DEF OrderInv
  <2> QED BY <2>2, <2>3
<1>11. Ordered'
  BY <1>2, <1>9, <1>10 DEF Ordered
<1> QED BY <1>6, <1>11

LEMMA CompletingKeepsOrder ==
  ASSUME TypeOK, LinesInv, OrderInv, CompletesLast, open' = open, last' = last
  PROVE  LinesInv' /\ Ordered'
<1>1. Len(lines') = Len(lines)
  BY DEF CompletesLast
<1>2. \A n \in 1..Len(lines) :
        /\ Len(lines'[n]) = Len(lines[n])
        /\ \A k \in 1..Len(lines[n]) : lines'[n][k].event = lines[n][k].event
  BY DEF CompletesLast
<1>3. LinesInv'
  BY <1>1, <1>2 DEF LinesInv
<1>4. ASSUME NEW n \in 1..Len(lines), NEW k \in 1..Len(lines[n])
      PROVE  lines'[n][k].event <= last
  BY <1>2 DEF OrderInv
<1>5. ASSUME NEW m \in 1..Len(lines), NEW n \in 1..Len(lines), m < n,
             NEW j \in 1..Len(lines[m]), NEW k \in 1..Len(lines[n])
      PROVE  lines'[m][j].event < lines'[n][k].event
  BY <1>2, <1>5 DEF OrderInv
<1>6. Ordered'
  BY <1>1, <1>2, <1>4, <1>5 DEF Ordered
<1> QED BY <1>3, <1>6

(* What a read answered is still there. *)
LEMMA ReadStays ==
  ASSUME TypeOK, TypeOK', LinesInv, ReadInv, Grows, lastRead' = lastRead
  PROVE  ReadInv'
<1>1. Len(lastRead) \in Nat /\ Len(lines) \in Nat /\ Len(lines') \in Nat
  BY LenProperties DEF TypeOK, FileTypeOK
<1>2. ASSUME NEW n \in 1..Len(lastRead) PROVE lastRead[n] = lines'[n][1].event
  <2>1. n \in 1..Len(lines)
    BY <1>1 DEF ReadInv
  <2>2. Len(lines[n]) \in Nat /\ Len(lines[n]) > 0
    BY <2>1, LinesTyping DEF LinesInv
  <2>3. lines'[n][1].event = lines[n][1].event
    BY <2>1, <2>2 DEF Grows
  <2> QED BY <2>1, <2>3 DEF ReadInv
<1> QED BY <1>1, <1>2 DEF ReadInv, Grows

-----------------------------------------------------------------------------
(* Types *)

LEMMA PutPieceTyping ==
  ASSUME TypeOK, writer # None, NEW whole \in BOOLEAN, PutPiece(writer.event, whole)
  PROVE  lines' \in Seq(Seq(Pieces)) /\ open' \in BOOLEAN
<1>0. open' = TRUE
  BY DEF PutPiece
<1> DEFINE piece == [event |-> writer.event, whole |-> whole]
<1>1. piece \in Pieces
  BY DEF TypeOK, Calls, Pieces
<1>2. lines \in Seq(Seq(Pieces)) /\ Len(lines) \in Nat
  BY LinesTyping
<1>3. CASE open /\ Len(lines) > 0
  <2> DEFINE new == Append(lines[Len(lines)], piece)
  <2>1. lines[Len(lines)] \in Seq(Pieces)
    BY <1>2, <1>3, LinesTyping
  <2>2. new \in Seq(Pieces)
    BY <1>1, <2>1
  <2>3. lines' = [lines EXCEPT ![Len(lines)] = new]
    BY <1>3 DEF PutPiece
  <2> HIDE DEF new
  <2> QED BY <1>0, <1>2, <1>3, <2>2, <2>3
<1>4. CASE open /\ Len(lines) = 0
  <2>1. lines' = [lines EXCEPT ![Len(lines)] = Append(@, piece)]
    BY <1>4 DEF PutPiece
  <2>2. lines' = lines
    BY <1>2, <1>4, <2>1
  <2> QED BY <1>0, <1>2, <2>2
<1>5. CASE ~open
  <2> DEFINE line == <<piece>>
  <2>1. line \in Seq(Pieces)
    BY <1>1
  <2>2. lines' = Append(lines, line)
    BY <1>5 DEF PutPiece
  <2> HIDE DEF line
  <2> QED BY <1>0, <1>2, <2>1, <2>2
<1> QED BY <1>2, <1>3, <1>4, <1>5

(* Interrupted appends leave a file of lines of pieces, and reads give     *)
(* numbers of calls.                                                       *)
LEMMA TypeStep ==
  ASSUME TypeOK, JournalInv, [Next]_vars
  PROVE  TypeOK'
<1> USE JournalAssumption DEF FileTypeOK
<1>0. /\ lines \in Seq(Seq(Pieces)) /\ open \in BOOLEAN /\ last \in Nat /\ last <= MaxAppends
      /\ writer \in Calls
  BY DEF TypeOK
<1>1. CASE Begin(writer, writer')
  <2>1. last' \in 0..MaxAppends /\ last' \in Events
    BY <1>0, <1>1 DEF Begin, Events
  <2>2. writer' \in Calls
    BY <1>1, <2>1 DEF Begin, Calls, Stages
  <2> QED BY <1>1, <2>1, <2>2 DEF Begin, TypeOK
<1>2. ASSUME NEW from, NEW to \in Stages, Moves(writer, from, writer', to)
      PROVE  writer # None /\ writer' \in Calls
  BY <1>0, <1>2 DEF Moves, At, Calls
<1>3. CASE WritePart(writer, writer')
  <2>1. writer # None /\ writer' \in Calls
    BY <1>2, <1>3 DEF WritePart, Stages
  <2>2. lines' \in Seq(Seq(Pieces)) /\ open' \in BOOLEAN
    BY <1>3, <2>1, PutPieceTyping DEF WritePart
  <2> QED BY <1>3, <2>1, <2>2 DEF WritePart, TypeOK
<1>4. CASE WriteLine(writer, writer')
  <2>1. writer # None /\ writer' \in Calls
    BY <1>2, <1>4 DEF WriteLine, Stages
  <2>2. lines' \in Seq(Seq(Pieces)) /\ open' \in BOOLEAN
    <3>1. CASE PutPiece(writer.event, TRUE)
      BY <2>1, <3>1, PutPieceTyping
    <3>2. CASE ~PutPiece(writer.event, TRUE)
      <4>1. At(writer, "partial") /\ CompletePiece(writer.event)
        BY <1>4, <3>2 DEF WriteLine, Moves
      <4>2. CompletesLast /\ open' = open
        BY <4>1, PartialIsCompleted DEF JournalInv, CompletePiece
      <4> QED BY <1>0, <4>2 DEF CompletesLast
    <3> QED BY <3>1, <3>2
  <2> QED BY <1>4, <2>1, <2>2 DEF WriteLine, TypeOK
<1>5. CASE WriteNewline(writer, writer')
  <2>1. writer' \in Calls
    BY <1>2, <1>5 DEF WriteNewline, Stages
  <2> QED BY <1>5, <2>1 DEF WriteNewline, TypeOK
<1>6. CASE Ack(writer, writer')
  <2>1. writer.event \in Events /\ writer' \in Calls
    BY <1>0, <1>6 DEF Ack, At, Calls
  <2> QED BY <1>6, <2>1 DEF Ack, TypeOK
<1>7. CASE Interrupted(writer, writer')
  BY <1>7 DEF Interrupted, TypeOK, Calls
<1>8. CASE Read /\ UNCHANGED writer
  <2>1. Len(lines) \in Nat /\ DOMAIN lines = 1..Len(lines)
    BY <1>0, LenProperties
  <2>2. ASSUME NEW n \in 1..Len(lines) PROVE lines[n][1].event \in Events
    <3>1. Len(lines[n]) = 1
      BY <1>8, <2>1 DEF Read, Readable
    <3>2. lines[n][1] \in Pieces
      BY <3>1, LinesTyping
    <3> QED BY <3>2 DEF Pieces
  <2>3. JournalEvents \in Seq(Events)
    BY <2>1, <2>2 DEF JournalEvents
  <2> QED BY <1>8, <2>3 DEF Read, TypeOK
<1>9. CASE UNCHANGED vars
  BY <1>9 DEF vars, TypeOK
<1> QED BY <1>1, <1>3, <1>4, <1>5, <1>6, <1>7, <1>8, <1>9 DEF Next, Continues

-----------------------------------------------------------------------------
(* The invariant *)

LEMMA OrderOfOrdered ==
  ASSUME Ordered', ~At(writer, "opened")'
  PROVE  OrderInv'
  BY DEF Ordered, OrderInv

(* A write of a first piece. *)
LEMMA PutStep ==
  ASSUME TypeOK, TypeOK', JournalInv, At(writer, "opened"), NEW whole \in BOOLEAN, PutPiece(writer.event, whole),
         writer' = [event |-> last, stage |-> IF whole THEN "line" ELSE "partial"],
         last' = last, acked' = acked, lastRead' = lastRead
  PROVE  JournalInv' /\ Grows
<1> DEFINE piece == [event |-> writer.event, whole |-> whole]
<1>1. writer # None /\ writer.event = last
  BY DEF At, JournalInv, WriterInv
<1>2. PutAtEnd(piece) /\ open' = TRUE /\ End \in Nat \ {0} /\ EndLen \in Nat
  BY <1>1, PutPiecePutsAtEnd DEF JournalInv
<1>3. piece.event = last /\ piece = [event |-> last, whole |-> whole]
  BY <1>1
<1> HIDE DEF piece
<1>4. Grows
  BY <1>2, PutAtEndGrows DEF JournalInv
<1>5. LinesInv' /\ Ordered'
  BY <1>2, <1>3, PutKeepsOrder DEF JournalInv
<1>6. OrderInv'
  BY <1>5, OrderOfOrdered DEF At
<1>7. Len(lines') = End /\ Len(lines'[End]) = EndLen + 1 /\ lines'[End][EndLen + 1] = piece
  BY <1>2 DEF PutAtEnd
<1>8. WriterInv'
  <2>1. whole => Written(last)'
    <3>1. End \in 1..Len(lines') /\ EndLen + 1 \in 1..Len(lines'[End])
      BY <1>2, <1>7
    <3> QED BY <1>3, <1>7, <3>1 DEF Written
  <2>2. lines'[Len(lines')][Len(lines'[Len(lines')])].event = last
    BY <1>3, <1>7
  <2> QED BY <1>2, <2>1, <2>2 DEF WriterInv
<1>9. AckedInv'
  BY <1>4, WrittenStays DEF JournalInv, AckedInv
<1>10. ReadInv'
  BY <1>4, ReadStays DEF JournalInv
<1> QED BY <1>4, <1>5, <1>6, <1>8, <1>9, <1>10 DEF JournalInv

(* The rest of a line. *)
LEMMA CompleteStep ==
  ASSUME TypeOK, TypeOK', JournalInv, At(writer, "partial"), CompletePiece(writer.event),
         writer' = [event |-> last, stage |-> "line"], last' = last, acked' = acked, lastRead' = lastRead
  PROVE  JournalInv' /\ Grows
<1>1. CompletesLast
  BY PartialIsCompleted DEF JournalInv
<1>2. Grows
  BY <1>1, CompletingGrows
<1>3. LinesInv' /\ Ordered'
  BY <1>1, CompletingKeepsOrder DEF JournalInv, CompletePiece
<1>4. OrderInv'
  BY <1>3, OrderOfOrdered DEF At
<1>5. WriterInv'
  <2> DEFINE n == Len(lines)
             k == Len(lines[n])
  <2>1. open
    BY DEF At, JournalInv, WriterInv
  <2>2. n \in 1..n
    BY <2>1, LinesTyping DEF JournalInv, LinesInv
  <2>3. k \in 1..k
    <3>1. k \in Nat
      BY <2>2, LinesTyping
    <3>2. k > 0
      BY <2>2 DEF JournalInv, LinesInv
    <3> QED BY <3>1, <3>2
  <2>4. Len(lines') = n /\ Len(lines'[n]) = k /\ lines'[n][k] = [event |-> last, whole |-> TRUE]
    BY <1>1, <2>2 DEF CompletesLast
  <2> HIDE DEF n, k
  <2>5. Written(last)'
    BY <2>2, <2>3, <2>4 DEF Written
  <2>6. lines'[Len(lines')][Len(lines'[Len(lines')])].event = last
    BY <2>4
  <2> QED BY <2>1, <2>5, <2>6 DEF WriterInv, CompletePiece
<1>6. AckedInv'
  BY <1>2, WrittenStays DEF JournalInv, AckedInv
<1>7. ReadInv'
  BY <1>2, ReadStays DEF JournalInv
<1> QED BY <1>2, <1>3, <1>4, <1>5, <1>6, <1>7 DEF JournalInv

(* What only moves on the call, or only ends it. *)
LEMMA WrittenUnchanged ==
  ASSUME lines' = lines, NEW e
  PROVE  Written(e)' <=> Written(e)
  BY DEF Written

LEMMA InvStep ==
  ASSUME TypeOK, TypeOK', JournalInv, [Next]_vars
  PROVE  JournalInv'
<1> USE JournalAssumption
<1>0. last \in Nat /\ writer \in Calls
  BY DEF TypeOK, FileTypeOK
<1>1. CASE Begin(writer, writer')
  <2>1. LinesInv' /\ ReadInv' /\ AckedInv'
    BY <1>1, WrittenUnchanged DEF Begin, JournalInv, LinesInv, ReadInv, AckedInv
  <2>2. WriterInv'
    BY <1>1 DEF Begin, WriterInv
  <2>3. OrderInv'
    <3>1. ASSUME NEW n \in 1..Len(lines), NEW k \in 1..Len(lines[n])
          PROVE  lines[n][k].event < last + 1 /\ lines[n][k].event <= last + 1
      <4>1. lines[n][k].event \in Nat
        BY LinesTyping
      <4>2. lines[n][k].event <= last
        BY DEF JournalInv, OrderInv
      <4> QED BY <1>0, <4>1, <4>2
    <3> QED BY <1>1, <3>1 DEF Begin, JournalInv, OrderInv
  <2> QED BY <2>1, <2>2, <2>3 DEF JournalInv
<1>2. ASSUME NEW from, NEW to, Moves(writer, from, writer', to)
      PROVE  writer' = [event |-> last, stage |-> to]
  BY <1>2 DEF Moves, At, JournalInv, WriterInv
<1>3. CASE WritePart(writer, writer')
  <2>1. writer' = [event |-> last, stage |-> "partial"] /\ At(writer, "opened")
    BY <1>2, <1>3 DEF WritePart, Moves
  <2> QED BY <1>3, <2>1, PutStep DEF WritePart
<1>4. CASE WriteLine(writer, writer')
  <2>1. writer' = [event |-> last, stage |-> "line"]
    BY <1>2, <1>4 DEF WriteLine
  <2>2. CASE At(writer, "opened") /\ PutPiece(writer.event, TRUE)
    BY <1>4, <2>1, <2>2, PutStep DEF WriteLine
  <2>3. CASE ~(At(writer, "opened") /\ PutPiece(writer.event, TRUE))
    BY <1>4, <2>1, <2>3, CompleteStep DEF WriteLine, Moves
  <2> QED BY <2>2, <2>3
<1>5. CASE WriteNewline(writer, writer')
  <2>1. writer' = [event |-> last, stage |-> "flushed"]
    BY <1>2, <1>5 DEF WriteNewline
  <2>2. Written(last)
    BY <1>5 DEF WriteNewline, Moves, At, JournalInv, WriterInv
  <2>3. WriterInv'
    BY <1>5, <2>1, <2>2, WrittenUnchanged DEF WriteNewline, WriterInv
  <2>4. LinesInv' /\ ReadInv' /\ AckedInv'
    BY <1>5, WrittenUnchanged DEF WriteNewline, JournalInv, LinesInv, ReadInv, AckedInv
  <2>5. OrderInv'
    BY <1>5, <2>1 DEF WriteNewline, JournalInv, OrderInv, At
  <2> QED BY <2>3, <2>4, <2>5 DEF JournalInv
<1>6. CASE Ack(writer, writer')
  <2>1. Written(writer.event) /\ writer' = None
    BY <1>6 DEF Ack, At, JournalInv, WriterInv
  <2>2. AckedInv'
    BY <1>6, <2>1, WrittenUnchanged DEF Ack, JournalInv, AckedInv
  <2>3. LinesInv' /\ ReadInv' /\ WriterInv'
    BY <1>6, <2>1 DEF Ack, JournalInv, LinesInv, ReadInv, WriterInv
  <2>4. OrderInv'
    BY <1>6, <2>1 DEF Ack, JournalInv, OrderInv, At
  <2> QED BY <2>2, <2>3, <2>4 DEF JournalInv
<1>7. CASE Interrupted(writer, writer')
  <2>1. LinesInv' /\ ReadInv' /\ AckedInv' /\ WriterInv'
    BY <1>7, WrittenUnchanged DEF Interrupted, JournalInv, LinesInv, ReadInv, AckedInv, WriterInv
  <2>2. OrderInv'
    BY <1>7 DEF Interrupted, JournalInv, OrderInv, At
  <2> QED BY <2>1, <2>2 DEF JournalInv
<1>8. CASE Read /\ UNCHANGED writer
  <2>1. LinesInv' /\ AckedInv' /\ WriterInv' /\ OrderInv'
    BY <1>8, WrittenUnchanged DEF Read, JournalInv, LinesInv, AckedInv, WriterInv, OrderInv, At
  <2>2. ReadInv'
    <3>1. Len(JournalEvents) = Len(lines) /\ \A n \in 1..Len(lines) : JournalEvents[n] = lines[n][1].event
      BY LinesTyping, LenProperties DEF JournalEvents
    <3> QED BY <1>8, <3>1, LinesTyping DEF Read, ReadInv
  <2> QED BY <2>1, <2>2 DEF JournalInv
<1>9. CASE UNCHANGED vars
  BY <1>9, WrittenUnchanged
  DEF vars, JournalInv, LinesInv, ReadInv, AckedInv, WriterInv, OrderInv, At
<1> QED BY <1>1, <1>3, <1>4, <1>5, <1>6, <1>7, <1>8, <1>9 DEF Next, Continues

(* Type correctness, and the invariant, in every reachable state: any      *)
(* number of appends, interrupted anywhere.                                *)
THEOREM Typing == Spec => [](TypeOK /\ JournalInv)
<1>1. Init => TypeOK /\ JournalInv
  <2> SUFFICES ASSUME Init PROVE TypeOK /\ JournalInv
    OBVIOUS
  <2>1. lines = <<>> /\ Len(lines) = 0 /\ lastRead = <<>> /\ Len(lastRead) = 0
    BY DEF Init, FileInit
  <2>2. TypeOK
    <3>1. lines \in Seq(Seq(Pieces)) /\ lastRead \in Seq(Events)
      BY <2>1
    <3>2. last \in 0..MaxAppends
      BY JournalAssumption DEF Init, FileInit
    <3> QED BY <3>1, <3>2 DEF Init, FileInit, TypeOK, FileTypeOK, Calls
  <2>3. LinesInv /\ OrderInv /\ ReadInv
    BY <2>1 DEF Init, FileInit, LinesInv, OrderInv, ReadInv
  <2>4. WriterInv /\ AckedInv
    BY DEF Init, FileInit, WriterInv, AckedInv
  <2> QED BY <2>2, <2>3, <2>4 DEF JournalInv
<1>2. TypeOK /\ JournalInv /\ [Next]_vars => (TypeOK /\ JournalInv)'
  BY TypeStep, InvStep
<1> QED BY <1>1, <1>2, PTL DEF Spec

-----------------------------------------------------------------------------
(* What a read answers *)

(* ports/persistence.py lines 63-65: every read that answers gives every   *)
(* acknowledged event, once, in the order of the calls.                    *)
THEOREM ReadsAreFaithful == Spec => []FaithfulRead
<1>1. TypeOK /\ JournalInv => FaithfulRead
  <2> SUFFICES ASSUME TypeOK, JournalInv, Readable PROVE FaithfulRead
    BY DEF FaithfulRead
  <2>1. /\ Len(lines) \in Nat /\ DOMAIN lines = 1..Len(lines)
        /\ \A n \in 1..Len(lines) : Len(lines[n]) = 1 /\ JournalEvents[n] = lines[n][1].event
    BY LinesTyping, LenProperties DEF Readable, JournalEvents
  <2>2. ASSUME NEW e \in acked PROVE \E n \in DOMAIN lines : JournalEvents[n] = e
    <3>1. PICK n \in 1..Len(lines) :
            \E k \in 1..Len(lines[n]) : lines[n][k] = [event |-> e, whole |-> TRUE]
      BY DEF JournalInv, AckedInv, Written
    <3>2. lines[n][1] = [event |-> e, whole |-> TRUE]
      BY <2>1, <3>1
    <3> QED BY <2>1, <3>2
  <2>3. ASSUME NEW m \in DOMAIN lines, NEW n \in DOMAIN lines, m < n
        PROVE  JournalEvents[m] < JournalEvents[n]
    <3>1. m \in 1..Len(lines) /\ n \in 1..Len(lines) /\ 1 \in 1..Len(lines[m]) /\ 1 \in 1..Len(lines[n])
      BY <2>1
    <3>2. lines[m][1].event < lines[n][1].event
      BY <2>3, <3>1 DEF JournalInv, OrderInv
    <3> QED BY <2>1, <3>1, <3>2
  <2> QED BY <2>2, <2>3 DEF FaithfulRead
<1> QED BY <1>1, Typing, PTL

(* local_store.py lines 16-20: a later read extends every earlier one.     *)
THEOREM LaterReadsExtend == Spec => ReadsExtend
<1>1. TypeOK /\ TypeOK' /\ JournalInv /\ [Next]_vars => [IsPrefix(lastRead, lastRead')]_vars
  <2> SUFFICES ASSUME TypeOK, TypeOK', JournalInv, Next PROVE IsPrefix(lastRead, lastRead')
    OBVIOUS
  <2>1. lastRead \in Seq(Events) /\ lastRead' \in Seq(Events) /\ Len(lastRead) \in Nat
    BY LenProperties DEF TypeOK, FileTypeOK
  <2>2. /\ Len(lastRead) <= Len(lastRead')
        /\ \A n \in 1..Len(lastRead) : lastRead'[n] = lastRead[n]
    <3>1. CASE Read
      <4>1. Len(JournalEvents) = Len(lines) /\ \A n \in 1..Len(lines) : JournalEvents[n] = lines[n][1].event
        BY LinesTyping, LenProperties DEF JournalEvents
      <4> QED BY <2>1, <3>1, <4>1, LinesTyping DEF Read, JournalInv, ReadInv
    <3>2. CASE ~Read
      <4>1. lastRead' = lastRead
        BY <3>2 DEF Next, Continues, Begin, WritePart, WriteLine, WriteNewline, Ack, Interrupted
      <4> QED BY <2>1, <4>1
    <3> QED BY <3>1, <3>2
  <2>3. SubSeq(lastRead, 1, Len(lastRead)) = SubSeq(lastRead', 1, Len(lastRead))
    BY <2>1, <2>2, SubSeqProperties
  <2> QED BY <2>2, <2>3 DEF IsPrefix
<1> QED BY <1>1, Typing, PTL DEF Spec, ReadsExtend

-----------------------------------------------------------------------------
(* What is torn stays torn *)

(* A line that does not parse, unless the call in progress may complete it. *)
Torn ==
  \E n \in 1..Len(lines) :
    \/ Len(lines[n]) > 1
    \/ ~lines[n][1].whole /\ ~(At(writer, "partial") /\ n = Len(lines))

LEMMA UnreadableIsTorn ==
  ASSUME TypeOK, LinesInv
  PROVE  /\ writer = None /\ ~Readable => Torn
         /\ Torn => ~Readable
<1>1. DOMAIN lines = 1..Len(lines) /\ \A n \in 1..Len(lines) : Len(lines[n]) \in Nat
  BY LinesTyping, LenProperties
<1>2. \A n \in 1..Len(lines) : Len(lines[n]) # 1 => Len(lines[n]) > 1
  BY <1>1 DEF LinesInv
<1>3. ASSUME writer = None, ~Readable PROVE Torn
  <2>1. PICK n \in 1..Len(lines) : ~(Len(lines[n]) = 1 /\ lines[n][1].whole)
    BY <1>1, <1>3 DEF Readable
  <2>2. Len(lines[n]) > 1 \/ ~lines[n][1].whole
    BY <1>2, <2>1
  <2> QED BY <1>3, <2>2 DEF Torn, At
<1>4. ASSUME Torn, Readable PROVE FALSE
  <2>1. PICK n \in 1..Len(lines) : Len(lines[n]) > 1 \/ ~lines[n][1].whole
    BY <1>4 DEF Torn
  <2>2. Len(lines[n]) = 1 /\ lines[n][1].whole
    BY <1>1, <1>4 DEF Readable
  <2> QED BY <2>1, <2>2
<1> QED BY <1>3, <1>4

(* A first piece goes to a line of its own, or makes a torn line longer. *)
LEMMA PutKeepsTorn ==
  ASSUME TypeOK, LinesInv, Torn, At(writer, "opened"), NEW piece, PutAtEnd(piece),
         End \in Nat \ {0}, EndLen \in Nat
  PROVE  \E n \in 1..Len(lines') :
           \/ Len(lines'[n]) > 1
           \/ ~lines'[n][1].whole /\ n # Len(lines')
<1>1. PICK n \in 1..Len(lines) : Len(lines[n]) > 1 \/ ~lines[n][1].whole
  BY DEF Torn
<1>2. Len(lines) \in Nat /\ open \in BOOLEAN
  BY LinesTyping
<1>3. CASE n = End
  <2>1. EndLen > 0
    <3>1. open /\ EndLen = Len(lines[n])
      BY <1>2, <1>3 DEF End, EndLen
    <3> QED BY <3>1 DEF LinesInv
  <2>2. End \in 1..Len(lines') /\ Len(lines'[End]) > 1
    BY <2>1 DEF PutAtEnd
  <2> QED BY <2>2
<1>4. CASE n # End
  <2>1. n \in 1..(End - 1)
    BY <1>2, <1>4 DEF End
  <2>2. lines'[n] = lines[n] /\ Len(lines') = End
    BY <2>1 DEF PutAtEnd
  <2> QED BY <1>1, <2>1, <2>2
<1> QED BY <1>3, <1>4

LEMMA TornStep ==
  ASSUME TypeOK, JournalInv, Torn, [Next]_vars
  PROVE  Torn'
<1>1. ASSUME UNCHANGED lines, ~At(writer', "partial") PROVE Torn'
  BY <1>1 DEF Torn
<1>2. ASSUME NEW whole \in BOOLEAN, At(writer, "opened"), PutPiece(writer.event, whole)
      PROVE  Torn'
  <2>1. PutAtEnd([event |-> writer.event, whole |-> whole]) /\ End \in Nat \ {0} /\ EndLen \in Nat
    BY <1>2, PutPiecePutsAtEnd DEF JournalInv, At
  <2> QED BY <1>2, <2>1, PutKeepsTorn DEF JournalInv, Torn
<1>3. CASE Begin(writer, writer')
  BY <1>1, <1>3 DEF Begin, At
<1>4. CASE WritePart(writer, writer')
  BY <1>2, <1>4 DEF WritePart, Moves
<1>5. CASE WriteLine(writer, writer')
  <2>1. CASE At(writer, "opened") /\ PutPiece(writer.event, TRUE)
    BY <1>2, <2>1
  <2>2. CASE ~(At(writer, "opened") /\ PutPiece(writer.event, TRUE))
    <3>0. Moves(writer, "partial", writer', "line") /\ CompletePiece(writer.event)
      BY <1>5, <2>2 DEF WriteLine, Moves
    <3>1. At(writer, "partial") /\ CompletePiece(writer.event) /\ ~At(writer', "partial")
      BY <3>0 DEF Moves, At
    <3>2. CompletesLast
      BY <3>1, PartialIsCompleted DEF JournalInv
    <3>3. PICK n \in 1..Len(lines) :
            \/ Len(lines[n]) > 1
            \/ ~lines[n][1].whole /\ n # Len(lines)
      BY <3>1 DEF Torn
    <3>4. n \in 1..Len(lines') /\ Len(lines'[n]) = Len(lines[n])
          /\ (n # Len(lines) => lines'[n] = lines[n])
      BY <3>2 DEF CompletesLast
    <3>5. Len(lines'[n]) > 1 \/ ~lines'[n][1].whole
      BY <3>3, <3>4
    <3> QED BY <3>1, <3>4, <3>5 DEF Torn
  <2> QED BY <2>1, <2>2
<1>6. CASE WriteNewline(writer, writer')
  BY <1>1, <1>6 DEF WriteNewline, Moves, At
<1>7. CASE Ack(writer, writer') \/ Interrupted(writer, writer')
  BY <1>1, <1>7 DEF Ack, Interrupted, At
<1>8. CASE Read /\ UNCHANGED writer
  BY <1>8 DEF Read, Torn
<1>9. CASE UNCHANGED vars
  BY <1>9 DEF vars, Torn
<1> QED BY <1>3, <1>4, <1>5, <1>6, <1>7, <1>8, <1>9 DEF Next, Continues

(* local_store.py lines 109-123, 229-236: a journal that does not parse     *)
(* while nobody writes is lost to every later read: whatever is appended,   *)
(* read_events never answers again.                                         *)
THEOREM TornIsForGood == Spec => TornForGood
<1>1. TypeOK /\ JournalInv => (writer = None /\ ~Readable => Torn) /\ (Torn => ~Readable)
  BY UnreadableIsTorn DEF JournalInv
<1>2. TypeOK /\ JournalInv /\ Torn /\ [Next]_vars => Torn'
  BY TornStep
<1> QED BY <1>1, <1>2, Typing, PTL DEF Spec, TornForGood

=============================================================================
