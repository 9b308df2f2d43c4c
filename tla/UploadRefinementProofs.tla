----------------------- MODULE UploadRefinementProofs -----------------------
(***************************************************************************)
(* The upload of a package is what Installer makes of it, for every        *)
(* archive, package, buffer and counter: each step is one of Installer's   *)
(* or leaves its variables alone.                                          *)
(***************************************************************************)
EXTENDS PackageUploadProofs

-----------------------------------------------------------------------------
(* The invariant: what Installer sees as pieces are the buffers read.      *)

\* Buffers(n) when n bytes are whole buffers.
Whole(n) == \E k \in Nat : n = BufferSize * k

PieceInv ==
    /\ size <= MaxSize
    /\ pc \in {"fill", "write"} => readError \/ position = size
                                     \/ Whole(position)
    /\ pc = "write" => amount > 0 /\ Whole(position - amount)
    /\ pc \in {"scan", "info", "open"} => ~pending
    /\ pc = "fill" /\ pending => position > 0
    /\ pc = "write" /\ pending => position - amount > 0

\* The archive is open as long as Installer has it open.
ZipInv ==
    pc \in {"scan", "info", "open", "fill", "write", "close"} => "zip" \in opened

PInv == UInv /\ PieceInv /\ ZipInv

-----------------------------------------------------------------------------
(* Counting buffers.                                                       *)

LEMMA DivideSum ==
  ASSUME NEW w \in Nat \ {0}, NEW q \in Int, NEW r \in 0 .. (w - 1)
  PROVE  (w * q + r) \div w = q
OBVIOUS

\* Whole buffers, and some bytes more.
LEMMA CountBuffers ==
  ASSUME NEW k \in Nat, NEW n \in 1..BufferSize
  PROVE  /\ Buffers(BufferSize * k) = k
         /\ Buffers(BufferSize * k + n) = k + 1
<1> USE SizesAssumption
<1> DEFINE m == BufferSize * k
<1>1. m \in Nat
  OBVIOUS
<1>2. (m + (BufferSize - 1)) \div BufferSize = k
  BY DivideSum
<1>3. BufferSize * (k + 1) = m + BufferSize
  OBVIOUS
<1>4. (BufferSize * (k + 1) + (n - 1)) \div BufferSize = k + 1
  BY DivideSum
<1> HIDE DEF m
<1>5. m + BufferSize - 1 = m + (BufferSize - 1)
      /\ m + n + BufferSize - 1 = (m + BufferSize) + (n - 1)
  BY <1>1
<1>6. Buffers(m) = k /\ Buffers(m + n) = k + 1
  BY <1>2, <1>3, <1>4, <1>5 DEF Buffers
<1> QED
  BY <1>6 DEF m

\* Something is left when some bytes are.
LEMMA BuffersLeft ==
  ASSUME NEW k \in Nat, BufferSize * k < MaxSize
  PROVE  k < Buffers(MaxSize)
<1> USE SizesAssumption
<1> DEFINE a == MaxSize + BufferSize - 1
           q == Buffers(MaxSize)
<1>1. a \in Nat /\ q = a \div BufferSize /\ q \in Int
  BY DEF Buffers
<1>2. a % BufferSize \in 0 .. (BufferSize - 1)
  BY <1>1
<1>3. a = BufferSize * q + (a % BufferSize)
  BY <1>1
<1> HIDE DEF q
<1>4. BufferSize * q > BufferSize * k
  <2> DEFINE x == BufferSize * q
             y == BufferSize * k
             r == a % BufferSize
  <2>1. x \in Int /\ y \in Int /\ r \in 0 .. (BufferSize - 1)
    BY <1>1, <1>2
  <2>2. MaxSize + BufferSize - 1 = x + r /\ y < MaxSize
    BY <1>3
  <2> HIDE DEF x, y, r
  <2>3. x > y
    BY <2>1, <2>2
  <2> QED
    BY <2>3 DEF x, y
<1>5. ASSUME q <= k PROVE FALSE
  <2>1. BufferSize * q <= BufferSize * k
    BY <1>1, <1>5
  <2> QED
    BY <1>1, <1>4, <2>1
<1> QED
  BY <1>1, <1>5 DEF q

LEMMA NoBuffer == Buffers(0) = 0 /\ 0 < Buffers(MaxSize) /\ Whole(0)
<1>1. BufferSize * 0 = 0 /\ 1 \in 1..BufferSize /\ 0 < MaxSize
  BY SizesAssumption
<1> QED
  BY <1>1, CountBuffers, BuffersLeft DEF Whole

-----------------------------------------------------------------------------
LEMMA InitPInv == Init => PInv
<1> SUFFICES ASSUME Init PROVE PInv
  OBVIOUS
<1>1. UInv
  BY InitUInv
<1>2. size <= MaxSize
  BY SizesAssumption DEF Init
<1> QED
  BY <1>1, <1>2 DEF Init, PInv, PieceInv, ZipInv

\* Fill takes a whole buffer, or the rest of the package, or its last part
\* that can be read.
LEMMA FillPInv == PInv /\ UInv' /\ Fill => PInv'
<1> SUFFICES ASSUME PInv, UInv', Fill PROVE PInv'
  OBVIOUS
<1> USE SizesAssumption
<1>1. position \in Nat /\ size \in Nat /\ position <= size
  BY TypeFacts DEF PInv, UInv
<1>2. PICK n \in 0 .. Smaller(BufferSize, size - position) :
        /\ readError => n = 0
        /\ amount' = n /\ position' = position + n
        /\ readError' = (readError \/ n < Smaller(BufferSize, size - position))
        /\ pc' = IF n = 0 THEN "close" ELSE "write"
  BY DEF Fill
<1>3. pc = "fill" /\ UNCHANGED <<size, opened, pending>>
  BY DEF Fill, reportVars
<1>4. /\ Smaller(BufferSize, size - position) \in Int
      /\ Smaller(BufferSize, size - position) = BufferSize
           \/ Smaller(BufferSize, size - position) = size - position
      /\ Smaller(BufferSize, size - position) <= size - position
  BY <1>1 DEF Smaller
<1>5. PieceInv'
  <2>1. CASE n = 0
    BY <1>2, <1>3, <2>1 DEF PInv, PieceInv
  <2>2. CASE n > 0
    <3>1. ~readError /\ position # size
      BY <1>1, <1>2, <1>4, <2>2
    <3>2. PICK k \in Nat : position = BufferSize * k
      BY <1>3, <3>1 DEF PInv, PieceInv, Whole
    <3>3. position' - amount' = position
      BY <1>1, <1>2
    <3>4. n = BufferSize => position' = BufferSize * (k + 1)
      BY <1>2, <3>2
    <3>5. n < Smaller(BufferSize, size - position)
            \/ position' = size \/ n = BufferSize
      <4>1. n \in Int /\ n <= Smaller(BufferSize, size - position)
            /\ position' = position + n
        BY <1>2, <1>4
      <4> QED
        BY <1>1, <1>4, <4>1
    <3>6. readError' \/ position' = size \/ n = BufferSize
      BY <1>2, <3>5, Zenon
    <3>7. n = BufferSize => Whole(position')
      BY <3>4 DEF Whole
    <3>8. readError' \/ position' = size \/ Whole(position')
      BY <3>6, <3>7, Zenon
    <3>9. Whole(position' - amount')
      BY <3>2, <3>3 DEF Whole
    <3> QED
      BY <1>1, <1>2, <1>3, <2>2, <3>1, <3>3, <3>8, <3>9 DEF PInv, PieceInv, Whole
  <2> QED
    BY <1>2, <1>4, <2>1, <2>2
<1>6. ZipInv'
  BY <1>3 DEF PInv, ZipInv
<1> QED
  BY <1>5, <1>6 DEF PInv

LEMMA ReportBufferPInv == PInv /\ UInv' /\ ReportBuffer => PInv'
<1> SUFFICES ASSUME PInv, UInv', ReportBuffer PROVE PInv'
  OBVIOUS
<1>1. /\ position \in Nat /\ amount \in Nat /\ amount <= position
  BY TypeFacts DEF PInv, UInv
<1>2. /\ pc = "write" /\ pc' \in {"fill", "dead"}
      /\ UNCHANGED <<size, position, readError, amount>>
      /\ pc' = "fill" => opened' = opened
  BY DEF ReportBuffer, bufferVars
<1>3. PieceInv'
  BY <1>1, <1>2 DEF PInv, PieceInv, Whole
<1>4. ZipInv'
  BY <1>2 DEF PInv, ZipInv
<1> QED
  BY <1>3, <1>4 DEF PInv

LEMMA StepPInv == PInv /\ [Step]_vars => PInv'
<1> SUFFICES ASSUME PInv, [Step]_vars PROVE PInv'
  OBVIOUS
<1>1. UInv'
  BY StepUInv DEF PInv
<1>2. CASE Fill
  BY <1>1, <1>2, FillPInv
<1>3. CASE ReportBuffer
  BY <1>1, <1>3, ReportBufferPInv
<1>4. CASE Match \/ Skip \/ ReadInfo \/ OpenFails \/ OpenFiles
  <2>1. /\ pc \in {"scan", "info", "open"}
        /\ pc' \in {"scan", "info", "open", "fill", "failed", "dead"}
        /\ UNCHANGED <<size, position, amount, readError, pending>>
        /\ pc' \notin {"failed", "dead"} => opened \subseteq opened'
    BY <1>4 DEF Match, AfterMatch, Skip, ReadInfo, OpenFails, OpenFiles, bufferVars,
         reportVars
  <2>2. position = 0
    BY <2>1 DEF PInv, UInv, LengthInv
  <2>3. PieceInv'
    BY <2>1, <2>2, NoBuffer DEF PInv, PieceInv
  <2>4. ZipInv'
    BY <2>1 DEF PInv, ZipInv
  <2> QED
    BY <1>1, <2>3, <2>4 DEF PInv
<1>5. CASE Write \/ WriteFails \/ Close \/ UNCHANGED vars
  <2>1. /\ UNCHANGED <<size, position, amount, readError, pending>>
        /\ \/ pc' = pc /\ opened' = opened
           \/ pc' \in {"failed", "install"}
    BY <1>5 DEF Write, WriteSome, WriteFails, Close, bufferVars, reportVars, vars
  <2>2. PieceInv' /\ ZipInv'
    BY <2>1 DEF PInv, PieceInv, ZipInv, Whole
  <2> QED
    BY <1>1, <2>2 DEF PInv
<1> QED
  BY <1>2, <1>3, <1>4, <1>5 DEF Step

-----------------------------------------------------------------------------
(* What short writes may do to the copy.                                   *)

\* The phone's bytes are in their buffers; those of the buffer that is being
\* written are some of its bytes.
DamageInv ==
    /\ pc \in {"scan", "info", "open", "fill", "close", "install"} =>
         \A k \in 1 .. Len(remote) : Buffers(remote[k]) = Buffers(k)
    /\ pc = "write" =>
         \A k \in 1 .. Len(remote) :
             IF k <= position - amount THEN Buffers(remote[k]) = Buffers(k)
             ELSE remote[k] \in (position - amount + 1) .. position

LEMMA WriteDamage ==
  ASSUME PInv, DamageInv, Write
  PROVE  DamageInv'
<1>1. PICK n \in 0..amount : WriteSome(n)
  BY DEF Write
<1>2. /\ n \in Nat /\ amount \in Nat /\ amount <= position /\ n <= amount
      /\ position \in Nat /\ position <= size /\ size \in Nat /\ total \in Nat
      /\ remote \in Seq(1..size) /\ Len(remote) \in Nat
  BY TypeFacts DEF PInv, UInv
<1>3. /\ pc = "write" /\ remote' = remote \o Bytes(n)
      /\ UNCHANGED <<pc, position, amount>>
  BY <1>1 DEF WriteSome, bufferVars
<1>4. Len(remote) = (position - amount) + total
  BY <1>3 DEF PInv, UInv, LengthInv
<1>5. /\ Bytes(n) \in Seq(1..size) /\ Len(Bytes(n)) = n
      /\ \A k \in 1..n : Bytes(n)[k] = (position - amount) + k
  BY <1>2 DEF Bytes
<1> HIDE DEF Bytes
<1>6. Len(remote') = Len(remote) + n
      /\ \A k \in 1 .. Len(remote') :
            remote'[k] = IF k <= Len(remote) THEN remote[k]
                         ELSE Bytes(n)[k - Len(remote)]
  <2> DEFINE t == Bytes(n)
  <2>1. t \in Seq(1..size) /\ Len(t) = n /\ remote' = remote \o t
    BY <1>3, <1>5
  <2> HIDE DEF t
  <2>2. Len(remote') = Len(remote) + n
        /\ \A k \in 1 .. Len(remote') :
              remote'[k] = IF k <= Len(remote) THEN remote[k] ELSE t[k - Len(remote)]
    BY <1>2, <2>1, ConcatFacts
  <2> QED
    BY <2>2 DEF t
<1> SUFFICES ASSUME NEW k \in 1 .. Len(remote')
             PROVE  IF k <= position - amount THEN Buffers(remote'[k]) = Buffers(k)
                    ELSE remote'[k] \in (position - amount + 1) .. position
  BY <1>3 DEF DamageInv
<1>7. CASE k <= Len(remote)
  BY <1>2, <1>3, <1>6, <1>7 DEF DamageInv
<1>8. CASE k > Len(remote)
  <2>1. k - Len(remote) \in 1..n /\ ~(k <= position - amount)
    BY <1>2, <1>4, <1>6, <1>8
  <2>2. remote'[k] = (position - amount) + (k - Len(remote))
    BY <1>5, <1>6, <1>8, <2>1
  <2> QED
    BY <1>2, <2>1, <2>2
<1> QED
  BY <1>2, <1>7, <1>8

\* A buffer that is stored is as long as it should be, so that what its bytes
\* are is all that may be wrong.
LEMMA ReportDamage ==
  ASSUME PInv, DamageInv, ReportBuffer
  PROVE  DamageInv'
<1>1. /\ pc = "write" /\ pc' \in {"fill", "dead"} /\ total = amount
      /\ UNCHANGED <<position, amount, remote>>
  BY DEF ReportBuffer, bufferVars, writeVars
<1>2. /\ position \in Nat /\ amount \in Nat /\ amount <= BufferSize
      /\ amount <= position /\ remote \in Seq(1..size) /\ amount > 0
  BY <1>1, TypeFacts DEF PInv, UInv, PieceInv
<1>3. Len(remote) = position
  BY <1>1, <1>2 DEF PInv, UInv, LengthInv
<1>4. PICK m \in Nat : position - amount = BufferSize * m
  BY <1>1 DEF PInv, PieceInv, Whole
<1> SUFFICES ASSUME NEW k \in 1..position
             PROVE  Buffers(remote[k]) = Buffers(k)
  BY <1>1, <1>3 DEF DamageInv
<1>5. CASE k <= position - amount
  BY <1>1, <1>3, <1>5 DEF DamageInv
<1>6. CASE k > position - amount
  <2>1. ASSUME NEW b \in (position - amount + 1) .. position
        PROVE  Buffers(b) = m + 1
    <3> DEFINE w == BufferSize * m
    <3>1. w \in Nat /\ position - amount = w
      BY <1>4, SizesAssumption
    <3> HIDE DEF w
    <3>2. b - w \in 1..BufferSize /\ b = w + (b - w)
      BY <1>2, <2>1, <3>1, SizesAssumption
    <3>3. Buffers(w + (b - w)) = m + 1
      BY <3>2, CountBuffers DEF w
    <3> QED
      BY <3>2, <3>3
  <2>2. k \in (position - amount + 1) .. position
    BY <1>2, <1>6
  <2>3. remote[k] \in (position - amount + 1) .. position
    BY <1>1, <1>2, <1>3, <1>6 DEF DamageInv
  <2> QED
    BY <2>1, <2>2, <2>3
<1> QED
  BY <1>2, <1>5, <1>6

LEMMA FillDamage ==
  ASSUME PInv, DamageInv, Fill
  PROVE  DamageInv'
<1>1. PICK n \in 0 .. Smaller(BufferSize, size - position) :
        /\ amount' = n /\ position' = position + n
        /\ pc' = IF n = 0 THEN "close" ELSE "write"
  BY DEF Fill
<1>2. pc = "fill" /\ remote' = remote
  BY DEF Fill
<1>3. position \in Nat /\ Len(remote) = position
  BY <1>2, TypeFacts DEF PInv, UInv, LengthInv
<1>4. position' - amount' = position
  BY <1>1, <1>3
<1> QED
  BY <1>1, <1>2, <1>3, <1>4 DEF DamageInv

LEMMA StepDamage ==
  ASSUME PInv, DamageInv, [Step]_vars
  PROVE  DamageInv'
<1>1. CASE Write
  BY <1>1, WriteDamage
<1>2. CASE ReportBuffer
  BY <1>2, ReportDamage
<1>3. CASE Fill
  BY <1>3, FillDamage
<1>4. CASE Match \/ Skip \/ ReadInfo \/ OpenFails \/ OpenFiles \/ WriteFails \/ Close
             \/ UNCHANGED vars
  <2>1. /\ UNCHANGED <<position, amount, remote>>
        /\ \/ pc' = pc
           \/ pc \in {"scan", "info", "open", "close"} /\ pc' # "write"
           \/ pc' \in {"failed", "dead"}
    BY <1>4 DEF Match, AfterMatch, Skip, ReadInfo, OpenFails, OpenFiles, WriteFails, Close,
         bufferVars, writeVars, vars
  <2> QED
    BY <2>1 DEF DamageInv
<1> QED
  BY <1>1, <1>2, <1>3, <1>4 DEF Step

\* Without short writes the phone has the package's bytes in their order; with
\* them, what is installed has every byte in the buffer it belongs to.
THEOREM CopyIsFaithful == Spec => []CopyOfPackage
<1>1. Init => PInv /\ DamageInv
  <2>1. Init => Len(remote) = 0
    BY DEF Init
  <2> QED
    BY <2>1, InitPInv DEF Init, DamageInv
<1>2. PInv /\ DamageInv /\ [Step]_vars => PInv' /\ DamageInv'
  BY StepPInv, StepDamage
<1>3. PInv /\ DamageInv => CopyOfPackage
  BY DEF PInv, UInv, OrderInv, DamageInv, CopyOfPackage
<1> QED
  BY <1>1, <1>2, <1>3, PTL DEF Spec

-----------------------------------------------------------------------------
(* How many steps are left.                                                *)

\* The most steps that a buffer can take: it is filled, written a byte at a
\* time, written beyond its end, and reported.
PerBuffer == 2 * BufferSize + 2

LeftToRead == PerBuffer * (size - position)

Rank ==
    CASE pc = "scan"  -> LeftToRead + 5 + (Len(archive) + 2 - i)
      [] pc = "info"  -> LeftToRead + 4
      [] pc = "open"  -> LeftToRead + 3
      [] pc = "fill"  -> LeftToRead + 2
      [] pc = "write" -> LeftToRead + 3 + (2 * BufferSize - total)
      [] pc = "close" -> 1
      [] OTHER        -> 0

LEMMA RankFacts ==
  ASSUME UInv
  PROVE  /\ LeftToRead \in Nat /\ Rank \in Nat
         /\ Rank = 0 <=> Ended
         /\ pc = "scan" => Rank = LeftToRead + 5 + (Len(archive) + 2 - i)
         /\ pc = "info" => Rank = LeftToRead + 4
         /\ pc = "open" => Rank = LeftToRead + 3
         /\ pc = "fill" => Rank = LeftToRead + 2
         /\ pc = "write" => Rank = LeftToRead + 3 + (2 * BufferSize - total)
         /\ pc = "close" => Rank = 1
<1>1. /\ pc \in Pcs /\ total \in 0 .. 2 * BufferSize /\ BufferSize \in Nat
      /\ i \in 1 .. (Len(archive) + 2) /\ Len(archive) \in Nat
  BY TypeFacts, SizesAssumption DEF UInv, TypeOK
<1>2. LeftToRead \in Nat
  <2>1. size - position \in Nat /\ PerBuffer \in Nat
    BY TypeFacts, SizesAssumption DEF UInv, PerBuffer
  <2> QED
    BY <2>1 DEF LeftToRead
<1>3. 2 * BufferSize - total \in Nat /\ Len(archive) + 2 - i \in Nat
  BY <1>1
<1>4. /\ pc = "scan" => Rank = LeftToRead + 5 + (Len(archive) + 2 - i)
      /\ pc = "info" => Rank = LeftToRead + 4
      /\ pc = "open" => Rank = LeftToRead + 3
      /\ pc = "fill" => Rank = LeftToRead + 2
      /\ pc = "write" => Rank = LeftToRead + 3 + (2 * BufferSize - total)
      /\ pc = "close" => Rank = 1
      /\ pc \in {"install", "failed", "dead"} => Rank = 0
  BY DEF Rank
<1> HIDE DEF Rank
<1> QED
  BY <1>1, <1>2, <1>3, <1>4 DEF Pcs, Ended

\* What was read is paid for with the steps of a buffer.
LEMMA ReadingPays ==
  ASSUME UInv, NEW n \in Nat \ {0}, position' = position + n, size' = size,
         position' <= size
  PROVE  LeftToRead' + PerBuffer <= LeftToRead
<1> DEFINE x == size - position
           p == PerBuffer
<1>1. x \in Nat /\ x - n \in Nat /\ p \in Nat /\ n - 1 \in Nat
      /\ position \in Nat /\ size \in Nat
  <2>1. position \in Nat /\ size \in Nat /\ position <= size /\ p \in Nat
    BY TypeFacts, SizesAssumption DEF UInv, PerBuffer
  <2> QED
    BY <2>1
<1>2. LeftToRead = p * x /\ LeftToRead' = p * (x - n) /\ PerBuffer = p
  <2>1. PerBuffer' = PerBuffer /\ size' - position' = x - n
    BY <1>1 DEF PerBuffer
  <2> QED
    BY <2>1 DEF LeftToRead
<1> HIDE DEF x, p
<1>3. p * x = p * (x - n) + p * n /\ p * n = p + p * (n - 1)
  BY <1>1
<1>4. p * (n - 1) \in Nat /\ p * (x - n) \in Nat
  BY <1>1
<1> QED
  BY <1>1, <1>2, <1>3, <1>4

\* Every step brings the upload nearer to its end, by a number that its
\* archive, its size and the buffer bound from the start; only a write that
\* stores nothing and fails not leaves it where it was.
THEOREM StepsAreCounted ==
  Spec => /\ [](Rank \in Nat /\ (Rank = 0 <=> Ended))
          /\ [][Rank' < Rank \/ (WriteSome(0) /\ Rank' = Rank)]_vars
<1> USE SizesAssumption
<1>1. ASSUME UInv, UInv', Step
      PROVE  Rank' < Rank \/ (WriteSome(0) /\ Rank' = Rank)
  <2> USE <1>1
  <2>1. CASE Match \/ Skip
    <3>1. /\ pc = "scan" /\ i' = i + 1 /\ UNCHANGED <<archive, size, position>>
          /\ pc' \in {"scan", "info", "failed", "dead"}
      BY <2>1 DEF Match, AfterMatch, Skip, bufferVars
    <3>2. LeftToRead' = LeftToRead /\ Len(archive) \in Nat /\ i \in Nat
          /\ i <= Len(archive) + 2
      BY <3>1, TypeFacts DEF UInv, LeftToRead, PerBuffer
    <3>3. /\ pc' = "scan" => Rank' = LeftToRead + 5 + (Len(archive) + 2 - (i + 1))
          /\ pc' = "info" => Rank' = LeftToRead + 4
          /\ pc' \in {"failed", "dead"} => Rank' = 0
      BY <3>1, <3>2 DEF Rank
    <3> QED
      BY <3>1, <3>2, <3>3, RankFacts
  <2>2. CASE ReadInfo \/ OpenFails \/ OpenFiles \/ WriteFails \/ Close
    <3>1. /\ UNCHANGED <<size, position>>
          /\ \/ pc = "info" /\ pc' = "open"
             \/ pc = "open" /\ pc' = "fill"
             \/ pc \in {"info", "open", "write", "close"} /\ pc' \in {"failed", "install"}
      BY <2>2 DEF ReadInfo, OpenFails, OpenFiles, WriteFails, Close, bufferVars
    <3>2. LeftToRead' = LeftToRead
      BY <3>1 DEF LeftToRead, PerBuffer
    <3>3. /\ pc' = "open" => Rank' = LeftToRead + 3
          /\ pc' = "fill" => Rank' = LeftToRead + 2
          /\ pc' \in {"failed", "install"} => Rank' = 0
      BY <3>1, <3>2 DEF Rank
    <3>4. LeftToRead \in Nat /\ (pc = "write" => Rank > 0)
      BY RankFacts DEF Ended
    <3> QED
      BY <3>1, <3>2, <3>3, <3>4, RankFacts
  <2>3. CASE Fill
    <3>1. PICK n \in 0 .. Smaller(BufferSize, size - position) :
            /\ amount' = n /\ position' = position + n
            /\ pc' = IF n = 0 THEN "close" ELSE "write"
      BY <2>3 DEF Fill
    <3>2. pc = "fill" /\ total' = 0 /\ size' = size
      BY <2>3 DEF Fill
    <3>3. CASE n = 0
      <4>1. Rank' = 1
        BY <3>1, <3>3 DEF Rank
      <4> QED
        BY <3>2, <4>1, RankFacts
    <3>4. CASE n # 0
      <4>1. position \in Nat /\ size \in Nat /\ position' <= size
        BY <3>2, TypeFacts DEF UInv, TypeOK
      <4>2. n \in Nat \ {0}
        BY <3>4, <4>1 DEF Smaller
      <4>3. LeftToRead' + PerBuffer <= LeftToRead
        BY <3>1, <3>2, <4>1, <4>2, ReadingPays
      <4>4. Rank' = LeftToRead' + 3 + 2 * BufferSize
        BY <3>1, <3>2, <3>4 DEF Rank
      <4>5. LeftToRead' \in Nat
        <5>1. size' - position' \in Nat /\ PerBuffer \in Nat /\ PerBuffer' = PerBuffer
          BY <3>1, <3>2, <4>1, <4>2 DEF PerBuffer
        <5> QED
          BY <5>1 DEF LeftToRead
      <4> QED
        BY <3>2, <4>3, <4>4, <4>5, RankFacts DEF PerBuffer
    <3> QED
      BY <3>3, <3>4
  <2>4. CASE Write
    <3>1. PICK n \in 0..amount : WriteSome(n)
      BY <2>4 DEF Write
    <3>2. /\ pc = "write" /\ pc' = "write" /\ total' = total + n
          /\ UNCHANGED <<size, position>>
      BY <3>1 DEF WriteSome, CountStored, bufferVars
    <3>3. n \in Nat /\ total \in Nat
      BY TypeFacts DEF UInv
    <3>4. LeftToRead' = LeftToRead
      BY <3>2 DEF LeftToRead, PerBuffer
    <3>5. Rank' = LeftToRead + 3 + (2 * BufferSize - (total + n))
      BY <3>2, <3>4 DEF Rank
    <3>6. CASE n = 0
      BY <3>1, <3>2, <3>3, <3>5, <3>6, RankFacts
    <3>7. CASE n # 0
      BY <3>2, <3>3, <3>5, <3>7, RankFacts
    <3> QED
      BY <3>6, <3>7
  <2>5. CASE ReportBuffer
    <3>1. /\ pc = "write" /\ pc' \in {"fill", "dead"} /\ total = amount
          /\ UNCHANGED <<size, position>>
      BY <2>5 DEF ReportBuffer, bufferVars
    <3>2. LeftToRead' = LeftToRead /\ amount \in Nat /\ amount <= BufferSize
      BY <3>1, TypeFacts DEF UInv, LeftToRead, PerBuffer
    <3>3. Rank' = 0 \/ Rank' = LeftToRead + 2
      BY <3>1, <3>2 DEF Rank
    <3> QED
      BY <3>1, <3>2, <3>3, RankFacts
  <2> QED
    BY <2>1, <2>2, <2>3, <2>4, <2>5 DEF Step
<1>2. UInv => Rank \in Nat /\ (Rank = 0 <=> Ended)
  BY RankFacts
<1>3. UInv /\ UInv' /\ [Step]_vars => [Rank' < Rank \/ (WriteSome(0) /\ Rank' = Rank)]_vars
  BY <1>1
<1> QED
  BY <1>2, <1>3, UploadInvariant, PTL DEF Spec

-----------------------------------------------------------------------------
(* The steps.                                                              *)

CoarseStep ==
    Coarse!ReadArchive \/ Coarse!StoreBuffer \/ Coarse!UploadFails
        \/ Coarse!Crash \/ Coarse!CloseArchive

\* Only a report handles a buffer.
LEMMA HandledStays ==
  ASSUME PInv, [Step]_vars, ~ReportBuffer
  PROVE  Handled' = Handled
<1>1. /\ position \in Nat /\ amount \in Nat
  BY TypeFacts DEF PInv, UInv
<1>2. CASE Fill
  <2>1. PICK n \in 0 .. Smaller(BufferSize, size - position) :
          /\ amount' = n /\ position' = position + n
          /\ pc' = IF n = 0 THEN "close" ELSE "write"
    BY <1>2 DEF Fill
  <2>2. position' - amount' = position /\ (pc' = "close" => position' = position)
    BY <1>1, <2>1
  <2>3. pc = "fill" /\ pc' \in {"close", "write"}
    BY <1>2, <2>1 DEF Fill
  <2> QED
    BY <2>2, <2>3 DEF Handled
<1>3. CASE Match \/ Skip \/ ReadInfo \/ OpenFails \/ OpenFiles
  <2>1. /\ pc \in {"scan", "info", "open"}
        /\ UNCHANGED <<position, amount>>
    BY <1>3 DEF Match, Skip, ReadInfo, OpenFails, OpenFiles, bufferVars
  <2>2. position - amount = position
    BY <2>1 DEF PInv, UInv, LengthInv
  <2> QED
    BY <2>1, <2>2 DEF Handled
<1>4. CASE Write \/ WriteFails \/ Close \/ UNCHANGED vars
  <2>1. /\ UNCHANGED <<position, amount>>
        /\ \/ pc' = pc
           \/ pc = "write" /\ pc' = "failed"
           \/ pc = "close" /\ pc' = "install"
    BY <1>4 DEF Write, WriteSome, WriteFails, Close, bufferVars, vars
  <2> QED
    BY <2>1 DEF Handled
<1> QED
  BY <1>2, <1>3, <1>4 DEF Step

\* While an upload is at work on a buffer there is one left.
LEMMA PieceLeft ==
  ASSUME PInv, pc \in {"open", "write"}
  PROVE  /\ Handled < Buffers(MaxSize)
         /\ pc = "write" => Handled \in Nat /\ Buffers(position) = Handled + 1
         /\ pc = "write" /\ pending => Handled > 0
<1>1. /\ position \in Nat /\ amount \in Nat /\ amount <= BufferSize
      /\ position <= size /\ size \in Nat /\ size <= MaxSize
  BY TypeFacts DEF PInv, UInv, PieceInv
<1>2. CASE pc = "open"
  <2>1. Handled = Buffers(0)
    BY <1>2 DEF PInv, UInv, LengthInv, Handled
  <2> QED
    BY <1>2, <2>1, NoBuffer
<1>3. CASE pc = "write"
  <2>1. amount > 0 /\ Handled = Buffers(position - amount)
    BY <1>3 DEF PInv, PieceInv, Handled
  <2>2. PICK k \in Nat : position - amount = BufferSize * k
    BY <1>3 DEF PInv, PieceInv, Whole
  <2>3. amount \in 1..BufferSize
    BY <1>1, <2>1, SizesAssumption
  <2> DEFINE m == BufferSize * k
  <2>4. m \in Nat /\ Buffers(m) = k /\ Buffers(m + amount) = k + 1
    BY <2>3, CountBuffers, SizesAssumption
  <2>5. position - amount = m /\ (m < MaxSize => k < Buffers(MaxSize))
    BY <2>2, BuffersLeft
  <2>6. k = 0 => m = 0
    BY SizesAssumption
  <2> HIDE DEF m
  <2>7. position = m + amount /\ m < MaxSize
    BY <1>1, <2>1, <2>4, <2>5, SizesAssumption
  <2>8. pending => m > 0
    BY <1>3, <2>5 DEF PInv, PieceInv
  <2> QED
    BY <1>3, <2>1, <2>4, <2>5, <2>6, <2>7, <2>8
<1> QED
  BY <1>2, <1>3

LEMMA Simulation ==
  ASSUME PInv, PInv', [Step]_vars
  PROVE  [CoarseStep]_(Coarse!vars)
<1> USE DEF Coarse!vars, Coarse!packageVars, Coarse!pointerVars, Coarse!flagVars,
            Coarse!resultVars, Coarse!workerVars, Coarse!deviceVars,
            Coarse!eventVars
<1>1. CASE Match \/ Skip
  <2>1. /\ pc = "scan" /\ "zip" \in opened /\ Handled' = Handled
        /\ \/ pc' \in {"scan", "info", "failed"} /\ opened' = opened
           \/ pc' = "dead"
    BY <1>1, HandledStays DEF Match, Skip, AfterMatch, Step, ReportBuffer, PInv, ZipInv
  <2>2. CASE pc' \in {"scan", "info"} /\ opened' = opened
    BY <2>1, <2>2
  <2>3. CASE pc' = "failed" /\ opened' = opened
    BY <2>1, <2>3 DEF CoarseStep, Coarse!ReadArchive, Coarse!Moves
  <2>4. CASE pc' = "dead"
    BY <2>1, <2>4 DEF CoarseStep, Coarse!Crash
  <2> QED
    BY <2>1, <2>2, <2>3, <2>4
<1>2. CASE ReadInfo
  <2>1. /\ pc = "info" /\ "zip" \in opened /\ Handled' = Handled
        /\ \/ pc' = "open" /\ opened' = opened
           \/ pc' = "failed" /\ "zip" \notin opened'
    BY <1>2, HandledStays DEF ReadInfo, Step, ReportBuffer, PInv, ZipInv
  <2>2. CASE pc' = "open" /\ opened' = opened
    BY <2>1, <2>2 DEF CoarseStep, Coarse!ReadArchive, Coarse!Moves
  <2>3. CASE pc' = "failed" /\ "zip" \notin opened'
    BY <2>1, <2>3 DEF CoarseStep, Coarse!ReadArchive, Coarse!Moves
  <2> QED
    BY <2>1, <2>2, <2>3
<1>3. CASE OpenFiles \/ Fill \/ Write \/ UNCHANGED vars
  <2>1. ~ReportBuffer /\ Handled' = Handled
    <3>1. CASE ~ReportBuffer
      BY <3>1, HandledStays
    <3>2. CASE ReportBuffer
      BY <1>3, <3>2 DEF OpenFiles, Fill, Write, WriteSome, ReportBuffer, vars
    <3> QED
      BY <3>1, <3>2
  <2> QED
    BY <1>3, <2>1 DEF OpenFiles, Fill, Write, WriteSome, vars
<1>4. CASE OpenFails \/ WriteFails
  <2>1. /\ pc \in {"open", "write"} /\ pc' = "failed" /\ Handled' = Handled
        /\ "zip" \in opened <=> "zip" \in opened'
    BY <1>4, HandledStays DEF OpenFails, WriteFails, CloseBoth, Step, ReportBuffer
  <2>2. Handled < Buffers(MaxSize)
    BY <2>1, PieceLeft
  <2> QED
    BY <2>1, <2>2 DEF CoarseStep, Coarse!UploadFails, Coarse!Moves
<1>5. CASE ReportBuffer
  <2>1. /\ pc = "write" /\ "zip" \in opened
        /\ UNCHANGED <<position, amount>>
        /\ \/ pc' = "fill" /\ opened' = opened
           \/ pc' = "dead" /\ pending
    BY <1>5 DEF ReportBuffer, bufferVars, PInv, ZipInv
  <2>2. Handled < Buffers(MaxSize) /\ Handled \in Nat
        /\ Buffers(position) = Handled + 1 /\ (pending => Handled > 0)
    BY <2>1, PieceLeft
  <2>3. CASE pc' = "fill" /\ opened' = opened
    <3>1. Handled' = Handled + 1
      BY <2>1, <2>2, <2>3 DEF Handled
    <3> QED
      BY <2>1, <2>2, <2>3, <3>1 DEF CoarseStep, Coarse!StoreBuffer, Coarse!Handled
  <2>4. CASE pc' = "dead" /\ pending
    <3>1. Handled' = Handled
      BY <2>1, <2>4 DEF Handled
    <3> QED
      BY <2>1, <2>2, <2>4, <3>1 DEF CoarseStep, Coarse!Crash
  <2> QED
    BY <2>1, <2>3, <2>4
<1>6. CASE Close
  <2>1. /\ pc = "close" /\ pc' = "install" /\ Handled' = Handled
        /\ "zip" \in opened /\ "zip" \notin opened'
    BY <1>6, HandledStays DEF Close, Step, ReportBuffer, PInv, ZipInv
  <2> QED
    BY <2>1 DEF CoarseStep, Coarse!CloseArchive, Coarse!Moves
<1> QED
  BY <1>1, <1>2, <1>3, <1>4, <1>5, <1>6 DEF Step

\* An upload is one of Installer's: its buffers are handled one after the
\* other, and it ends as an upload of Installer ends.
THEOREM RefinesInstaller == Spec => ImplementsInstaller
<1>1. Spec => []PInv
  BY InitPInv, StepPInv, PTL DEF Spec
<1>2. PInv /\ PInv' /\ [Step]_vars => [CoarseStep]_(Coarse!vars)
  BY Simulation
<1> QED
  BY <1>1, <1>2, PTL DEF Spec, ImplementsInstaller, CoarseStep

=============================================================================
