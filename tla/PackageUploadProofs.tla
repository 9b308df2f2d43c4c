------------------------- MODULE PackageUploadProofs -------------------------
(***************************************************************************)
(* Proofs about PackageUpload, for archives and packages of every size,    *)
(* every buffer and every width of the counters: the safety properties of  *)
(* its run, from the inductive invariant UInv.                             *)
(***************************************************************************)
EXTENDS PackageUpload, TLAPS

-----------------------------------------------------------------------------
(* The inductive invariant, in named parts.                                *)

\* No application was met so far; one was when its Info.plist is read.
ScanInv ==
    /\ pc = "scan" =>
         /\ app = 0
         /\ i <= Len(archive) \/ (i = 1 /\ Len(archive) = 0)
         /\ \A k \in 1 .. Len(archive) : k < i => archive[k] \notin {"dir", "stray"}
    /\ pc \in {"info", "open", "fill", "write", "close", "install"} => app # 0

\* What the phone has stored is as long as what was read, but for the buffer
\* that is being written.
LengthInv ==
    /\ pc \in {"scan", "info", "open"} => position = 0 /\ amount = 0 /\ remote = << >>
    /\ pc \in {"fill", "close", "install"} => Len(remote) = position
    /\ pc = "write" => Len(remote) = (position - amount) + total
    /\ pc \in {"close", "install"} => readError \/ position = size

\* Without a short write a buffer is stored at once.
WholeInv == pc = "write" /\ ~short => total = 0 \/ total = amount

\* send_count is what was reported, in its width; when all of it was, the
\* client was told.
CountInv ==
    /\ pc \in {"scan", "info", "open"} => sendCount = 0
    /\ pc \in {"fill", "close", "install"} => sendCount = position % Width
    /\ pc = "write" => sendCount = (position - amount) % Width
    /\ pc \in {"fill", "close", "install"} /\ position = size /\ size > 0
         /\ ~pending /\ ~missed =>
         told = <<size % Width, size % Width>>

\* While the counters do not overflow, the client was told the size, and no
\* more than what the phone has stored.
ToldInv ==
    size < Width /\ told # << >> =>
        told[2] = size /\ told[1] <= sendCount /\ told[1] <= Len(remote)

\* Bytes are stored in their order until a write is short.
OrderInv == short \/ remote = [k \in 1 .. Len(remote) |-> k]

UInv ==
    /\ TypeOK
    /\ ScanInv
    /\ FirstApplication
    /\ LengthInv
    /\ WholeInv
    /\ OrderInv
    /\ CountInv
    /\ ToldInv
    /\ FilesClosed

-----------------------------------------------------------------------------
(* Operators.                                                              *)

LEMMA SmallerFacts ==
  ASSUME NEW m \in Int, NEW n \in Int
  PROVE  Smaller(m, n) \in Int /\ Smaller(m, n) <= m /\ Smaller(m, n) <= n
           /\ (m >= 0 /\ n >= 0 => Smaller(m, n) >= 0)
           /\ (m > 0 /\ Smaller(m, n) <= 0 => n <= 0)
BY DEF Smaller

LEMMA ConcatFacts ==
  ASSUME NEW S, NEW s \in Seq(S), NEW t \in Seq(S)
  PROVE  /\ s \o t \in Seq(S) /\ Len(s \o t) = Len(s) + Len(t)
         /\ \A k \in 1 .. Len(s \o t) :
              (s \o t)[k] = IF k <= Len(s) THEN s[k] ELSE t[k - Len(s)]
OBVIOUS

\* A counter that does not overflow is the number it counts.
LEMMA NoOverflow ==
  ASSUME NEW n \in Nat, n < Width
  PROVE  n % Width = n
BY SizesAssumption

LEMMA CounterRange ==
  ASSUME NEW n \in Nat
  PROVE  n % Width \in Counts /\ n % Width \in Nat
BY SizesAssumption DEF Counts

LEMMA Quotient ==
  ASSUME NEW a \in Nat, NEW w \in Nat \ {0}
  PROVE  \E q \in Int : a = w * q + (a % w)
<1>1. a = w * (a \div w) + (a % w)
  OBVIOUS
<1>2. a \div w \in Int
  OBVIOUS
<1> QED
  BY <1>1, <1>2

LEMMA Remainder ==
  ASSUME NEW w \in Nat \ {0}, NEW q \in Int, NEW r \in 0 .. (w - 1)
  PROVE  (w * q + r) % w = r
OBVIOUS

\* A sum that is taken in the width of a counter at every step.
LEMMA CountOn ==
  ASSUME NEW a \in Nat, NEW b \in Nat
  PROVE  ((a % Width) + b) % Width = (a + b) % Width
<1> DEFINE r == a % Width
           s == (r + b) % Width
<1> USE SizesAssumption
<1>1. r \in Nat /\ r + b \in Nat /\ s \in 0 .. (Width - 1)
  OBVIOUS
<1>2. PICK q \in Int : a = Width * q + r
  BY Quotient
<1>3. PICK p \in Int : r + b = Width * p + s
  BY <1>1, Quotient
<1> HIDE DEF r, s
<1>4. Width * (q + p) = Width * q + Width * p /\ q + p \in Int
  OBVIOUS
<1>5. a + b = Width * (q + p) + s
  BY <1>1, <1>2, <1>3, <1>4
<1>6. (Width * (q + p) + s) % Width = s
  BY <1>1, <1>4, Remainder
<1> QED
  BY <1>5, <1>6 DEF r, s

-----------------------------------------------------------------------------
LEMMA InitUInv == Init => UInv
<1> SUFFICES ASSUME Init PROVE UInv
  OBVIOUS
<1>1. PICK n \in 0 .. MaxEntries : archive \in [1..n -> EntryKinds]
  BY DEF Init
<1>2. n \in Nat /\ archive \in Seq(EntryKinds) /\ Len(archive) = n
  BY <1>1, SizesAssumption
<1>3. /\ pc = "scan" /\ opened = {"zip"} /\ size \in Nat /\ i = 1 /\ app = 0
      /\ position = 0 /\ readError = FALSE /\ amount = 0
      /\ total = 0 /\ short = FALSE /\ remote = << >>
      /\ sendCount = 0 /\ late = FALSE /\ told = << >> /\ pending = FALSE /\ missed = FALSE
  BY SizesAssumption DEF Init
<1>4. TypeOK
  <2>1. size \in Nat /\ i \in 1 .. (Len(archive) + 2) /\ app \in 0 .. Len(archive)
    BY <1>2, <1>3
  <2>2. /\ remote \in Seq(1..size) /\ total \in 0 .. 2 * BufferSize
        /\ sendCount \in Counts /\ told \in Reports
    BY <1>3, SizesAssumption DEF Counts, Reports
  <2>3. amount \in 0 .. Smaller(BufferSize, position)
    BY <1>3, SizesAssumption DEF Smaller
  <2>4. /\ pc \in Pcs /\ opened \subseteq {"zip", "local", "remote"}
        /\ position \in 0..size
    BY <1>3 DEF Pcs
  <2>5. /\ readError \in BOOLEAN /\ short \in BOOLEAN
        /\ late \in BOOLEAN /\ pending \in BOOLEAN /\ missed \in BOOLEAN
    BY <1>3, Zenon
  <2> QED
    BY <1>2, <2>1, <2>2, <2>3, <2>4, <2>5 DEF TypeOK
<1>5. ScanInv /\ FirstApplication
  BY <1>2, <1>3 DEF ScanInv, FirstApplication
<1>6. LengthInv /\ WholeInv /\ CountInv /\ ToldInv /\ FilesClosed
  BY <1>3 DEF LengthInv, WholeInv, CountInv, ToldInv, FilesClosed
<1>7. OrderInv
  BY <1>3 DEF OrderInv
<1> QED
  BY <1>4, <1>5, <1>6, <1>7 DEF UInv

-----------------------------------------------------------------------------
(* The search for the application.                                         *)

LEMMA TypeFacts ==
  ASSUME TypeOK
  PROVE  /\ archive \in Seq(EntryKinds) /\ Len(archive) \in Nat /\ size \in Nat
         /\ \A k \in 1 .. Len(archive) : archive[k] \in EntryKinds
         /\ i \in 1 .. (Len(archive) + 2) /\ app \in 0 .. Len(archive)
         /\ position \in 0..size /\ amount \in Nat
         /\ amount <= BufferSize /\ amount <= position
         /\ total \in Nat /\ remote \in Seq(1..size) /\ Len(remote) \in Nat
         /\ sendCount \in Nat /\ sendCount < Width
<1>1. /\ archive \in Seq(EntryKinds) /\ Len(archive) \in Nat /\ size \in Nat
      /\ i \in 1 .. (Len(archive) + 2) /\ app \in 0 .. Len(archive)
      /\ position \in 0..size /\ total \in Nat /\ sendCount \in Counts
      /\ remote \in Seq(1..size) /\ Len(remote) \in Nat
  BY SizesAssumption DEF TypeOK
<1>2. \A k \in 1 .. Len(archive) : archive[k] \in EntryKinds
  BY <1>1
<1>3. amount \in 0 .. Smaller(BufferSize, position)
  BY DEF TypeOK
<1>4. amount \in Nat /\ amount <= BufferSize /\ amount <= position
  BY <1>1, <1>3, SizesAssumption DEF Smaller
<1>5. sendCount \in Nat /\ sendCount < Width
  BY <1>1, SizesAssumption DEF Counts
<1> QED
  BY <1>1, <1>2, <1>4, <1>5

LEMMA ToldFacts ==
  ASSUME TypeOK, told # << >>
  PROVE  told[1] \in Nat /\ told[2] \in Nat
BY SizesAssumption DEF TypeOK, Reports, Counts

LEMMA MatchUInv == UInv /\ Match => UInv'
<1> SUFFICES ASSUME UInv, Match PROVE UInv'
  OBVIOUS
<1> USE DEF bufferVars, writeVars, reportVars
<1>1. /\ pc = "scan" /\ i <= Len(archive) /\ archive[i] \in {"dir", "stray"}
      /\ i' = i + 1 /\ UNCHANGED <<archive, size, bufferVars, writeVars, reportVars>>
      /\ \/ pc' = "info" /\ app' = i /\ UNCHANGED opened
         \/ pc' = "dead" /\ opened' = {} /\ UNCHANGED app
  BY DEF Match, AfterMatch
<1>2. TypeOK /\ i \in 1 .. Len(archive) /\ app = 0
  BY <1>1, TypeFacts DEF UInv, ScanInv
<1>3. TypeOK'
  <2>1. /\ i' \in 1 .. (Len(archive') + 2) /\ app' \in 0 .. Len(archive')
        /\ pc' \in Pcs /\ opened' \subseteq opened
    BY <1>1, <1>2, TypeFacts DEF Pcs
  <2> QED
    BY <1>1, <1>2, <2>1 DEF TypeOK
<1>4. ScanInv' /\ FirstApplication'
  BY <1>1, <1>2, TypeFacts DEF UInv, ScanInv, FirstApplication
<1>5. LengthInv' /\ WholeInv' /\ OrderInv' /\ CountInv' /\ ToldInv'
  BY <1>1 DEF UInv, LengthInv, WholeInv, OrderInv, CountInv, ToldInv
<1>6. FilesClosed'
  BY <1>1 DEF UInv, FilesClosed, Uploading
<1> QED
  BY <1>3, <1>4, <1>5, <1>6 DEF UInv

LEMMA SkipUInv == UInv /\ Skip => UInv'
<1> SUFFICES ASSUME UInv, Skip PROVE UInv'
  OBVIOUS
<1> USE DEF Skip, bufferVars, writeVars, reportVars
<1>1. TypeOK
  BY DEF UInv
<1>2. TypeOK'
  BY <1>1, TypeFacts DEF UInv, ScanInv, TypeOK, Pcs
<1>3. ScanInv' /\ FirstApplication'
  BY <1>1, TypeFacts DEF UInv, ScanInv, FirstApplication
<1>4. LengthInv' /\ WholeInv' /\ OrderInv' /\ CountInv' /\ ToldInv'
  BY DEF UInv, LengthInv, WholeInv, OrderInv, CountInv, ToldInv
<1>5. FilesClosed'
  BY DEF UInv, FilesClosed, Uploading
<1> QED
  BY <1>2, <1>3, <1>4, <1>5 DEF UInv

LEMMA ReadInfoUInv == UInv /\ ReadInfo => UInv'
<1> SUFFICES ASSUME UInv, ReadInfo PROVE UInv'
  OBVIOUS
<1> USE DEF ReadInfo, scanVars, bufferVars, writeVars, reportVars
<1>1. TypeOK'
  BY DEF UInv, TypeOK, Pcs
<1>2. ScanInv' /\ FirstApplication'
  BY DEF UInv, ScanInv, FirstApplication
<1>3. LengthInv' /\ WholeInv' /\ OrderInv' /\ CountInv' /\ ToldInv'
  BY DEF UInv, LengthInv, WholeInv, OrderInv, CountInv, ToldInv
<1>4. FilesClosed'
  BY DEF UInv, FilesClosed, Uploading
<1> QED
  BY <1>1, <1>2, <1>3, <1>4 DEF UInv

-----------------------------------------------------------------------------
(* The upload.                                                             *)

LEMMA OpenUInv == UInv /\ (OpenFails \/ OpenFiles) => UInv'
<1> SUFFICES ASSUME UInv, OpenFails \/ OpenFiles PROVE UInv'
  OBVIOUS
<1> USE DEF OpenFails, OpenFiles, scanVars, bufferVars, writeVars, reportVars
<1>1. TypeOK'
  BY DEF UInv, TypeOK, Pcs
<1>2. ScanInv' /\ FirstApplication'
  BY DEF UInv, ScanInv, FirstApplication
<1>3. LengthInv' /\ WholeInv' /\ OrderInv' /\ ToldInv'
  BY DEF UInv, LengthInv, WholeInv, OrderInv, ToldInv
<1>4. FilesClosed'
  BY DEF UInv, FilesClosed, Uploading
<1>5. CountInv'
  <2>1. pc = "open" /\ position = 0 /\ sendCount = 0 /\ pc' \in {"failed", "fill"}
    BY DEF UInv, LengthInv, CountInv
  <2>2. 0 % Width = 0
    BY NoOverflow, SizesAssumption
  <2> QED
    BY <2>1, <2>2 DEF CountInv
<1> QED
  BY <1>1, <1>2, <1>3, <1>4, <1>5 DEF UInv

LEMMA FillUInv == UInv /\ Fill => UInv'
<1> SUFFICES ASSUME UInv, Fill PROVE UInv'
  OBVIOUS
<1> USE DEF scanVars, reportVars
<1>1. PICK n \in 0 .. Smaller(BufferSize, size - position) :
         /\ pc = "fill" /\ (readError => n = 0)
         /\ amount' = n /\ position' = position + n
         /\ readError' = (readError \/ n < Smaller(BufferSize, size - position))
         /\ pc' = IF n = 0 THEN "close" ELSE "write"
         /\ total' = 0
         /\ UNCHANGED <<size, opened, scanVars, short, remote, reportVars>>
  BY DEF Fill
<1>2. TypeOK
  BY DEF UInv
<1>3. /\ n \in Nat /\ n <= BufferSize /\ n <= size - position
      /\ position' \in Nat /\ position' <= size
      /\ position \in Nat /\ size \in Nat
      /\ n = 0 => readError' \/ position = size
  <2>1. position \in Nat /\ size \in Nat /\ position <= size /\ readError \in BOOLEAN
    BY <1>2 DEF TypeOK
  <2> DEFINE most == Smaller(BufferSize, size - position)
  <2>2. /\ most \in Nat /\ most <= BufferSize /\ most <= size - position
        /\ most = 0 => position = size
    BY <2>1, SizesAssumption DEF Smaller
  <2> HIDE DEF most
  <2>3. n \in 0..most /\ readError' = (readError \/ n < most)
    BY <1>1 DEF most
  <2>4. /\ n \in Nat /\ n <= most /\ position' = position + n
        /\ n = 0 => n < most \/ position = size
    BY <1>1, <2>1, <2>2, <2>3
  <2>5. n = 0 => readError' \/ position = size
    BY <2>3, <2>4, Zenon
  <2> QED
    BY <2>1, <2>2, <2>4, <2>5, SizesAssumption
<1>4. TypeOK'
  <2>1. n \in 0 .. Smaller(BufferSize, position')
    BY <1>1, <1>3, SizesAssumption DEF Smaller
  <2>2. position' \in 0..size /\ readError' \in BOOLEAN /\ total' \in 0 .. 2 * BufferSize
        /\ pc' \in Pcs
    BY <1>1, <1>3, SizesAssumption DEF Pcs
  <2> QED
    BY <1>1, <1>2, <2>1, <2>2 DEF TypeOK
<1>5. ScanInv' /\ FirstApplication'
  BY <1>1 DEF UInv, ScanInv, FirstApplication
<1>6. LengthInv'
  BY <1>1, <1>3 DEF UInv, LengthInv
<1>7. WholeInv' /\ OrderInv'
  BY <1>1 DEF UInv, WholeInv, OrderInv
<1>8. CountInv' /\ ToldInv'
  BY <1>1, <1>3 DEF UInv, CountInv, ToldInv
<1>9. FilesClosed'
  BY <1>1 DEF UInv, FilesClosed, Uploading
<1> QED
  BY <1>4, <1>5, <1>6, <1>7, <1>8, <1>9 DEF UInv

LEMMA WriteUInv == UInv /\ Write => UInv'
<1> SUFFICES ASSUME UInv, Write PROVE UInv'
  OBVIOUS
<1> USE DEF scanVars, bufferVars, reportVars
<1>1. TypeOK
  BY DEF UInv
<1>2. PICK n \in 0..amount : WriteSome(n)
  BY DEF Write
<1>3. /\ n \in Nat /\ amount \in Nat /\ amount <= position /\ position <= size
      /\ position \in Nat /\ size \in Nat /\ total \in Nat /\ amount <= BufferSize
      /\ BufferSize \in Nat /\ n <= amount
  BY <1>1, TypeFacts, SizesAssumption
<1>4. /\ pc = "write" /\ total < amount /\ remote' = remote \o Bytes(n)
      /\ short' = (short \/ n < amount) /\ total' = total + n
      /\ UNCHANGED <<pc, size, opened, scanVars, bufferVars, reportVars>>
  BY <1>2 DEF WriteSome, CountStored
<1>5. /\ Bytes(n) \in Seq(1..size) /\ Len(Bytes(n)) = n
      /\ \A k \in 1..n : Bytes(n)[k] = (position - amount) + k
  BY <1>3 DEF Bytes
<1>6. remote \in Seq(1..size) /\ Len(remote) = (position - amount) + total
  BY <1>1, <1>4, TypeFacts DEF UInv, LengthInv
<1> HIDE DEF Bytes
<1>7. remote' \in Seq(1..size) /\ Len(remote') = Len(remote) + n
      /\ \A k \in 1 .. Len(remote') :
            remote'[k] = IF k <= Len(remote) THEN remote[k] ELSE Bytes(n)[k - Len(remote)]
  <2> DEFINE t == Bytes(n)
  <2>1. t \in Seq(1..size) /\ Len(t) = n /\ remote' = remote \o t
    BY <1>4, <1>5
  <2> HIDE DEF t
  <2>2. remote' \in Seq(1..size) /\ Len(remote') = Len(remote) + n
        /\ \A k \in 1 .. Len(remote') :
              remote'[k] = IF k <= Len(remote) THEN remote[k] ELSE t[k - Len(remote)]
    BY <1>6, <2>1, ConcatFacts
  <2> QED
    BY <2>2 DEF t
<1>8. TypeOK'
  <2>1. total' \in 0 .. 2 * BufferSize
    BY <1>3, <1>4
  <2>2. short' \in BOOLEAN
    BY <1>4, Zenon
  <2> QED
    BY <1>1, <1>4, <1>7, <2>1, <2>2 DEF TypeOK
<1>9. ScanInv' /\ FirstApplication' /\ FilesClosed'
  BY <1>4 DEF UInv, ScanInv, FirstApplication, FilesClosed, Uploading
<1>10. LengthInv'
  BY <1>3, <1>4, <1>6, <1>7 DEF LengthInv
<1>11. ASSUME ~short'
       PROVE  ~short /\ total = 0 /\ n = amount
  <2>1. ~short /\ ~(n < amount)
    BY <1>4, <1>11, Zenon
  <2> QED
    BY <1>3, <1>4, <2>1 DEF UInv, WholeInv
<1>12. WholeInv'
  BY <1>3, <1>4, <1>11 DEF WholeInv
<1>13. OrderInv'
  <2>1. CASE short'
    BY <2>1 DEF OrderInv
  <2>2. CASE ~short'
    <3>1. ~short /\ total = 0 /\ n = amount
      BY <2>2, <1>11
    <3>2. Len(remote) = position - amount /\ \A k \in 1 .. Len(remote) : remote[k] = k
      BY <1>3, <1>6, <3>1 DEF UInv, OrderInv
    <3>3. \A k \in 1 .. Len(remote') : remote'[k] = k
      <4> SUFFICES ASSUME NEW k \in 1 .. Len(remote') PROVE remote'[k] = k
        OBVIOUS
      <4>1. CASE k <= Len(remote)
        BY <1>3, <1>7, <3>1, <3>2, <4>1
      <4>2. CASE k > Len(remote)
        <5>1. k - Len(remote) \in 1..n /\ Len(remote) \in Nat
          BY <1>3, <1>7, <3>1, <3>2, <4>2
        <5>2. remote'[k] = Bytes(n)[k - Len(remote)]
          BY <1>7, <4>2, <5>1
        <5>3. Bytes(n)[k - Len(remote)] = (position - amount) + (k - Len(remote))
          BY <1>5, <5>1
        <5> QED
          BY <1>3, <3>1, <3>2, <5>1, <5>2, <5>3
      <4> QED
        BY <1>3, <3>1, <3>2, <4>1, <4>2
    <3>4. remote' = [k \in 1 .. Len(remote') |-> remote'[k]]
      BY <1>7
    <3> QED
      BY <3>3, <3>4 DEF OrderInv
  <2> QED
    BY <2>1, <2>2
<1>14. CountInv' /\ ToldInv'
  <2>1. told # << >> /\ size < Width => told[1] <= sendCount /\ told[1] <= Len(remote)
    BY DEF UInv, ToldInv
  <2> QED
    BY <1>3, <1>4, <1>6, <1>7, <2>1, ToldFacts DEF UInv, CountInv, ToldInv
<1> QED
  BY <1>8, <1>9, <1>10, <1>12, <1>13, <1>14 DEF UInv

LEMMA EndUInv == UInv /\ (WriteFails \/ Close) => UInv'
<1> SUFFICES ASSUME UInv, WriteFails \/ Close PROVE UInv'
  OBVIOUS
<1> USE DEF WriteFails, CloseBoth, Close, scanVars, bufferVars, writeVars, reportVars
<1>1. TypeOK'
  BY DEF UInv, TypeOK, Pcs
<1>2. ScanInv' /\ FirstApplication'
  BY DEF UInv, ScanInv, FirstApplication
<1>3. LengthInv' /\ WholeInv' /\ OrderInv' /\ CountInv' /\ ToldInv'
  BY DEF UInv, LengthInv, WholeInv, OrderInv, CountInv, ToldInv
<1>4. FilesClosed'
  BY DEF UInv, TypeOK, FilesClosed, Uploading
<1> QED
  BY <1>1, <1>2, <1>3, <1>4 DEF UInv

LEMMA ReportBufferUInv == UInv /\ ReportBuffer => UInv'
<1> SUFFICES ASSUME UInv, ReportBuffer PROVE UInv'
  OBVIOUS
<1> USE DEF scanVars, bufferVars, writeVars
<1>1. TypeOK
  BY DEF UInv
<1>2. /\ position \in Nat /\ amount \in Nat /\ amount <= position /\ size \in Nat
      /\ position - amount \in Nat /\ position <= size /\ remote \in Seq(1..size)
  BY <1>1, TypeFacts
<1>3. /\ pc = "write" /\ total = amount /\ pc' \in {"fill", "dead"}
      /\ UNCHANGED <<size, scanVars, bufferVars, writeVars>>
      /\ sendCount' = (sendCount + amount) % Width
      /\ (pc' = "fill" /\ opened' = opened) \/ (pc' = "dead" /\ opened' = {})
  BY DEF ReportBuffer, CountAfter
<1>4. sendCount' = position % Width /\ sendCount' \in Counts /\ size % Width \in Counts
  <2>1. sendCount = (position - amount) % Width
    BY <1>3 DEF UInv, CountInv
  <2>2. (((position - amount) % Width) + amount) % Width = ((position - amount) + amount) % Width
    BY <1>2, CountOn
  <2> QED
    BY <1>2, <1>3, <2>1, <2>2, CounterRange
<1>5. /\ told' = told \/ told' = <<sendCount', size % Width>>
      /\ sendCount' = size % Width /\ told' # <<sendCount', size % Width>> => pending' \/ missed'
      /\ pending => pending'
      /\ late' \in BOOLEAN /\ pending' \in BOOLEAN /\ missed' \in BOOLEAN
  BY <1>1 DEF ReportBuffer, Tell, Due, TypeOK
<1>6. TypeOK'
  <2>1. told' \in Reports
    BY <1>1, <1>4, <1>5 DEF TypeOK, Reports
  <2>2. pc' \in Pcs /\ opened' \subseteq opened
    BY <1>3 DEF Pcs
  <2> QED
    BY <1>1, <1>3, <1>4, <1>5, <2>1, <2>2 DEF TypeOK
<1>7. ScanInv' /\ FirstApplication' /\ WholeInv' /\ OrderInv'
  BY <1>3 DEF UInv, ScanInv, FirstApplication, WholeInv, OrderInv
<1>8. Len(remote) = position /\ LengthInv'
  BY <1>2, <1>3 DEF UInv, LengthInv
<1>9. FilesClosed'
  BY <1>3 DEF UInv, FilesClosed, Uploading
<1>10. CountInv'
  BY <1>2, <1>3, <1>4, <1>5 DEF CountInv
<1>11. ToldInv'
  <2> SUFFICES ASSUME size < Width, told' # << >>
               PROVE  told'[2] = size /\ told'[1] <= sendCount' /\ told'[1] <= Len(remote)
    BY <1>3 DEF ToldInv
  <2>1. size % Width = size /\ sendCount' = position
    <3>1. Width \in Nat /\ position < Width
      BY <1>2, SizesAssumption
    <3>2. size % Width = size /\ position % Width = position
      BY <1>2, <3>1, NoOverflow
    <3> QED
      BY <1>4, <3>2
  <2>2. CASE told' = <<sendCount', size % Width>>
    BY <1>2, <1>8, <2>1, <2>2
  <2>3. CASE told' = told
    BY <1>8, <2>1, <2>3 DEF UInv, ToldInv
  <2> QED
    BY <1>5, <2>2, <2>3
<1> QED
  BY <1>6, <1>7, <1>8, <1>9, <1>10, <1>11 DEF UInv

LEMMA StutterUInv == UInv /\ UNCHANGED vars => UInv'
<1> SUFFICES ASSUME UInv, UNCHANGED vars PROVE UInv'
  OBVIOUS
<1> USE DEF vars, scanVars, bufferVars, writeVars, reportVars
<1>1. TypeOK'
  BY DEF UInv, TypeOK
<1>2. ScanInv' /\ FirstApplication' /\ LengthInv' /\ WholeInv' /\ OrderInv'
  BY DEF UInv, ScanInv, FirstApplication, LengthInv, WholeInv, OrderInv
<1>3. CountInv' /\ ToldInv' /\ FilesClosed'
  BY DEF UInv, CountInv, ToldInv, FilesClosed, Uploading
<1> QED
  BY <1>1, <1>2, <1>3 DEF UInv

LEMMA StepUInv == UInv /\ [Step]_vars => UInv'
BY MatchUInv, SkipUInv, ReadInfoUInv, OpenUInv, FillUInv, WriteUInv, EndUInv,
   ReportBufferUInv, StutterUInv DEF Step

\* The inductive invariant holds in every reachable state.
THEOREM UploadInvariant == Spec => []UInv
BY InitUInv, StepUInv, PTL DEF Spec

\* Every variable keeps its type; total in particular is bounded.
THEOREM UploadTypes == Spec => []TypeOK
<1>1. UInv => TypeOK
  BY DEF UInv
<1> QED
  BY <1>1, UploadInvariant, PTL

\* No application stands before the one whose path was taken.
THEOREM FirstApplicationTaken == Spec => []FirstApplication
<1>1. UInv => FirstApplication
  BY DEF UInv
<1> QED
  BY <1>1, UploadInvariant, PTL

\* What is installed is as long as the package, unless it could not be read.
THEOREM InstalledLength == Spec => []SameLength
<1>1. UInv => SameLength
  BY TypeFacts DEF UInv, LengthInv, SameLength
<1> QED
  BY <1>1, UploadInvariant, PTL

\* "All sent" is only told when the phone has stored as much, or more.
THEOREM AllSentMeansStored == Spec => []AllSentIsTrue
<1>1. UInv => AllSentIsTrue
  BY DEF UInv, ToldInv, AllSentIsTrue
<1> QED
  BY <1>1, UploadInvariant, PTL

\* The last report of a whole upload is the whole size, in the counters' width.
THEOREM EndIsReported == Spec => []EndIsTold
<1>1. UInv => EndIsTold
  BY DEF UInv, LengthInv, CountInv, EndIsTold
<1> QED
  BY <1>1, UploadInvariant, PTL

\* However the upload ends, its files are closed.
THEOREM FilesAreClosed == Spec => []FilesClosed
<1>1. UInv => FilesClosed
  BY DEF UInv
<1> QED
  BY <1>1, UploadInvariant, PTL

\* While the counters do not overflow, reported counts never go down.
THEOREM ProgressNeverFalls == Spec => ProgressGrows
<1>1. UInv /\ UInv' /\ [Step]_vars =>
         [size < Width /\ told # << >> => told'[1] >= told[1]]_vars
  <2> SUFFICES ASSUME UInv, UInv', Step, size < Width, told # << >>
               PROVE  told'[1] >= told[1]
    OBVIOUS
  <2>1. told[1] \in Nat /\ told[1] <= sendCount
    BY ToldFacts DEF UInv, ToldInv
  <2>2. CASE ReportBuffer
    <3>1. /\ told' = told \/ told' = <<sendCount', size % Width>>
          /\ pc = "write" /\ sendCount' = (sendCount + amount) % Width
      BY <2>2 DEF ReportBuffer, CountAfter, Tell
    <3>2. sendCount = position - amount /\ sendCount' = position /\ amount \in Nat
          /\ position \in Nat /\ amount <= position
      <4>1. /\ position \in Nat /\ amount \in Nat /\ amount <= position
            /\ position <= size /\ size \in Nat /\ position - amount \in Nat
        BY TypeFacts DEF UInv
      <4>2. sendCount = (position - amount) % Width
        BY <3>1 DEF UInv, CountInv
      <4>3. sendCount = position - amount
        BY <4>1, <4>2, NoOverflow, SizesAssumption
      <4> QED
        BY <3>1, <4>1, <4>3, NoOverflow, SizesAssumption
    <3> QED
      BY <2>1, <3>1, <3>2
  <2>3. CASE UNCHANGED told
    BY <2>1, <2>3
  <2>4. ReportBuffer \/ UNCHANGED told
    BY DEF Step, Match, Skip, ReadInfo, OpenFails, OpenFiles, Fill, Write, WriteSome,
           WriteFails, Close, reportVars
  <2> QED
    BY <2>2, <2>3, <2>4
<1> QED
  BY <1>1, UploadInvariant, PTL DEF Spec, ProgressGrows
=============================================================================
