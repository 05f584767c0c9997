------------------------ MODULE DownloadReaderProofs ------------------------
(***************************************************************************)
(* Proofs about DownloadReader: files of any number of blocks of any       *)
(* sizes, any offset, any lengths of the Reads, any number of changes made *)
(* by others and of blocks that do not arrive intact.                      *)
(***************************************************************************)
EXTENDS DownloadReader, SequenceTheorems, WellFoundedInduction, TLAPS

\* A reader exists: DownloadFile is seeking with it, or the caller has it.
Reading == pc \in {"skip", "open", "read", "fetch"}

\* How many bytes of the file are behind the reader
Place == IF seeking THEN asked - skip ELSE pos

\* Before the reader is made there is nothing of it.
FreshOK ==
    pc \in {"idle", "list", "blocks", "attrs"} =>
        /\ ~seeking /\ ~corrupt /\ ~closed /\ nextRevision = 0 /\ data = <<>> /\ fetched = {}
        /\ pos = 0 /\ chunk = <<>> /\ ~eof
        /\ pc \in {"blocks", "attrs"} => revision \in Revisions

\* The Read in progress
ReadOK ==
    Reading =>
        /\ revision \in Revisions /\ attrs = revision
        /\ seeking => ~corrupt
        /\ pc = "skip" => seeking
        /\ pc = "open" => ~seeking
        /\ pc \in {"read", "fetch"} => want > 0
        /\ nextRevision \in 0..NumBlocks(revision)
        /\ pc = "fetch" => from <= i /\ i = nextRevision

\* The buffer holds the bytes from the place of the reader to the end of the
\* last block fetched.
BufferOK ==
    Reading /\ ~corrupt =>
        /\ Place \in 0..Start(revision, nextRevision)
        /\ data = Bytes(revision, Place + 1, Start(revision, nextRevision))
        /\ pc = "fetch" => data # <<>> \/ (from = i /\ i < NumBlocks(revision))

SizesKnown == XAttr[revision] = "sizes" /\ asked <= FileSize[revision]

\* The blocks fetched, and those still to come, end at the offset or after it.
SeekOK ==
    Reading /\ SizesKnown =>
        /\ \A b \in fetched : asked <= Ends[revision][b]
        /\ \A b \in 1..NumBlocks(revision) : b > nextRevision => asked <= Ends[revision][b]

IInv == TypeOK /\ FreshOK /\ ReadOK /\ BufferOK /\ SeekOK

-----------------------------------------------------------------------------
(* Induction: a set of naturals has a least element. *)

Below == {p \in Nat \X Nat : p[1] < p[2]}

LEMMA BelowWellFounded == IsWellFoundedOn(Below, Nat)
BY NatLessThanWellFounded, Zenon DEF Below, OpToRel

LEMMA LeastElement ==
    ASSUME NEW T, T \subseteq Nat, T # {}
    PROVE  \E m \in T : \A k \in T : m <= k
<1>1. PICK m \in T : \A k \in T : <<k, m>> \notin Below
  BY BelowWellFounded, WFMin
<1>2. ASSUME NEW k \in T PROVE m <= k
  <2>1. k \in Nat /\ m \in Nat
    OBVIOUS
  <2>2. ~(k < m)
    BY <1>1, <2>1 DEF Below
  <2> QED BY <2>1, <2>2
<1> QED BY <1>2

-----------------------------------------------------------------------------
(* The blocks of a revision *)

LEMMA BlockEnds ==
    ASSUME NEW r \in Revisions
    PROVE  /\ NumBlocks(r) \in Nat
           /\ \A b \in 1..NumBlocks(r) : Ends[r][b] \in Nat
<1>1. Ends[r] \in Seq(Nat)
  BY RevisionsAssumption
<1> QED BY <1>1, LenProperties, ElementOfSeq DEF NumBlocks

LEMMA StartNat ==
    ASSUME NEW r \in Revisions, NEW b \in 0..NumBlocks(r) PROVE Start(r, b) \in Nat
BY BlockEnds DEF Start

LEMMA StartGrows ==
    ASSUME NEW r \in Revisions, NEW b \in 0..(NumBlocks(r) - 1)
    PROVE  Start(r, b) < Start(r, b + 1) /\ Start(r, b + 1) = Ends[r][b + 1]
<1>1. b + 1 \in 1..NumBlocks(r) /\ (b + 1) - 1 = b /\ b + 1 # 0
  BY BlockEnds
<1>2. Start(r, (b + 1) - 1) < Ends[r][b + 1]
  BY <1>1, RevisionsAssumption
<1> QED BY <1>1, <1>2 DEF Start

\* A later block starts no earlier.
LEMMA StartMonotone ==
    ASSUME NEW r \in Revisions, NEW b \in 0..NumBlocks(r), NEW c \in 0..NumBlocks(r), b <= c
    PROVE  Start(r, b) <= Start(r, c)
<1> DEFINE Bad == {n \in Nat : b + n <= NumBlocks(r) /\ ~(Start(r, b) <= Start(r, b + n))}
<1>1. SUFFICES ASSUME Bad # {} PROVE FALSE
  <2>1. c - b \in Nat /\ b + (c - b) = c /\ c <= NumBlocks(r)
    BY BlockEnds
  <2>2. c - b \notin Bad
    BY <1>1
  <2> QED BY <2>1, <2>2
<1>2. PICK m \in Bad : \A k \in Bad : m <= k
  BY <1>1, LeastElement
<1>3. m \in Nat /\ b + m <= NumBlocks(r) /\ ~(Start(r, b) <= Start(r, b + m))
  OBVIOUS
<1>4. m # 0
  <2>1. Start(r, b) <= Start(r, b)
    BY StartNat
  <2> QED BY <2>1, <1>3
<1> DEFINE d == b + (m - 1)
<1>5. m - 1 \in Nat /\ d \in 0..(NumBlocks(r) - 1) /\ d + 1 = b + m /\ d \in 0..NumBlocks(r)
  BY <1>3, <1>4, BlockEnds
<1>6. Start(r, b) <= Start(r, d)
  <2>1. m - 1 \notin Bad
    BY <1>2, <1>3
  <2>2. d <= NumBlocks(r)
    BY <1>5, BlockEnds
  <2> QED BY <2>1, <2>2, <1>5
<1>7. Start(r, d) < Start(r, b + m)
  BY <1>5, StartGrows
<1>8. Start(r, b) \in Nat /\ Start(r, d) \in Nat /\ Start(r, b + m) \in Nat
  <2>1. b + m \in 0..NumBlocks(r)
    BY <1>3, BlockEnds
  <2> QED BY <2>1, <1>5, StartNat
<1> HIDE DEF d, Bad
<1> QED BY <1>3, <1>6, <1>7, <1>8

LEMMA SizeIsEnd ==
    ASSUME NEW r \in Revisions
    PROVE  /\ FileSize[r] = Start(r, NumBlocks(r)) /\ FileSize[r] \in Nat
           /\ \A b \in 0..NumBlocks(r) : Start(r, b) <= FileSize[r]
<1>1. FileSize[r] = Start(r, NumBlocks(r))
  BY DEF FileSize
<1>2. NumBlocks(r) \in 0..NumBlocks(r)
  BY BlockEnds
<1>3. ASSUME NEW b \in 0..NumBlocks(r) PROVE Start(r, b) <= Start(r, NumBlocks(r))
  BY <1>2, StartMonotone, BlockEnds
<1> QED BY <1>1, <1>2, <1>3, StartNat

\* What the loop over BlockSizes finds: the block exists, all before it end
\* before the offset, and none after it does.
LEMMA BlockFound ==
    ASSUME NEW r \in Revisions, NEW offset \in Int,
           offset <= FileSize[r], NumBlocks(r) > 0
    PROVE  /\ BlockOf(r, offset) \in 0..(NumBlocks(r) - 1)
           /\ \A b \in 1..NumBlocks(r) : b > BlockOf(r, offset) => offset <= Ends[r][b]
<1> DEFINE N == NumBlocks(r)
           T == {b \in 0..(N - 1) : offset <= Ends[r][b + 1]}
           IsBlock(b) == /\ offset <= Ends[r][b + 1]
                         /\ \A k \in 0..(b - 1) : Ends[r][k + 1] < offset
<1>1. N \in Nat /\ N > 0
  BY BlockEnds
<1>2. N - 1 \in T
  BY <1>1, SizeIsEnd DEF Start
<1>3. T \subseteq Nat
  BY <1>1
<1>4. PICK m \in T : \A k \in T : m <= k
  BY <1>2, <1>3, LeastElement
<1>5. m \in 0..(N - 1) /\ offset <= Ends[r][m + 1]
  OBVIOUS
<1>6. ASSUME NEW k \in 0..(m - 1) PROVE Ends[r][k + 1] < offset
  <2>1. k \in 0..(N - 1) /\ k + 1 \in 1..NumBlocks(r) /\ ~(m <= k)
    BY <1>1, <1>5
  <2>2. k \notin T
    BY <2>1, <1>4
  <2>3. ~(offset <= Ends[r][k + 1]) /\ Ends[r][k + 1] \in Nat
    BY <2>1, <2>2, BlockEnds
  <2> QED BY <2>3
<1>7. IsBlock(m)
  BY <1>5, <1>6
<1>8. BlockOf(r, offset) = CHOOSE b \in 0..(N - 1) : IsBlock(b)
  BY DEF BlockOf
<1> DEFINE B == BlockOf(r, offset)
<1>9. B \in 0..(N - 1) /\ offset <= Ends[r][B + 1]
  <2> HIDE DEF IsBlock, B
  <2>1. B \in 0..(N - 1) /\ IsBlock(B)
    BY <1>5, <1>7, <1>8, Zenon DEF B
  <2> QED BY <2>1 DEF IsBlock
<1>10. ASSUME NEW b \in 1..N, b > B PROVE offset <= Ends[r][b]
  <2>1. B + 1 \in 1..N /\ B + 1 \in 0..N /\ b \in 0..N /\ B + 1 <= b /\ B + 1 # 0 /\ b # 0
    BY <1>1, <1>9, <1>10
  <2>2. Start(r, B + 1) = Ends[r][B + 1] /\ Start(r, b) = Ends[r][b]
    BY <2>1 DEF Start
  <2>3. Start(r, B + 1) <= Start(r, b)
    BY <2>1, StartMonotone
  <2>4. Ends[r][B + 1] \in Nat /\ Ends[r][b] \in Nat
    BY <2>1, BlockEnds
  <2> HIDE DEF B
  <2> QED BY <1>9, <2>2, <2>3, <2>4
<1> QED BY <1>9, <1>10

-----------------------------------------------------------------------------
(* The bytes between two positions *)

LEMMA BytesParts ==
    ASSUME NEW r \in Revisions, NEW p \in Nat, NEW q \in Nat, p <= q
    PROVE  /\ Bytes(r, p + 1, q) \in Seq(Revisions \X Nat)
           /\ Len(Bytes(r, p + 1, q)) = q - p
           /\ \A k \in 1..(q - p) : Bytes(r, p + 1, q)[k] = <<r, p + k>>
<1> DEFINE s == [k \in 1..(q - p) |-> <<r, p + k>>]
<1>1. Bytes(r, p + 1, q) = s
  <2>1. q - (p + 1) + 1 = q - p
    OBVIOUS
  <2>2. \A k \in 1..(q - p) : (p + 1) + k - 1 = p + k
    OBVIOUS
  <2> QED BY <2>1, <2>2 DEF Bytes
<1>2. q - p \in Nat /\ s \in [1..(q - p) -> Revisions \X Nat]
  OBVIOUS
<1>3. s \in Seq(Revisions \X Nat)
  <2> HIDE DEF s
  <2> QED BY <1>2, SeqDef
<1>4. Len(s) = q - p
  <2>1. DOMAIN s = 1..(q - p)
    OBVIOUS
  <2> HIDE DEF s
  <2> QED BY <1>2, <1>3, <2>1, LenProperties
<1>5. \A k \in 1..(q - p) : s[k] = <<r, p + k>>
  OBVIOUS
<1> HIDE DEF s
<1> QED BY <1>1, <1>3, <1>4, <1>5

LEMMA NoBytes ==
    ASSUME NEW r \in Revisions, NEW p \in Nat PROVE Bytes(r, p + 1, p) = <<>>
<1>1. Bytes(r, p + 1, p) \in Seq(Revisions \X Nat) /\ Len(Bytes(r, p + 1, p)) = 0
  BY BytesParts
<1> QED BY <1>1, EmptySeq

LEMMA BytesJoin ==
    ASSUME NEW r \in Revisions, NEW p \in Nat, NEW q \in Nat, NEW e \in Nat, p <= q, q <= e
    PROVE  Bytes(r, p + 1, q) \o Bytes(r, q + 1, e) = Bytes(r, p + 1, e)
<1> DEFINE S == Revisions \X Nat
           s == Bytes(r, p + 1, q)
           t == Bytes(r, q + 1, e)
           u == Bytes(r, p + 1, e)
<1>1. /\ s \in Seq(S) /\ Len(s) = q - p /\ \A k \in 1..(q - p) : s[k] = <<r, p + k>>
      /\ t \in Seq(S) /\ Len(t) = e - q /\ \A k \in 1..(e - q) : t[k] = <<r, q + k>>
      /\ u \in Seq(S) /\ Len(u) = e - p /\ \A k \in 1..(e - p) : u[k] = <<r, p + k>>
  <2>1. p <= e
    OBVIOUS
  <2> QED BY <2>1, BytesParts
<1> HIDE DEF s, t, u, S
<1>2. s \o t \in Seq(S) /\ Len(s \o t) = e - p
  <2>1. s \o t \in Seq(S) /\ Len(s \o t) = Len(s) + Len(t)
    BY <1>1, ConcatProperties
  <2>2. (q - p) + (e - q) = e - p
    OBVIOUS
  <2> QED BY <1>1, <2>1, <2>2
<1>3. ASSUME NEW k \in 1..(e - p) PROVE (s \o t)[k] = u[k]
  <2>1. (s \o t)[k] = IF k <= Len(s) THEN s[k] ELSE t[k - Len(s)]
    <3>1. k \in 1..(Len(s) + Len(t))
      BY <1>1
    <3> QED BY <1>1, <3>1, ConcatProperties
  <2>2. CASE k <= q - p
    <3>1. k \in 1..(q - p)
      BY <2>2
    <3>2. (s \o t)[k] = s[k] /\ s[k] = <<r, p + k>>
      BY <1>1, <2>1, <2>2, <3>1
    <3> QED BY <1>1, <3>2
  <2>3. CASE ~(k <= q - p)
    <3>1. k - (q - p) \in 1..(e - q) /\ q + (k - (q - p)) = p + k
      BY <2>3
    <3>2. (s \o t)[k] = t[k - (q - p)] /\ t[k - (q - p)] = <<r, q + (k - (q - p))>>
      BY <1>1, <2>1, <2>3, <3>1
    <3>3. u[k] = <<r, p + k>>
      BY <1>1
    <3> QED BY <3>1, <3>2, <3>3
  <2> QED BY <2>2, <2>3
<1>4. s \o t = u
  BY <1>1, <1>2, <1>3, SeqEqual
<1> QED BY <1>4 DEF s, t, u

\* Taking the first n of the bytes leaves the others.
LEMMA BytesSplit ==
    ASSUME NEW r \in Revisions, NEW p \in Nat, NEW q \in Nat, p <= q, NEW n \in 0..(q - p)
    PROVE  /\ SubSeq(Bytes(r, p + 1, q), 1, n) = Bytes(r, p + 1, p + n)
           /\ SubSeq(Bytes(r, p + 1, q), n + 1, q - p) = Bytes(r, (p + n) + 1, q)
<1> DEFINE S == Revisions \X Nat
           s == Bytes(r, p + 1, q)
           t == Bytes(r, p + 1, p + n)
           u == Bytes(r, (p + n) + 1, q)
<1>1. /\ s \in Seq(S) /\ Len(s) = q - p /\ \A k \in 1..(q - p) : s[k] = <<r, p + k>>
      /\ t \in Seq(S) /\ Len(t) = n /\ \A k \in 1..n : t[k] = <<r, p + k>>
      /\ u \in Seq(S) /\ Len(u) = q - (p + n)
      /\ \A k \in 1..(q - (p + n)) : u[k] = <<r, (p + n) + k>>
  <2>1. p + n \in Nat /\ p <= p + n /\ p + n <= q /\ (p + n) - p = n
    OBVIOUS
  <2> QED BY <2>1, BytesParts
<1>2. \A k \in 1..Len(s) : s[k] \in S
  BY <1>1, ElementOfSeq
<1> HIDE DEF s, t, u, S
<1>3. /\ SubSeq(s, 1, n) \in Seq(S) /\ Len(SubSeq(s, 1, n)) = n
      /\ \A k \in 1..n : SubSeq(s, 1, n)[k] = s[k]
  <2>1. \A k \in 1..n : s[k] \in S
    BY <1>1, <1>2
  <2> QED BY <2>1, SubSeqProperties
<1>4. SubSeq(s, 1, n) = t
  <2>1. ASSUME NEW k \in 1..n PROVE SubSeq(s, 1, n)[k] = t[k]
    <3>1. k \in 1..(q - p)
      OBVIOUS
    <3>2. SubSeq(s, 1, n)[k] = s[k] /\ s[k] = <<r, p + k>> /\ t[k] = <<r, p + k>>
      BY <1>1, <1>3, <3>1
    <3> QED BY <3>2
  <2> QED BY <2>1, <1>1, <1>3, SeqEqual
<1>5. /\ SubSeq(s, n + 1, q - p) \in Seq(S) /\ Len(SubSeq(s, n + 1, q - p)) = q - (p + n)
      /\ \A k \in 1..(q - (p + n)) : SubSeq(s, n + 1, q - p)[k] = s[n + k]
  <2>1. \A k \in (n + 1)..(q - p) : s[k] \in S
    BY <1>1, <1>2
  <2>2. (q - p) - (n + 1) + 1 = q - (p + n) /\ n + 1 \in Int /\ q - p \in Int
    OBVIOUS
  <2>3. /\ SubSeq(s, n + 1, q - p) \in Seq(S)
        /\ Len(SubSeq(s, n + 1, q - p))
             = IF n + 1 <= q - p THEN (q - p) - (n + 1) + 1 ELSE 0
        /\ \A k \in 1..((q - p) - (n + 1) + 1) :
             SubSeq(s, n + 1, q - p)[k] = s[(n + 1) + k - 1]
    BY <2>1, <2>2, SubSeqProperties
  <2>4. \A k \in 1..(q - (p + n)) : (n + 1) + k - 1 = n + k
    OBVIOUS
  <2> QED BY <2>2, <2>3, <2>4
<1>6. SubSeq(s, n + 1, q - p) = u
  <2>1. ASSUME NEW k \in 1..(q - (p + n)) PROVE SubSeq(s, n + 1, q - p)[k] = u[k]
    <3>1. n + k \in 1..(q - p) /\ p + (n + k) = (p + n) + k
      OBVIOUS
    <3> QED BY <1>1, <1>5, <3>1
  <2> QED BY <2>1, <1>1, <1>5, SeqEqual
<1> QED BY <1>4, <1>6 DEF s, t, u

LEMMA BlockIsBytes ==
    ASSUME NEW r \in Revisions, NEW b \in 0..(NumBlocks(r) - 1)
    PROVE  BlockBytes(r, b + 1) = Bytes(r, Start(r, b) + 1, Start(r, b + 1))
<1>1. (b + 1) - 1 = b
  OBVIOUS
<1> QED BY <1>1, StartGrows DEF BlockBytes

-----------------------------------------------------------------------------
(* The invariant is inductive. *)

\* The state of the server, of which the reader keeps no copy
ServerTypeOK ==
    /\ active \in Revisions \cup {NoRevision} /\ kept \subseteq Revisions
    /\ changes \in 0..MaxChanges /\ faults \in 0..MaxFaults

LEMMA InitIInv == Init => IInv
<1> SUFFICES ASSUME Init PROVE IInv
  OBVIOUS
<1>1. TypeOK
  <2> DEFINE none == <<>>
  <2>1. none \in Seq(Revisions \X Nat)
    BY EmptySeq
  <2>2. data = none /\ chunk = none
    BY DEF Init
  <2> HIDE DEF none
  <2>3. data \in Seq(Revisions \X Nat) /\ chunk \in Seq(Revisions \X Nat)
    BY <2>1, <2>2
  <2>4. active \in Revisions \cup {NoRevision} /\ kept \subseteq Revisions
    BY DEF Init
  <2>5. changes \in 0..MaxChanges /\ faults \in 0..MaxFaults
    BY CallsAssumption DEF Init
  <2>6. /\ pc = "idle" /\ ~seeking /\ ~closed /\ ~corrupt /\ ~eof
        /\ {seeking, closed, corrupt, eof} \subseteq BOOLEAN
    BY DEF Init
  <2>7. /\ {asked, skip, want, pos, nextRevision, from, i} \subseteq Nat /\ fetched \subseteq Nat
        /\ {revision, attrs} \subseteq {NoRevision}
    BY DEF Init
  <2> QED BY <2>3, <2>4, <2>5, <2>6, <2>7 DEF TypeOK
<1> QED BY <1>1 DEF Init, IInv, FreshOK, ReadOK, BufferOK, SeekOK, Reading

\* Where no reader is left, nothing but the types is to be shown.
LEMMA ResetIInv == ASSUME Reset, ServerTypeOK' PROVE IInv'
<1>1. TypeOK'
  <2> DEFINE none == <<>>
  <2>1. none \in Seq(Revisions \X Nat)
    BY EmptySeq
  <2>2. data' = none /\ chunk' = none
    BY DEF Reset
  <2> HIDE DEF none
  <2>3. data' \in Seq(Revisions \X Nat) /\ chunk' \in Seq(Revisions \X Nat)
    BY <2>1, <2>2
  <2>4. pc' = "idle" /\ {seeking', closed', corrupt', eof'} \subseteq BOOLEAN
    BY DEF Reset
  <2>5. /\ {asked', skip', want', pos', nextRevision', from', i'} \subseteq Nat
        /\ fetched' \subseteq Nat /\ {revision', attrs'} \subseteq {NoRevision}
    BY DEF Reset
  <2> QED BY <2>3, <2>4, <2>5 DEF TypeOK, ServerTypeOK
<1> QED BY <1>1 DEF Reset, IInv, FreshOK, ReadOK, BufferOK, SeekOK, Reading

LEMMA PanicIInv ==
    ASSUME IInv, pc' = "panicked",
           UNCHANGED <<serverVars, seeking, openVars, skip, readerVars, want, closed, faults,
                       callerVars>>
    PROVE  IInv'
<1> USE DEF IInv, serverVars, openVars, readerVars, callerVars
<1>1. TypeOK'
  BY DEF TypeOK
<1> QED BY <1>1 DEF FreshOK, ReadOK, BufferOK, SeekOK, Reading

LEMMA OthersIInv == ASSUME IInv, Others PROVE IInv'
<1> USE DEF IInv
<1>1. ServerTypeOK' /\ UNCHANGED <<pc, seeking, openVars, skip, readerVars, want, closed, faults,
                                   callerVars>>
  <2>1. CASE \E r \in Revisions : CommitRevision(r)
    BY <2>1, CallsAssumption DEF CommitRevision, TypeOK, ServerTypeOK
  <2>2. CASE \E r \in Revisions : DeleteRevision(r)
    BY <2>2, CallsAssumption DEF DeleteRevision, TypeOK, ServerTypeOK
  <2>3. CASE DeleteFile
    BY <2>3, CallsAssumption DEF DeleteFile, TypeOK, ServerTypeOK
  <2> QED BY <2>1, <2>2, <2>3 DEF Others
<1> USE <1>1 DEF openVars, readerVars, callerVars
<1>2. TypeOK'
  BY DEF TypeOK, ServerTypeOK
<1>3. FreshOK'
  BY DEF FreshOK
<1>4. ReadOK'
  BY DEF ReadOK, Reading
<1>5. BufferOK'
  BY DEF BufferOK, Reading, Place
<1>6. SeekOK'
  BY DEF SeekOK, Reading, SizesKnown
<1> QED BY <1>2, <1>3, <1>4, <1>5, <1>6

\* The steps before the reader is made
LEMMA OpeningIInv ==
    ASSUME IInv, (\E o \in Offsets : Call(o)) \/ GetRevisions \/ GetRevisionAllBlocks
    PROVE  IInv'
<1> USE DEF IInv, serverVars, openVars, readerVars, callerVars
<1>1. CASE \E o \in Offsets : Call(o)
  <2>1. TypeOK'
    BY <1>1, CallsAssumption DEF Call, TypeOK
  <2>2. FreshOK'
    BY <1>1 DEF Call, FreshOK
  <2> QED BY <1>1, <2>1, <2>2 DEF Call, ReadOK, BufferOK, SeekOK, Reading
<1>2. CASE GetRevisions
  <2>1. TypeOK'
    BY <1>2 DEF GetRevisions, TypeOK
  <2>2. FreshOK'
    BY <1>2 DEF GetRevisions, FreshOK
  <2> QED BY <1>2, <2>1, <2>2 DEF GetRevisions, ReadOK, BufferOK, SeekOK, Reading
<1>3. CASE GetRevisionAllBlocks
  <2>1. TypeOK'
    BY <1>3 DEF GetRevisionAllBlocks, TypeOK
  <2>2. FreshOK'
    BY <1>3 DEF GetRevisionAllBlocks, FreshOK
  <2> QED BY <1>3, <2>1, <2>2 DEF GetRevisionAllBlocks, ReadOK, BufferOK, SeekOK, Reading
<1> QED BY <1>1, <1>2, <1>3

\* The reader starts at a block boundary, with the bytes to the offset to skip.
LEMMA AttrsPlace ==
    ASSUME IInv, GetAttrs
    PROVE  /\ nextRevision' \in 0..NumBlocks(revision) /\ skip' \in Int
           /\ asked - skip' = Start(revision, nextRevision')
           /\ SizesKnown =>
                \A b \in 1..NumBlocks(revision) : b > nextRevision' => asked <= Ends[revision][b]
<1>1. revision \in Revisions /\ asked \in Int /\ nextRevision = 0
  BY DEF IInv, GetAttrs, FreshOK, TypeOK
<1>2. CASE SizesKnown /\ NumBlocks(revision) > 0
  <2> DEFINE B == BlockOf(revision, asked)
  <2>1. nextRevision' = B /\ skip' = asked - Start(revision, B)
    BY <1>2 DEF GetAttrs, SeekBySizes, SizesKnown
  <2>2. /\ B \in 0..(NumBlocks(revision) - 1)
        /\ \A b \in 1..NumBlocks(revision) : b > B => asked <= Ends[revision][b]
    BY <1>1, <1>2, BlockFound DEF SizesKnown
  <2>3. NumBlocks(revision) \in Nat
    BY <1>1, BlockEnds
  <2>4. B \in 0..NumBlocks(revision)
    BY <2>2, <2>3
  <2>5. Start(revision, B) \in Nat
    BY <1>1, <2>4, StartNat
  <2> HIDE DEF B
  <2> QED BY <1>1, <2>1, <2>2, <2>4, <2>5
<1>3. CASE ~(SizesKnown /\ NumBlocks(revision) > 0)
  <2>1. skip' = asked /\ nextRevision' = nextRevision
    BY <1>3 DEF GetAttrs, SeekBySizes, SizesKnown
  <2>2. NumBlocks(revision) \in Nat /\ Start(revision, 0) = 0
    BY <1>1, BlockEnds DEF Start
  <2>3. SizesKnown => 1..NumBlocks(revision) = {}
    BY <1>3, <2>2
  <2> QED BY <1>1, <2>1, <2>2, <2>3
<1> QED BY <1>2, <1>3

LEMMA AttrsIInv == ASSUME IInv, GetAttrs PROVE IInv'
<1> USE DEF IInv, serverVars, openVars, readerVars, callerVars
<1>1. /\ pc = "attrs" /\ revision \in Revisions /\ ~corrupt /\ data = <<>> /\ fetched = {}
      /\ pc' = "skip" /\ seeking' = TRUE /\ attrs' = revision /\ revision' = revision
      /\ asked' = asked /\ corrupt' = corrupt /\ data' = data /\ fetched' = fetched
  BY DEF GetAttrs, FreshOK
<1>2. /\ nextRevision' \in 0..NumBlocks(revision) /\ skip' \in Int
      /\ asked - skip' = Start(revision, nextRevision')
      /\ SizesKnown =>
           \A b \in 1..NumBlocks(revision) : b > nextRevision' => asked <= Ends[revision][b]
  BY AttrsPlace
<1>3. NumBlocks(revision) \in Nat /\ Start(revision, nextRevision') \in Nat
  BY <1>1, <1>2, BlockEnds, StartNat
<1>4. TypeOK'
  BY <1>1, <1>2, <1>3 DEF GetAttrs, TypeOK
<1>5. FreshOK'
  BY <1>1 DEF FreshOK
<1>6. ReadOK'
  BY <1>1, <1>2 DEF ReadOK, Reading
<1>7. BufferOK'
  <2>1. Bytes(revision, Start(revision, nextRevision') + 1, Start(revision, nextRevision')) = <<>>
    BY <1>1, <1>3, NoBytes
  <2>2. Place' = Start(revision, nextRevision')
    BY <1>1, <1>2 DEF Place
  <2> QED BY <1>1, <1>3, <2>1, <2>2 DEF BufferOK
<1>8. SeekOK'
  BY <1>1, <1>2 DEF SeekOK, SizesKnown
<1> QED BY <1>4, <1>5, <1>6, <1>7, <1>8

\* io.CopyN reads again, or is done: then the place is the offset asked for.
LEMMA SkipIInv == ASSUME IInv, Skip \/ Skipped PROVE IInv'
<1> USE DEF IInv, serverVars, openVars, readerVars, callerVars
<1>1. CASE Skip
  <2>1. pc = "skip" /\ pc' = "read" /\ want' \in Nat /\ want' > 0
    BY <1>1, CallsAssumption DEF Skip, TypeOK
  <2>2. UNCHANGED <<seeking, openVars, skip, readerVars, closed, callerVars>>
    BY <1>1 DEF Skip
  <2>3. TypeOK'
    BY <1>1, <2>1 DEF Skip, TypeOK
  <2>4. ReadOK'
    BY <2>1, <2>2 DEF ReadOK, Reading
  <2>5. BufferOK'
    BY <2>1, <2>2 DEF BufferOK, Reading, Place
  <2> QED BY <2>1, <2>2, <2>3, <2>4, <2>5 DEF FreshOK, SeekOK, Reading, SizesKnown
<1>2. CASE Skipped
  <2>1. /\ pc = "skip" /\ pc' = "open" /\ seeking' = FALSE /\ pos' = asked /\ skip = 0
        /\ UNCHANGED <<openVars, skip, readerVars, closed, want, chunk, eof>>
    BY <1>2 DEF Skipped
  <2>2. revision \in Revisions /\ nextRevision \in 0..NumBlocks(revision) /\ seeking /\ ~corrupt
    BY <2>1 DEF ReadOK, Reading
  <2>3. asked \in Int /\ Start(revision, nextRevision) \in Nat
    BY <2>2, StartNat DEF TypeOK
  <2>4. Place = asked /\ Place' = asked
    BY <2>1, <2>2, <2>3 DEF Place
  <2>5. asked \in 0..Start(revision, nextRevision)
    BY <2>1, <2>2, <2>4 DEF BufferOK, Reading
  <2>6. pos' \in Nat
    BY <2>1, <2>3, <2>5
  <2>7. TypeOK'
    BY <1>2, <2>1, <2>6 DEF Skipped, TypeOK
  <2>8. ReadOK'
    BY <2>1 DEF ReadOK, Reading
  <2>9. BufferOK'
    BY <2>1, <2>2, <2>4 DEF BufferOK, Reading
  <2> QED BY <2>1, <2>7, <2>8, <2>9 DEF FreshOK, SeekOK, Reading, SizesKnown
<1> QED BY <1>1, <1>2

\* The caller reads, or closes the reader.
LEMMA CallerIInv == ASSUME IInv, (\E n \in ReadSizes : Read(n)) \/ Close PROVE IInv'
<1> USE DEF IInv, serverVars, openVars, readerVars, callerVars
<1>1. CASE \E n \in ReadSizes : Read(n)
  <2>1. /\ pc = "open" /\ pc' = "read" /\ want' \in Nat /\ want' > 0
        /\ UNCHANGED <<seeking, openVars, skip, readerVars, closed, callerVars>>
    BY <1>1, CallsAssumption DEF Read
  <2>2. TypeOK'
    BY <1>1, <2>1 DEF Read, TypeOK
  <2>3. ReadOK'
    BY <2>1 DEF ReadOK, Reading
  <2>4. BufferOK'
    BY <2>1 DEF BufferOK, Reading, Place
  <2> QED BY <2>1, <2>2, <2>3, <2>4 DEF FreshOK, SeekOK, Reading, SizesKnown
<1>2. CASE Close
  <2>1. pc = "open" /\ UNCHANGED <<pc, seeking, openVars, skip, readerVars, want, callerVars>>
    BY <1>2 DEF Close
  <2>2. TypeOK'
    BY <1>2 DEF Close, TypeOK
  <2>3. ReadOK'
    BY <2>1 DEF ReadOK, Reading
  <2>4. BufferOK'
    BY <2>1 DEF BufferOK, Reading, Place
  <2> QED BY <2>1, <2>2, <2>3, <2>4 DEF FreshOK, SeekOK, Reading, SizesKnown
<1> QED BY <1>1, <1>2

-----------------------------------------------------------------------------
(* The buffer *)

\* What a Read takes from a buffer that is right is what comes next in the file,
\* and the buffer stays right.
LEMMA ServeTakes ==
    ASSUME IInv, pc \in {"read", "fetch"}, ~corrupt, data # <<>>, Serve
    PROVE  \E n \in 1..(Start(revision, nextRevision) - Place) :
             /\ data' = Bytes(revision, (Place + n) + 1, Start(revision, nextRevision))
             /\ seeking => skip' = skip - n
             /\ ~seeking => pos' = pos + n /\ chunk' = Bytes(revision, pos + 1, pos + n)
<1> DEFINE p == Place
           q == Start(revision, nextRevision)
           n == IF Len(data) < want THEN Len(data) ELSE want
<1>1. /\ revision \in Revisions /\ nextRevision \in 0..NumBlocks(revision)
      /\ want \in Nat /\ want > 0
  BY DEF IInv, ReadOK, Reading, TypeOK
<1>2. q \in Nat /\ p \in 0..q /\ data = Bytes(revision, p + 1, q)
  BY <1>1, StartNat DEF IInv, BufferOK, Reading
<1> HIDE DEF p, q
<1>3. Len(data) = q - p /\ Len(data) \in Nat \ {0}
  <2>1. Len(data) = q - p /\ data \in Seq(Revisions \X Nat)
    BY <1>1, <1>2, BytesParts
  <2> QED BY <2>1, EmptySeq
<1>4. n \in 1..(q - p) /\ n \in 0..(q - p)
  BY <1>1, <1>2, <1>3
<1>5. /\ data' = SubSeq(data, n + 1, Len(data))
      /\ seeking => skip' = skip - n
      /\ ~seeking => pos' = pos + n /\ chunk' = SubSeq(data, 1, n)
  BY DEF Serve
<1> HIDE DEF n
<1>6. /\ SubSeq(data, 1, n) = Bytes(revision, p + 1, p + n)
      /\ SubSeq(data, n + 1, Len(data)) = Bytes(revision, (p + n) + 1, q)
  <2>1. p \in Nat /\ p <= q
    BY <1>2
  <2>2. /\ SubSeq(Bytes(revision, p + 1, q), 1, n) = Bytes(revision, p + 1, p + n)
        /\ SubSeq(Bytes(revision, p + 1, q), n + 1, q - p) = Bytes(revision, (p + n) + 1, q)
    BY <1>1, <1>2, <1>4, <2>1, BytesSplit
  <2> QED BY <1>2, <1>3, <2>2
<1>7. ~seeking => p = pos
  BY DEF p, Place
<1> QED BY <1>4, <1>5, <1>6, <1>7 DEF p, q

\* A batch that ends with nothing wrong has at least one block.
LEMMA FetchedSome ==
    ASSUME IInv, pc = "fetch", ~MoreToFetch, ~corrupt PROVE data # <<>>
<1>1. ~(from = i /\ i < NumBlocks(revision))
  BY CallsAssumption DEF MoreToFetch, IInv, TypeOK
<1> QED BY <1>1 DEF IInv, BufferOK, Reading

LEMMA ServeIInv == ASSUME IInv, ServeBuffered \/ ServeFetched PROVE IInv'
<1> USE DEF IInv
<1>1. pc \in {"read", "fetch"} /\ Serve /\ (~corrupt => data # <<>>)
  BY FetchedSome DEF ServeBuffered, ServeFetched
<1>2. /\ revision \in Revisions /\ nextRevision \in 0..NumBlocks(revision)
      /\ pc' = IF seeking THEN "skip" ELSE "open"
      /\ UNCHANGED <<active, kept, changes, seeking, asked, revision, attrs, nextRevision, from, i,
                     fetched, corrupt, want, closed, faults>>
  BY <1>1 DEF Serve, serverVars, openVars, ReadOK, Reading
<1> DEFINE n == IF Len(data) < want THEN Len(data) ELSE want
<1>3. /\ Len(data) \in Nat /\ n \in 0..Len(data)
      /\ \A k \in 1..Len(data) : data[k] \in Revisions \X Nat
  <2>1. data \in Seq(Revisions \X Nat) /\ want \in Nat
    BY DEF TypeOK
  <2> QED BY <2>1, LenProperties, ElementOfSeq
<1>4. TypeOK'
  <2>1. data' = SubSeq(data, n + 1, Len(data))
    BY <1>1 DEF Serve
  <2>2. CASE seeking
    <3>1. skip' = skip - n /\ UNCHANGED <<pos, chunk, eof>>
      BY <1>1, <2>2 DEF Serve, callerVars
    <3> HIDE DEF n
    <3>2. skip' \in Int
      BY <1>3, <3>1 DEF TypeOK
    <3>3. data' \in Seq(Revisions \X Nat)
      BY <1>3, <2>1, SubSeqProperties
    <3> QED BY <1>2, <2>2, <3>1, <3>2, <3>3 DEF TypeOK
  <2>3. CASE ~seeking
    <3>1. pos' = pos + n /\ chunk' = SubSeq(data, 1, n) /\ eof' = FALSE /\ skip' = skip
      BY <1>1, <2>3 DEF Serve
    <3> HIDE DEF n
    <3>2. pos' \in Nat
      BY <1>3, <3>1 DEF TypeOK
    <3>3. data' \in Seq(Revisions \X Nat) /\ chunk' \in Seq(Revisions \X Nat)
      BY <1>3, <2>1, <3>1, SubSeqProperties
    <3> QED BY <1>2, <2>3, <3>1, <3>2, <3>3 DEF TypeOK
  <2> QED BY <2>2, <2>3
<1>5. FreshOK' /\ SeekOK'
  BY <1>1, <1>2 DEF FreshOK, SeekOK, Reading, SizesKnown
<1>6. ReadOK'
  BY <1>1, <1>2 DEF ReadOK, Reading
<1>7. BufferOK'
  <2>1. SUFFICES ASSUME ~corrupt PROVE BufferOK'
    BY <1>2 DEF BufferOK
  <2>2. PICK m \in 1..(Start(revision, nextRevision) - Place) :
          /\ data' = Bytes(revision, (Place + m) + 1, Start(revision, nextRevision))
          /\ seeking => skip' = skip - m
          /\ ~seeking => pos' = pos + m
    BY <1>1, <2>1, ServeTakes
  <2>3. Place \in 0..Start(revision, nextRevision) /\ Start(revision, nextRevision) \in Nat
    BY <1>1, <1>2, <2>1, StartNat DEF BufferOK, Reading
  <2>4. Place' = Place + m
    BY <1>2, <2>2 DEF Place, TypeOK
  <2>5. Place' \in 0..Start(revision, nextRevision)
    <3> DEFINE p == Place
               q == Start(revision, nextRevision)
    <3>1. p \in 0..q /\ q \in Nat /\ m \in 1..(q - p) /\ Place' = p + m
      BY <2>3, <2>4
    <3> HIDE DEF p, q
    <3>2. Place' \in 0..q
      BY <3>1
    <3> QED BY <3>2 DEF q
  <2> QED BY <1>2, <2>2, <2>4, <2>5 DEF BufferOK
<1> QED BY <1>4, <1>5, <1>6, <1>7

\* A Read that fails, and is not one of those that seek, leaves the buffer, the
\* next block and the place as they are.
LEMMA FailIInv ==
    ASSUME IInv, pc \in {"read", "fetch"}, NEW end \in BOOLEAN, ReadFails(end), ServerTypeOK',
           IF seeking THEN TRUE ELSE UNCHANGED <<data, corrupt>>
    PROVE  IInv'
<1> USE DEF IInv
<1>1. CASE seeking
  BY <1>1, ResetIInv DEF ReadFails
<1>2. CASE ~seeking
  <2>1. /\ pc' = "open" /\ chunk' = <<>> /\ eof' = end
        /\ UNCHANGED <<seeking, asked, revision, attrs, skip, nextRevision, from, i, fetched, want,
                       closed, pos, data, corrupt>>
    BY <1>2 DEF ReadFails, openVars
  <2>2. TypeOK'
    <3> DEFINE none == <<>>
    <3>1. none \in Seq(Revisions \X Nat) /\ chunk' = none
      BY <2>1, EmptySeq
    <3> HIDE DEF none
    <3>2. chunk' \in Seq(Revisions \X Nat)
      BY <3>1
    <3> QED BY <2>1, <3>2 DEF TypeOK, ServerTypeOK
  <2>3. ReadOK'
    BY <1>2, <2>1 DEF ReadOK, Reading
  <2>4. BufferOK'
    BY <2>1 DEF BufferOK, Reading, Place
  <2> QED BY <2>1, <2>2, <2>3, <2>4 DEF FreshOK, SeekOK, Reading, SizesKnown
<1> QED BY <1>1, <1>2

LEMMA FailsIInv == ASSUME IInv, EndOfFile \/ GetBlockFails PROVE IInv'
<1>1. CASE EndOfFile
  <2>1. ServerTypeOK'
    BY <1>1 DEF EndOfFile, ServerTypeOK, IInv, TypeOK, serverVars
  <2> QED BY <1>1, <2>1, FailIInv DEF EndOfFile
<1>2. CASE GetBlockFails
  <2>1. ServerTypeOK'
    BY <1>2, CallsAssumption DEF GetBlockFails, ServerTypeOK, IInv, TypeOK, serverVars
  <2> QED BY <1>2, <2>1, FailIInv DEF GetBlockFails, MoreToFetch
<1> QED BY <1>1, <1>2

\* The next block: its bytes follow those in the buffer.
LEMMA NextBlock ==
    ASSUME IInv, MoreToFetch
    PROVE  /\ revision \in Revisions /\ i \in 0..(NumBlocks(revision) - 1)
           /\ i + 1 \in 0..NumBlocks(revision) /\ i = nextRevision /\ from <= i
           /\ data \o BlockBytes(revision, i + 1) \in Seq(Revisions \X Nat)
           /\ data \o BlockBytes(revision, i + 1) # <<>>
           /\ ~corrupt =>
                /\ Place \in 0..Start(revision, i + 1)
                /\ data \o BlockBytes(revision, i + 1)
                     = Bytes(revision, Place + 1, Start(revision, i + 1))
<1> USE DEF IInv
<1>1. /\ pc = "fetch" /\ revision \in Revisions /\ i = nextRevision /\ from <= i
      /\ nextRevision \in 0..NumBlocks(revision) /\ i < NumBlocks(revision)
      /\ NumBlocks(revision) \in Nat
  BY BlockEnds DEF MoreToFetch, ReadOK, Reading
<1>2. i \in 0..(NumBlocks(revision) - 1) /\ i + 1 \in 0..NumBlocks(revision)
  BY <1>1
<1> DEFINE q == Start(revision, i)
           e == Start(revision, i + 1)
           more == BlockBytes(revision, i + 1)
<1>3. q \in Nat /\ e \in Nat /\ q < e
  BY <1>1, <1>2, StartNat, StartGrows
<1>4. more = Bytes(revision, q + 1, e)
  BY <1>1, <1>2, BlockIsBytes
<1> HIDE DEF q, e
<1>5. more \in Seq(Revisions \X Nat) /\ Len(more) = e - q
  <2>1. q <= e
    BY <1>3
  <2>2. /\ Bytes(revision, q + 1, e) \in Seq(Revisions \X Nat)
        /\ Len(Bytes(revision, q + 1, e)) = e - q
    BY <1>1, <1>3, <2>1, BytesParts
  <2> QED BY <1>4, <2>2
<1> HIDE DEF more
<1>6. data \o more \in Seq(Revisions \X Nat) /\ data \o more # <<>>
  <2>1. data \in Seq(Revisions \X Nat)
    BY DEF TypeOK
  <2>2. more # <<>>
    BY <1>3, <1>5, EmptySeq
  <2> QED BY <1>5, <2>1, <2>2, ConcatProperties, ConcatSimplifications!concIsEmpty
<1>7. ASSUME ~corrupt PROVE Place \in 0..e /\ data \o more = Bytes(revision, Place + 1, e)
  <2> DEFINE p == Place
  <2>1. p \in 0..q /\ data = Bytes(revision, p + 1, q)
    BY <1>1, <1>7 DEF BufferOK, Reading, q
  <2> HIDE DEF p
  <2>2. p \in Nat /\ p <= q /\ q <= e /\ p \in 0..e
    BY <1>3, <2>1
  <2>3. Bytes(revision, p + 1, q) \o Bytes(revision, q + 1, e) = Bytes(revision, p + 1, e)
    BY <1>1, <1>3, <2>2, BytesJoin
  <2> QED BY <1>4, <2>1, <2>2, <2>3 DEF p
<1> QED BY <1>1, <1>2, <1>6, <1>7 DEF e, more

LEMMA FetchIInv == ASSUME IInv, Populate \/ GetBlock PROVE IInv'
<1> USE DEF IInv, serverVars, openVars, readerVars, callerVars
<1>1. CASE Populate
  <2>1. /\ pc = "read" /\ pc' = "fetch" /\ from' = nextRevision /\ i' = nextRevision
        /\ nextRevision < NumBlocks(revision)
        /\ UNCHANGED <<seeking, openVars, skip, nextRevision, data, fetched, corrupt, want, closed,
                       callerVars>>
    BY <1>1 DEF Populate
  <2>2. TypeOK'
    BY <1>1, <2>1 DEF Populate, TypeOK
  <2>3. ReadOK'
    BY <2>1, <2>2 DEF ReadOK, Reading, TypeOK
  <2>4. BufferOK'
    BY <2>1 DEF BufferOK, Reading, Place
  <2> QED BY <2>1, <2>2, <2>3, <2>4 DEF FreshOK, SeekOK, Reading, SizesKnown
<1>2. CASE GetBlock
  <2>1. /\ MoreToFetch /\ pc = "fetch" /\ data' = data \o BlockBytes(revision, i + 1)
        /\ fetched' = fetched \cup {i + 1} /\ nextRevision' = i + 1 /\ i' = i + 1
        /\ UNCHANGED <<pc, seeking, openVars, skip, from, corrupt, want, closed, callerVars>>
    BY <1>2 DEF GetBlock, MoreToFetch
  <2>2. /\ revision \in Revisions /\ i \in 0..(NumBlocks(revision) - 1)
        /\ i + 1 \in 0..NumBlocks(revision) /\ i = nextRevision /\ from <= i
        /\ i + 1 \in 1..NumBlocks(revision) /\ NumBlocks(revision) \in Nat
    BY <2>1, NextBlock, BlockEnds
  <2>3. TypeOK'
    <3>1. data' \in Seq(Revisions \X Nat)
      BY <2>1, NextBlock
    <3>2. i + 1 \in Nat
      BY <2>2
    <3> QED BY <1>2, <2>1, <3>1, <3>2 DEF GetBlock, TypeOK
  <2>4. FreshOK'
    BY <2>1 DEF FreshOK
  <2>5. ReadOK'
    BY <2>1, <2>2 DEF ReadOK, Reading, TypeOK
  <2>6. BufferOK'
    <3>1. data' # <<>>
      BY <2>1, NextBlock
    <3>2. ASSUME ~corrupt
          PROVE  /\ Place \in 0..Start(revision, i + 1)
                 /\ data' = Bytes(revision, Place + 1, Start(revision, i + 1))
      BY <2>1, <3>2, NextBlock
    <3>3. Place' = Place
      BY <2>1 DEF Place
    <3> QED BY <2>1, <3>1, <3>2, <3>3 DEF BufferOK
  <2>7. SeekOK'
    <3>1. SUFFICES ASSUME SizesKnown
                   PROVE  /\ \A b \in fetched \cup {i + 1} : asked <= Ends[revision][b]
                          /\ \A b \in 1..NumBlocks(revision) :
                               b > i + 1 => asked <= Ends[revision][b]
      BY <2>1 DEF SeekOK, SizesKnown
    <3>2. /\ \A b \in fetched : asked <= Ends[revision][b]
          /\ \A b \in 1..NumBlocks(revision) : b > i => asked <= Ends[revision][b]
      BY <2>1, <2>2, <3>1 DEF SeekOK, Reading
    <3>3. asked <= Ends[revision][i + 1]
      BY <2>2, <3>2
    <3>4. ASSUME NEW b \in 1..NumBlocks(revision), b > i + 1 PROVE asked <= Ends[revision][b]
      BY <2>2, <3>2, <3>4
    <3> QED BY <3>2, <3>3, <3>4
  <2> QED BY <2>3, <2>4, <2>5, <2>6, <2>7
<1> QED BY <1>1, <1>2

\* The bytes of a block whose hash is wrong are in the buffer; nothing is
\* claimed of it from then on but where the reader is among the blocks.
LEMMA BadHashIInv == ASSUME IInv, BadHash PROVE IInv'
<1> USE DEF IInv
<1>1. ServerTypeOK' /\ MoreToFetch /\ pc = "fetch" /\ ReadFails(FALSE)
  <2>1. MoreToFetch /\ pc = "fetch" /\ ReadFails(FALSE)
    BY DEF BadHash, MoreToFetch
  <2>2. UNCHANGED <<active, kept, changes>> /\ faults < MaxFaults /\ faults' = faults + 1
    BY DEF BadHash, serverVars
  <2>3. faults' \in 0..MaxFaults
    BY <2>2, CallsAssumption DEF TypeOK
  <2> QED BY <2>1, <2>2, <2>3 DEF ServerTypeOK, TypeOK
<1>2. CASE seeking
  BY <1>1, <1>2, ResetIInv DEF ReadFails
<1>3. CASE ~seeking
  <2>1. /\ pc' = "open" /\ chunk' = <<>> /\ eof' = FALSE /\ corrupt' = TRUE
        /\ data' = data \o BlockBytes(revision, i + 1)
        /\ UNCHANGED <<seeking, asked, revision, attrs, skip, nextRevision, from, i, fetched, want,
                       closed, pos>>
    BY <1>1, <1>3 DEF ReadFails, openVars, BadHash
  <2>2. TypeOK'
    <3> DEFINE none == <<>>
    <3>1. none \in Seq(Revisions \X Nat) /\ chunk' = none
      BY <2>1, EmptySeq
    <3>2. data' \in Seq(Revisions \X Nat)
      BY <1>1, <2>1, NextBlock
    <3> HIDE DEF none
    <3>3. chunk' \in Seq(Revisions \X Nat)
      BY <3>1
    <3> QED BY <1>1, <2>1, <3>2, <3>3 DEF TypeOK, ServerTypeOK
  <2>3. ReadOK'
    BY <1>1, <1>3, <2>1 DEF ReadOK, Reading
  <2> QED BY <1>1, <2>1, <2>2, <2>3 DEF FreshOK, SeekOK, BufferOK, Reading, SizesKnown
<1> QED BY <1>2, <1>3

-----------------------------------------------------------------------------
(* The theorems *)

LEMMA NextIInv == ASSUME IInv, [Next]_vars PROVE IInv'
<1>1. CASE Others
  BY <1>1, OthersIInv
<1>2. CASE DownloadFile
  <2>1. ASSUME CallFails \/ SkipFails PROVE IInv'
    <3>1. Reset /\ ServerTypeOK'
      BY <2>1 DEF CallFails, SkipFails, IInv, TypeOK, ServerTypeOK, serverVars
    <3> QED BY <3>1, ResetIInv
  <2>2. ASSUME NilAttrs PROVE IInv'
    BY <2>2, PanicIInv DEF NilAttrs
  <2> QED BY <1>2, <2>1, <2>2, OpeningIInv, AttrsIInv, SkipIInv DEF DownloadFile
<1>3. CASE Reader
  <2>1. ASSUME NilDrive PROVE IInv'
    BY <2>1, PanicIInv DEF NilDrive
  <2> QED BY <1>3, <2>1, ServeIInv, FailsIInv, FetchIInv, BadHashIInv DEF Reader
<1>4. CASE Caller
  <2>1. ASSUME Drop PROVE IInv'
    <3>1. Reset /\ ServerTypeOK'
      BY <2>1 DEF Drop, IInv, TypeOK, ServerTypeOK, serverVars
    <3> QED BY <3>1, ResetIInv
  <2> QED BY <1>4, <2>1, OpeningIInv, CallerIInv DEF Caller
<1>5. CASE Panicked \/ UNCHANGED vars
  <2>1. UNCHANGED vars
    BY <1>5 DEF Panicked
  <2> USE <2>1 DEF IInv, vars, serverVars, openVars, readerVars, callerVars
  <2>2. TypeOK'
    BY DEF TypeOK
  <2>3. FreshOK' /\ ReadOK' /\ SeekOK'
    BY DEF FreshOK, ReadOK, SeekOK, Reading, SizesKnown
  <2>4. BufferOK'
    BY DEF BufferOK, Reading, Place
  <2> QED BY <2>2, <2>3, <2>4
<1> QED BY <1>1, <1>2, <1>3, <1>4, <1>5 DEF Next

\* The inductive invariant of a download: the buffer holds what lies between the
\* place of the reader and the end of the last block fetched.
THEOREM Invariance == Spec => []IInv
<1>1. IInv /\ [Next]_vars => IInv'
  BY NextIInv
<1> QED BY InitIInv, <1>1, PTL DEF Spec

\* Type correctness.
THEOREM TypeCorrect == Spec => []TypeOK
<1>1. IInv => TypeOK
  BY DEF IInv
<1> QED BY Invariance, <1>1, PTL

\* "Download will start from the specified block": with the block sizes known,
\* no block that ends before the offset is fetched, whatever their sizes.
THEOREM SeekSkips == Spec => []SeekSkipsBlocks
<1>1. ASSUME IInv PROVE SeekSkipsBlocks
  <2>1. CASE Reading
    BY <1>1, <2>1 DEF IInv, SeekOK, SizesKnown, SeekSkipsBlocks
  <2>2. CASE ~Reading
    BY <1>1, <2>2 DEF IInv, TypeOK, FreshOK, Reading, SeekSkipsBlocks, Gone
  <2> QED BY <2>1, <2>2
<1> QED BY Invariance, <1>1, PTL

-----------------------------------------------------------------------------
(* The refinement *)

LEMMA StreamInit == Init => Stream!Init
BY DEF Init, Stream!Init, Gone

\* What the caller sees does not change.
LEMMA SeesSame ==
    ASSUME UNCHANGED <<seeking, openVars, corrupt, callerVars>>,
           Gone' <=> Gone, Opening' <=> Opening
    PROVE  UNCHANGED Stream!vars
BY DEF Stream!vars, openVars, callerVars

\* The call fails, the caller is done with the reader, or its process ends.
LEMMA Finishes ==
    ASSUME ~Gone, Gone' PROVE Stream!Finish
BY DEF Stream!Finish, Gone, Opening

LEMMA StreamOthers == ASSUME IInv, Others PROVE UNCHANGED Stream!vars
<1>1. UNCHANGED <<pc, seeking, openVars, corrupt, callerVars>>
  BY DEF Others, CommitRevision, DeleteRevision, DeleteFile, readerVars
<1> QED BY <1>1, SeesSame DEF Gone, Opening

LEMMA StreamDownloadFile == ASSUME IInv, IInv', DownloadFile PROVE [Stream!Next]_Stream!vars
<1> USE DEF IInv
<1>1. CASE CallFails \/ SkipFails \/ NilAttrs
  <2>1. ~Gone /\ Gone'
    BY <1>1 DEF CallFails, SkipFails, NilAttrs, Reset, Gone
  <2> QED BY <2>1, Finishes DEF Stream!Next
<1>2. CASE GetRevisions \/ GetRevisionAllBlocks
  <2>1. /\ pc \in {"list", "blocks"} /\ pc' \in {"blocks", "attrs"}
        /\ UNCHANGED <<asked, pos, chunk, eof, corrupt>>
    BY <1>2 DEF GetRevisions, GetRevisionAllBlocks, openVars, readerVars, callerVars
  <2>2. ~Gone /\ ~Gone' /\ Opening /\ Opening'
    BY <2>1 DEF Gone, Opening
  <2> QED BY <2>1, <2>2 DEF Stream!vars
<1>3. CASE GetAttrs
  <2>1. pc = "attrs" /\ pc' = "skip" /\ seeking' /\ UNCHANGED <<asked, pos, chunk, eof, corrupt>>
    BY <1>3 DEF GetAttrs, callerVars
  <2>2. ~Gone /\ ~Gone' /\ Opening /\ Opening'
    BY <2>1 DEF Gone, Opening
  <2> QED BY <2>1, <2>2 DEF Stream!vars
<1>4. CASE Skip
  <2>1. /\ pc = "skip" /\ pc' = "read" /\ seeking
        /\ UNCHANGED <<seeking, openVars, corrupt, callerVars>>
    BY <1>4 DEF Skip, ReadOK, Reading, readerVars
  <2> QED BY <2>1, SeesSame DEF Gone, Opening
<1>5. CASE Skipped
  <2>1. /\ pc = "skip" /\ pc' = "open" /\ seeking /\ ~seeking' /\ pos' = asked /\ skip = 0
        /\ UNCHANGED <<asked, revision, attrs, nextRevision, corrupt, chunk, eof>>
    BY <1>5 DEF Skipped, ReadOK, Reading, openVars, readerVars
  <2>2. /\ ~corrupt /\ revision \in Revisions /\ attrs = revision
        /\ nextRevision \in 0..NumBlocks(revision)
    BY <2>1 DEF ReadOK, Reading
  <2>3. asked \in 0..FileSize[revision]
    <3>1. asked \in 0..Start(revision, nextRevision)
      BY <2>1, <2>2 DEF BufferOK, Reading, Place, TypeOK
    <3>2. /\ Start(revision, nextRevision) \in Nat /\ FileSize[revision] \in Nat
          /\ Start(revision, nextRevision) <= FileSize[revision]
      BY <2>2, SizeIsEnd, StartNat
    <3> QED BY <3>1, <3>2
  <2>4. ~Gone /\ ~Gone' /\ Opening /\ ~Opening'
    BY <2>1 DEF Gone, Opening
  <2>5. Stream!Open
    BY <2>1, <2>2, <2>3, <2>4 DEF Stream!Open
  <2> QED BY <2>5 DEF Stream!Next
<1> QED BY <1>1, <1>2, <1>3, <1>4, <1>5 DEF DownloadFile

LEMMA StreamCaller == ASSUME IInv, Caller PROVE [Stream!Next]_Stream!vars
<1> USE DEF IInv
<1>1. CASE \E o \in Offsets : Call(o)
  <2>1. /\ pc = "idle" /\ pc' = "list" /\ asked' \in Int /\ ~corrupt
        /\ pos = 0 /\ chunk = <<>> /\ eof = FALSE /\ UNCHANGED <<corrupt, pos, chunk, eof>>
    BY <1>1, CallsAssumption DEF Call, FreshOK, TypeOK, readerVars, callerVars
  <2>2. Gone /\ ~Gone' /\ Opening'
    BY <2>1 DEF Gone, Opening
  <2>3. Stream!Call
    BY <2>1, <2>2 DEF Stream!Call
  <2> QED BY <2>3 DEF Stream!Next
<1>2. CASE \E n \in ReadSizes : Read(n)
  <2>1. pc = "open" /\ pc' = "read" /\ UNCHANGED <<seeking, openVars, corrupt, callerVars>>
    BY <1>2 DEF Read, readerVars
  <2> QED BY <2>1, SeesSame DEF Gone, Opening
<1>3. CASE Close
  <2>1. UNCHANGED <<pc, seeking, openVars, corrupt, callerVars>>
    BY <1>3 DEF Close, readerVars
  <2> QED BY <2>1, SeesSame DEF Gone, Opening
<1>4. CASE Drop
  <2>1. ~Gone /\ Gone'
    BY <1>4 DEF Drop, Reset, Gone
  <2> QED BY <2>1, Finishes DEF Stream!Next
<1> QED BY <1>1, <1>2, <1>3, <1>4 DEF Caller

\* A Read that fails, without harm to the buffer, shows the caller the failure.
LEMMA StreamFails ==
    ASSUME IInv, pc \in {"read", "fetch"}, NEW end \in BOOLEAN, ReadFails(end),
           IF seeking THEN TRUE ELSE UNCHANGED <<data, corrupt>>,
           end /\ ~seeking /\ ~corrupt => pos = FileSize[revision]
    PROVE  [Stream!Next]_Stream!vars
<1> USE DEF IInv
<1>1. CASE seeking
  <2>1. ~Gone /\ Gone'
    BY <1>1 DEF ReadFails, Reset, Gone
  <2> QED BY <2>1, Finishes DEF Stream!Next
<1>2. CASE ~seeking
  <2>1. /\ pc' = "open" /\ chunk' = <<>> /\ eof' = end
        /\ UNCHANGED <<seeking, asked, revision, attrs, pos, corrupt>>
    BY <1>2 DEF ReadFails, openVars
  <2>2. ~Gone /\ ~Gone' /\ ~Opening /\ ~Opening'
    BY <1>2, <2>1 DEF Gone, Opening
  <2>3. CASE corrupt
    BY <2>1, <2>2, <2>3 DEF Stream!vars
  <2>4. CASE ~corrupt /\ end
    <3>1. Stream!End
      BY <1>2, <2>1, <2>2, <2>4 DEF Stream!End
    <3> QED BY <3>1 DEF Stream!Next
  <2>5. CASE ~corrupt /\ ~end
    <3>1. Stream!Fail
      BY <2>1, <2>2, <2>5 DEF Stream!Fail
    <3> QED BY <3>1 DEF Stream!Next
  <2> QED BY <2>3, <2>4, <2>5
<1> QED BY <1>1, <1>2

\* With the buffer empty and no block left the reader is at the end of the file.
LEMMA AtEnd ==
    ASSUME IInv, pc = "read", ~seeking, ~corrupt, data = <<>>, nextRevision = NumBlocks(revision)
    PROVE  pos = FileSize[revision]
<1> DEFINE q == Start(revision, nextRevision)
<1>1. /\ revision \in Revisions /\ Place = pos /\ pos \in 0..q /\ data = Bytes(revision, pos + 1, q)
      /\ nextRevision \in 0..NumBlocks(revision)
  BY DEF IInv, ReadOK, BufferOK, Reading, Place
<1>2. q = FileSize[revision] /\ q \in Nat
  BY <1>1, SizeIsEnd, StartNat
<1> HIDE DEF q
<1>3. pos \in Nat /\ pos <= q
  BY <1>1, <1>2
<1>4. Len(data) = q - pos /\ Len(data) = 0
  <2>1. Len(Bytes(revision, pos + 1, q)) = q - pos
    BY <1>1, <1>2, <1>3, BytesParts
  <2> QED BY <1>1, <2>1, EmptySeq
<1> QED BY <1>2, <1>3, <1>4

\* What a Read gives the caller is what comes next in the file.
LEMMA StreamServe ==
    ASSUME IInv, IInv', ServeBuffered \/ ServeFetched PROVE [Stream!Next]_Stream!vars
<1> USE DEF IInv
<1>1. pc \in {"read", "fetch"} /\ Serve /\ (~corrupt => data # <<>>)
  BY FetchedSome DEF ServeBuffered, ServeFetched
<1>2. /\ pc' = IF seeking THEN "skip" ELSE "open"
      /\ UNCHANGED <<seeking, asked, revision, attrs, nextRevision, corrupt>>
  BY <1>1 DEF Serve, openVars
<1>3. ~Gone /\ ~Gone' /\ (Opening <=> seeking) /\ (Opening' <=> seeking)
  BY <1>1, <1>2 DEF Gone, Opening
<1>4. CASE seeking
  <2>1. UNCHANGED <<pos, chunk, eof>>
    BY <1>1, <1>4 DEF Serve, callerVars
  <2> QED BY <1>2, <1>3, <2>1 DEF Stream!vars
<1>5. CASE ~seeking /\ corrupt
  BY <1>2, <1>3, <1>5 DEF Stream!vars
<1>6. CASE ~seeking /\ ~corrupt
  <2>1. /\ revision \in Revisions /\ nextRevision \in 0..NumBlocks(revision)
        /\ Place = pos /\ pos \in 0..Start(revision, nextRevision)
    BY <1>1, <1>6 DEF ReadOK, BufferOK, Reading, Place
  <2>2. PICK n \in 1..(Start(revision, nextRevision) - pos) :
          pos' = pos + n /\ chunk' = Bytes(revision, pos + 1, pos + n)
    BY <1>1, <1>6, <2>1, ServeTakes
  <2>3. n \in 1..(FileSize[revision] - pos)
    <3>1. /\ Start(revision, nextRevision) \in Nat /\ FileSize[revision] \in Nat
          /\ Start(revision, nextRevision) <= FileSize[revision]
      BY <2>1, SizeIsEnd, StartNat
    <3> QED BY <2>1, <3>1
  <2>4. eof' = FALSE
    BY <1>1, <1>6 DEF Serve
  <2>5. chunk' = Stream!Bytes(revision, pos + 1, pos + n)
    BY <2>2 DEF Bytes, Stream!Bytes
  <2>6. Stream!Deliver
    BY <1>2, <1>3, <1>6, <2>2, <2>3, <2>4, <2>5 DEF Stream!Deliver
  <2> QED BY <2>6 DEF Stream!Next
<1> QED BY <1>4, <1>5, <1>6

LEMMA StreamReader == ASSUME IInv, IInv', Reader PROVE [Stream!Next]_Stream!vars
<1>1. CASE ServeBuffered \/ ServeFetched
  BY <1>1, StreamServe
<1>2. CASE EndOfFile
  BY <1>2, AtEnd, StreamFails DEF EndOfFile
<1>3. CASE GetBlockFails
  BY <1>3, StreamFails DEF GetBlockFails, MoreToFetch
<1>4. CASE BadHash
  <2>1. pc = "fetch" /\ ReadFails(FALSE)
    BY <1>4 DEF BadHash, MoreToFetch
  <2>2. CASE seeking
    <3>1. ~Gone /\ Gone'
      BY <2>1, <2>2 DEF ReadFails, Reset, Gone
    <3> QED BY <3>1, Finishes DEF Stream!Next
  <2>3. CASE ~seeking
    <3>1. /\ pc' = "open" /\ corrupt' = TRUE /\ UNCHANGED <<seeking, asked, revision, attrs>>
      BY <1>4, <2>1, <2>3 DEF BadHash, ReadFails, openVars
    <3>2. ~Gone /\ ~Gone' /\ ~Opening /\ ~Opening'
      BY <2>1, <2>3, <3>1 DEF Gone, Opening
    <3>3. CASE corrupt
      BY <3>1, <3>2, <3>3 DEF Stream!vars
    <3>4. CASE ~corrupt
      <4>1. Stream!Break
        BY <3>1, <3>2, <3>4 DEF Stream!Break
      <4> QED BY <4>1 DEF Stream!Next
    <3> QED BY <3>3, <3>4
  <2> QED BY <2>2, <2>3
<1>5. CASE Populate \/ GetBlock
  <2>1. /\ pc \in {"read", "fetch"} /\ pc' = "fetch"
        /\ UNCHANGED <<seeking, openVars, corrupt, callerVars>>
    BY <1>5 DEF Populate, GetBlock, MoreToFetch
  <2> QED BY <2>1, SeesSame DEF Gone, Opening
<1>6. CASE NilDrive
  <2>1. ~Gone /\ Gone'
    BY <1>6 DEF NilDrive, MoreToFetch, Gone
  <2> QED BY <2>1, Finishes DEF Stream!Next
<1> QED BY <1>1, <1>2, <1>3, <1>4, <1>5, <1>6 DEF Reader

LEMMA StreamNext == ASSUME IInv, IInv', [Next]_vars PROVE [Stream!Next]_Stream!vars
<1>1. CASE Panicked \/ UNCHANGED vars
  <2>1. UNCHANGED <<pc, seeking, openVars, corrupt, callerVars>>
    BY <1>1 DEF Panicked, vars, readerVars
  <2> QED BY <2>1, SeesSame DEF Gone, Opening
<1> QED BY <1>1, StreamOthers, StreamDownloadFile, StreamCaller, StreamReader DEF Next

\* DownloadFile and its reader implement the byte stream of ByteStream: the bytes
\* of one revision, from the offset asked for, each once and in order, whatever
\* fails in between and whatever other clients do.
THEOREM Refinement == Spec => Implements
<1>1. IInv /\ IInv' /\ [Next]_vars => [Stream!Next]_Stream!vars
  BY StreamNext
<1> QED BY Invariance, StreamInit, <1>1, PTL DEF Spec, Implements, Stream!Spec
=============================================================================
