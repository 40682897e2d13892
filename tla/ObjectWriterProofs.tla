--------------------------- MODULE ObjectWriterProofs ---------------------------
(***************************************************************************)
(* The writer of an object shows all of the data or nothing, for every     *)
(* part size, part limit, object size and number of attempts.              *)
(*                                                                         *)
(* The heart of the argument is DataInv: the parts Complete will name,     *)
(* joined, followed by the buffer, are what the caller has written.  It    *)
(* needs facts about FlattenSeq, a recursive function; they are proved by  *)
(* induction, stated over a set instead of a predicate.                    *)
(***************************************************************************)
EXTENDS ObjectWriter, WellFoundedInduction, SequenceTheorems, TLAPS

-----------------------------------------------------------------------------
(* Induction. *)

\* A set of numbers that is not empty has a smallest element.
LEMMA SmallestNumber ==
    ASSUME NEW T, T \subseteq Nat, T # {}
    PROVE  \E x \in T : \A y \in T : x <= y
<1>1. \E x \in T : \A y \in T : ~ (<<y, x>> \in OpToRel(<, Nat))
  BY NatLessThanWellFounded, WFMin
<1>2. \A x, y \in Nat : ~ (<<y, x>> \in OpToRel(<, Nat)) => x <= y
  BY DEF OpToRel
<1> QED
  BY <1>1, <1>2

\* Induction over the natural numbers, for the set of those that satisfy a claim.
LEMMA Induction ==
    ASSUME NEW S, S \subseteq Nat, 0 \in S, \A n \in S : n + 1 \in S
    PROVE  S = Nat
<1> SUFFICES ASSUME Nat \ S # {}
             PROVE  FALSE
  OBVIOUS
<1>1. PICK x \in Nat \ S : \A y \in Nat \ S : x <= y
  BY SmallestNumber
<1>2. x - 1 \in Nat /\ x - 1 \notin S
  BY <1>1
<1> QED
  BY <1>1, <1>2

-----------------------------------------------------------------------------
(* Joining parts. *)

\* f[i] is the first i of the sequences s, joined, for i up to n: FlattenSeq's recursion.
Joins(f, s, n) == f = [i \in 1..n |-> IF i = 1 THEN s[i] ELSE f[i - 1] \o s[i]]

\* The recursion has a solution for any number of sequences.
LEMMA JoinsExists ==
    ASSUME NEW s, NEW n \in Nat
    PROVE  \E f : Joins(f, s, n)
<1> DEFINE N == {m \in Nat : \E f : Joins(f, s, m)}
<1>1. 0 \in N
  <2> DEFINE e == [i \in 1..0 |-> s[i]]
  <2>1. Joins(e, s, 0)
    BY DEF Joins
  <2> QED
    BY <2>1
<1>2. ASSUME NEW m \in N
      PROVE  m + 1 \in N
  <2>1. PICK f : Joins(f, s, m)
    OBVIOUS
  <2> DEFINE g == [i \in 1..(m + 1) |-> IF i = m + 1
                                       THEN IF i = 1 THEN s[i] ELSE f[i - 1] \o s[i]
                                       ELSE f[i]]
  <2>2. \A i \in 1..m : f[i] = IF i = 1 THEN s[i] ELSE f[i - 1] \o s[i]
    BY <2>1 DEF Joins
  <2>3. ASSUME NEW i \in 1..(m + 1)
        PROVE  g[i] = IF i = 1 THEN s[i] ELSE g[i - 1] \o s[i]
    <3>1. i # 1 => g[i - 1] = f[i - 1]
      OBVIOUS
    <3>2. CASE i = m + 1
      BY <3>1, <3>2
    <3>3. CASE i \in 1..m
      <4>1. g[i] = f[i]
        BY <3>3
      <4> QED
        BY <2>2, <3>1, <3>3, <4>1
    <3> QED
      BY <3>2, <3>3
  <2>4. Joins(g, s, m + 1)
    BY <2>3 DEF Joins
  <2> HIDE DEF g
  <2> QED
    BY <2>4
<1> HIDE DEF N
<1>3. N = Nat
  BY <1>1, <1>2, Induction DEF N
<1> QED
  BY <1>3 DEF N

\* What the first n sequences are joined to depends on nothing else.
LEMMA JoinsAgree ==
    ASSUME NEW s, NEW t, NEW f, NEW g, NEW n \in Nat, NEW m \in Nat, n <= m,
           Joins(f, s, n), Joins(g, t, m),
           \A i \in 1..n : s[i] = t[i]
    PROVE  \A i \in 1..n : f[i] = g[i]
<1> DEFINE N == {k \in Nat : k + 1 \in 1..n => f[k + 1] = g[k + 1]}
<1>0. /\ \A i \in 1..n : f[i] = IF i = 1 THEN s[i] ELSE f[i - 1] \o s[i]
      /\ \A i \in 1..m : g[i] = IF i = 1 THEN t[i] ELSE g[i - 1] \o t[i]
  BY DEF Joins
<1>1. 0 \in N
  BY <1>0
<1>2. ASSUME NEW k \in N
      PROVE  k + 1 \in N
  BY <1>0
<1> HIDE DEF N
<1>3. N = Nat
  BY <1>1, <1>2, Induction DEF N
<1>4. ASSUME NEW i \in 1..n
      PROVE  f[i] = g[i]
  <2>1. i - 1 \in Nat
    OBVIOUS
  <2>2. i - 1 \in N
    BY <1>3, <2>1
  <2> QED
    BY <2>1, <2>2 DEF N
<1> QED
  BY <1>4

\* FlattenSeq is the last value of that solution.
LEMMA FlattenIsJoin ==
    ASSUME NEW S, NEW s \in Seq(S), s # <<>>, NEW f, Joins(f, s, Len(s))
    PROVE  FlattenSeq(s) = f[Len(s)]
<1> DEFINE g == CHOOSE h : Joins(h, s, Len(s))
<1>1. Len(s) \in Nat /\ Len(s) # 0
  OBVIOUS
<1>2. FlattenSeq(s) = g[Len(s)]
  BY <1>1 DEF FlattenSeq, Joins
<1>3. Joins(g, s, Len(s))
  OBVIOUS
<1> HIDE DEF g
<1>4. g[Len(s)] = f[Len(s)]
  BY <1>1, <1>3, JoinsAgree
<1> QED
  BY <1>2, <1>4

\* Joining parts joins bytes to bytes.
LEMMA FlattenType ==
    ASSUME NEW S, NEW s \in Seq(Seq(S))
    PROVE  FlattenSeq(s) \in Seq(S)
<1>1. CASE s = <<>>
  <2>1. FlattenSeq(s) = <<>>
    BY <1>1 DEF FlattenSeq
  <2> QED
    BY <2>1
<1>2. CASE s # <<>>
  <2> DEFINE n == Len(s)
  <2>1. n \in Nat /\ n # 0 /\ \A i \in 1..n : s[i] \in Seq(S)
    BY <1>2
  <2>2. PICK f : Joins(f, s, n)
    BY <2>1, JoinsExists
  <2>3. \A i \in 1..n : f[i] = IF i = 1 THEN s[i] ELSE f[i - 1] \o s[i]
    BY <2>2 DEF Joins
  <2>4. FlattenSeq(s) = f[n]
    BY <1>2, <2>2, FlattenIsJoin
  <2> HIDE DEF n
  <2> DEFINE N == {k \in Nat : k + 1 \in 1..n => f[k + 1] \in Seq(S)}
  <2>5. 0 \in N
    BY <2>1, <2>3
  <2>6. ASSUME NEW k \in N
        PROVE  k + 1 \in N
    <3> SUFFICES ASSUME k + 2 \in 1..n
                 PROVE  f[k + 2] \in Seq(S)
      BY <2>1
    <3>1. k \in Nat /\ k + 2 # 1 /\ (k + 2) - 1 = k + 1 /\ k + 1 \in 1..n
      BY <2>1
    <3>2. f[k + 2] = f[k + 1] \o s[k + 2]
      BY <2>3, <3>1
    <3>3. f[k + 1] \in Seq(S) /\ s[k + 2] \in Seq(S)
      BY <2>1, <3>1
    <3> QED
      BY <3>2, <3>3, ConcatProperties
  <2> HIDE DEF N
  <2>7. N = Nat
    BY <2>5, <2>6, Induction DEF N
  <2>8. n - 1 \in N
    BY <2>1, <2>7
  <2> QED
    BY <2>1, <2>4, <2>8 DEF N
<1> QED
  BY <1>1, <1>2

\* One more part is joined at the end.
LEMMA FlattenAppend ==
    ASSUME NEW S, NEW s \in Seq(Seq(S)), NEW x \in Seq(S)
    PROVE  FlattenSeq(Append(s, x)) = FlattenSeq(s) \o x
<1> DEFINE n == Len(s)
           t == Append(s, x)
<1>1. /\ n \in Nat /\ t \in Seq(Seq(S)) /\ Len(t) = n + 1 /\ t # <<>>
      /\ t[n + 1] = x
      /\ \A i \in 1..n : s[i] = t[i]
  BY AppendProperties
<1> HIDE DEF t, n
<1>2. PICK g : Joins(g, t, n + 1)
  <2>1. n + 1 \in Nat
    BY <1>1
  <2> QED
    BY <2>1, JoinsExists
<1>3. FlattenSeq(t) = g[n + 1]
  BY <1>1, <1>2, FlattenIsJoin
<1>4. g[n + 1] = IF n + 1 = 1 THEN x ELSE g[n] \o x
  <2>1. n + 1 \in 1..(n + 1) /\ (n + 1) - 1 = n
    BY <1>1
  <2>2. \A i \in 1..(n + 1) : g[i] = IF i = 1 THEN t[i] ELSE g[i - 1] \o t[i]
    BY <1>2, Zenon DEF Joins
  <2> QED
    BY <1>1, <2>1, <2>2
<1>5. CASE s = <<>>
  <2>1. FlattenSeq(s) = <<>> /\ n = 0
    BY <1>5 DEF FlattenSeq, n
  <2>2. <<>> \o x = x
    BY ConcatEmptySeq
  <2> QED
    BY <1>1, <1>3, <1>4, <2>1, <2>2 DEF t
<1>6. CASE s # <<>>
  <2>0. n # 0
    BY <1>6 DEF n
  <2>1. PICK f : Joins(f, s, n)
    BY <1>1, JoinsExists
  <2>2. FlattenSeq(s) = f[n]
    BY <1>6, <2>1, FlattenIsJoin DEF n
  <2>3. f[n] = g[n]
    BY <1>1, <1>2, <2>0, <2>1, JoinsAgree
  <2> QED
    BY <1>1, <1>3, <1>4, <2>0, <2>2, <2>3 DEF t
<1> QED
  BY <1>5, <1>6

-----------------------------------------------------------------------------
(* Part sizes. *)

\* f[k] is the size after k doublings, for k up to d: the recursion of Doubled.
Doubles(f, initial, limit, d) ==
    f = [k \in 0..d |-> IF k = 0 THEN initial
                        ELSE IF f[k - 1] < limit THEN 2 * f[k - 1] ELSE f[k - 1]]

\* The recursion has a solution for any number of doublings.
LEMMA DoublesExists ==
    ASSUME NEW initial, NEW limit, NEW d \in Nat
    PROVE  \E f : Doubles(f, initial, limit, d)
<1> DEFINE N == {m \in Nat : \E f : Doubles(f, initial, limit, m)}
           Step(x) == IF x < limit THEN 2 * x ELSE x
<1>1. 0 \in N
  <2> DEFINE e == [k \in 0..0 |-> initial]
  <2>1. Doubles(e, initial, limit, 0)
    BY DEF Doubles
  <2> QED
    BY <2>1
<1>2. ASSUME NEW m \in N
      PROVE  m + 1 \in N
  <2>1. PICK f : Doubles(f, initial, limit, m)
    OBVIOUS
  <2> DEFINE g == [k \in 0..(m + 1) |-> IF k = m + 1 THEN Step(f[k - 1]) ELSE f[k]]
  <2>2. \A k \in 0..m : f[k] = IF k = 0 THEN initial ELSE Step(f[k - 1])
    BY <2>1 DEF Doubles
  <2> HIDE DEF Step
  <2>3. ASSUME NEW k \in 0..(m + 1)
        PROVE  g[k] = IF k = 0 THEN initial ELSE Step(g[k - 1])
    <3>1. k # 0 => g[k - 1] = f[k - 1]
      OBVIOUS
    <3>2. CASE k = m + 1
      BY <3>1, <3>2
    <3>3. CASE k \in 0..m
      <4>1. g[k] = f[k]
        BY <3>3
      <4> QED
        BY <2>2, <3>1, <3>3, <4>1
    <3> QED
      BY <3>2, <3>3
  <2>4. Doubles(g, initial, limit, m + 1)
    BY <2>3 DEF Doubles, Step
  <2> HIDE DEF g
  <2> QED
    BY <2>4
<1> HIDE DEF N
<1>3. N = Nat
  BY <1>1, <1>2, Induction DEF N
<1> QED
  BY <1>3 DEF N

\* A doubled size is a size.
LEMMA DoubledType ==
    ASSUME NEW initial \in Nat \ {0}, NEW limit \in Nat, NEW d \in Nat
    PROVE  Doubled(initial, limit, d) \in Nat \ {0}
<1> DEFINE f == CHOOSE h : Doubles(h, initial, limit, d)
<1>1. Doubled(initial, limit, d) = f[d]
  BY DEF Doubled, Doubles
<1>2. Doubles(f, initial, limit, d)
  BY DoublesExists
<1> HIDE DEF f
<1>3. \A k \in 0..d : f[k] = IF k = 0 THEN initial
                             ELSE IF f[k - 1] < limit THEN 2 * f[k - 1] ELSE f[k - 1]
  BY <1>2 DEF Doubles
<1> DEFINE N == {k \in Nat : k \in 0..d => f[k] \in Nat \ {0}}
<1>4. 0 \in N
  BY <1>3
<1>5. ASSUME NEW k \in N
      PROVE  k + 1 \in N
  BY <1>3
<1> HIDE DEF N
<1>6. N = Nat
  BY <1>4, <1>5, Induction DEF N
<1> QED
  BY <1>1, <1>6 DEF N

\* partSizeFor returns between one unit and the limit, whatever the part number.
LEMMA PartSizeType ==
    ASSUME NEW n \in Nat \ {0}
    PROVE  PartSizeFor(n) \in 1..MaxPartSize
<1> DEFINE d == (n - 1) \div PartSizeStep
<1>1. d \in Nat
  BY BoundsAssumption
<1>2. Doubled(InitialPartSize, MaxPartSize, d) \in Nat \ {0}
  BY <1>1, DoubledType, BoundsAssumption
<1> QED
  BY <1>2, BoundsAssumption DEF PartSizeFor, PartSize
-----------------------------------------------------------------------------
(* The inductive invariant. *)

Content == [present : BOOLEAN, data : Seq(Nat)]

TypeOK == /\ object \in Content /\ old \in Content
          /\ upload \in {"none", "open", "completed", "gone"}
          /\ stored \in [1..MaxParts -> Seq(Nat)]
          /\ client \in {"s3", "oci", "http"}
          /\ pc \in {"open", "done"} \cup Requests
          /\ buf \in Seq(Nat)
          /\ sent \in Nat
          /\ part \in 1..(MaxParts + 1)

\* Which request may be in progress, by what the writer knows of the upload and what its
\* caller has asked for.
ControlInv == /\ pc \in {"initiate", "put"} => upload = "none"
              /\ pc \in {"part", "complete", "abort"} => upload # "none"
              /\ upload = "none" => part = 1
              /\ pc \in {"initiate", "part"} => part <= MaxParts
              /\ closing => pc \notin {"open", "initiate"}
              /\ pc \in {"put", "complete"} => closing
              /\ pc = "complete" => buf = <<>>
              /\ result = "ok" => pc = "done"
              /\ pc = "abort" => result # "ok"
              /\ (upload = "gone" /\ pc \notin {"abort", "done"}) => expired

\* The parts Complete will name and the buffer hold what was written, in order, and no
\* buffer is too large to be sent.  Once the provider has dropped the upload that need not
\* be so: HTTPClient.UploadPart takes a status 200 for a success, whatever the body says.
DataInv == /\ upload \in {"none", "open"} => Assemble \o buf = Written
           /\ Len(buf) <= MaxPartSize

\* An upload is completed by Close only, when everything has been sent.
CompletedInv == upload = "completed" => closing /\ object = Holding(Written)

IInv == /\ TypeOK
        /\ ControlInv
        /\ DataInv
        /\ CompletedInv
        /\ AllOrNothing
        /\ ClosePublishes
        /\ PartsWithinLimit
        /\ NoOpenUpload

-----------------------------------------------------------------------------
(* Data. *)

Upto(n) == [i \in 1..n |-> i]

\* Write: one more unit in the buffer is one more unit written.
LEMMA WriteOne ==
    ASSUME NEW a \in Seq(Nat), NEW b \in Seq(Nat), NEW n \in Nat, a \o b = Upto(n)
    PROVE  a \o Append(b, n + 1) = Upto(n + 1)
<1>1. a \o Append(b, n + 1) = (a \o b) \o <<n + 1>>
  <2>1. n + 1 \in Nat /\ <<n + 1>> \in Seq(Nat)
    OBVIOUS
  <2>2. Append(b, n + 1) = b \o <<n + 1>>
    BY <2>1, AppendIsConcat
  <2> QED
    BY <2>1, <2>2, ConcatAssociative
<1>2. Upto(n) \o <<n + 1>> = Upto(n + 1)
  BY DEF Upto
<1> QED
  BY <1>1, <1>2

\* No parts hold no data.
LEMMA NothingJoined == FlattenSeq(<<>>) = <<>>
BY DEF FlattenSeq

\* Parts before part p, in a list of parts in which p may have been replaced.
LEMMA EarlierParts ==
    ASSUME NEW n \in Nat, NEW p \in 1..(n + 1),
           NEW s \in [1..n -> Seq(Nat)], NEW t \in [1..n -> Seq(Nat)],
           \A i \in 1..n : i # p => t[i] = s[i]
    PROVE  SubSeq(t, 1, p - 1) = SubSeq(s, 1, p - 1)
<1>1. p - 1 \in Int /\ 1 \in Int /\ \A i \in 1..(p - 1) : i \in 1..n /\ i # p
  OBVIOUS
<1>2. /\ \A i \in 1..(p - 1) : s[i] \in Seq(Nat)
      /\ \A i \in 1..(p - 1) : t[i] \in Seq(Nat)
  BY <1>1
<1>3. /\ SubSeq(s, 1, p - 1) \in Seq(Seq(Nat))
      /\ Len(SubSeq(s, 1, p - 1)) = p - 1
      /\ \A i \in 1..(p - 1) : SubSeq(s, 1, p - 1)[i] = s[i]
  BY <1>1, <1>2, SubSeqProperties
<1>4. /\ SubSeq(t, 1, p - 1) \in Seq(Seq(Nat))
      /\ Len(SubSeq(t, 1, p - 1)) = p - 1
      /\ \A i \in 1..(p - 1) : SubSeq(t, 1, p - 1)[i] = t[i]
  BY <1>1, <1>2, SubSeqProperties
<1> QED
  BY <1>1, <1>3, <1>4, SeqEqual

\* Parts 1 to p, once part p is stored.
LEMMA OneMorePart ==
    ASSUME NEW n \in Nat, NEW p \in 1..n, NEW b \in Seq(Nat),
           NEW s \in [1..n -> Seq(Nat)]
    PROVE  SubSeq([s EXCEPT ![p] = b], 1, p) = Append(SubSeq(s, 1, p - 1), b)
<1> DEFINE t == [s EXCEPT ![p] = b]
           q == SubSeq(s, 1, p - 1)
<1>1. /\ p \in Int /\ p - 1 \in Int /\ 1 \in Int
      /\ \A i \in 1..(p - 1) : i \in 1..n /\ i # p
      /\ \A i \in 1..p : i \in 1..n
  OBVIOUS
<1>2. /\ t \in [1..n -> Seq(Nat)] /\ t[p] = b
      /\ \A i \in 1..(p - 1) : t[i] = s[i]
  BY <1>1
<1> HIDE DEF t
<1>3. q \in Seq(Seq(Nat)) /\ Len(q) = p - 1 /\ \A i \in 1..(p - 1) : q[i] = s[i]
  BY <1>1, SubSeqProperties
<1>4. /\ SubSeq(t, 1, p) \in Seq(Seq(Nat))
      /\ Len(SubSeq(t, 1, p)) = p
      /\ \A i \in 1..p : SubSeq(t, 1, p)[i] = t[i]
  BY <1>1, <1>2, SubSeqProperties
<1> DEFINE u == SubSeq(t, 1, p)
<1> HIDE DEF u, q
<1>5. /\ Append(q, b) \in Seq(Seq(Nat)) /\ Len(Append(q, b)) = p
      /\ \A i \in 1..(p - 1) : Append(q, b)[i] = q[i]
      /\ Append(q, b)[p] = b
  BY <1>3, AppendProperties
<1>6. \A i \in 1..p : u[i] = Append(q, b)[i]
  BY <1>2, <1>3, <1>4, <1>5 DEF u
<1>7. u = Append(q, b)
  BY <1>4, <1>5, <1>6, SeqEqual DEF u
<1> QED
  BY <1>7 DEF u, q, t

\* What Complete assembles is a sequence of units.
LEMMA AssembleType ==
    ASSUME TypeOK
    PROVE  /\ SubSeq(stored, 1, part - 1) \in Seq(Seq(Nat))
           /\ Assemble \in Seq(Nat)
<1>1. part - 1 \in Int /\ 1 \in Int /\ \A i \in 1..(part - 1) : stored[i] \in Seq(Nat)
  BY BoundsAssumption DEF TypeOK
<1>2. SubSeq(stored, 1, part - 1) \in Seq(Seq(Nat))
  BY <1>1, SubSeqProperties
<1> QED
  BY <1>2, FlattenType DEF Assemble

\* What Close sends in one request is everything.
LEMMA PutsAll ==
    ASSUME TypeOK, ControlInv, DataInv, pc = "put"
    PROVE  buf = Written
<1>1. upload = "none" /\ part = 1
  BY DEF ControlInv
<1>2. SubSeq(stored, 1, part - 1) = <<>>
  BY <1>1, SubSeqEmpty
<1>3. Assemble = <<>>
  BY <1>2, NothingJoined DEF Assemble
<1> QED
  BY <1>1, <1>3, ConcatEmptySeq DEF DataInv, TypeOK

\* What Complete assembles is everything.
LEMMA CompletesAll ==
    ASSUME TypeOK, ControlInv, DataInv, pc = "complete", upload = "open"
    PROVE  Assemble = Written
BY AssembleType, ConcatEmptySeq DEF ControlInv, DataInv

-----------------------------------------------------------------------------
(* Requests. *)

\* An attempt takes effect or it does not.
LEMMA AttemptEffect ==
    ASSUME NEW e, AttemptEnds(e)
    PROVE  TakesEffect \/ UNCHANGED provider
BY DEF AttemptEnds, Attempt

\* What a client takes for a success has happened, unless the provider does not know the
\* upload: then there is nothing to abort, or Complete has found an object.
LEMMA SuccessIsReal ==
    ASSUME TypeOK, pc \in {"part", "put", "complete", "abort"}, AttemptEnds("none")
    PROVE  \/ TakesEffect
           \/ /\ pc # "put" /\ upload # "open" /\ UNCHANGED provider
              /\ pc = "complete" => object.present
<1>1. PICK reply \in ClientReplies, head \in BOOLEAN :
         ReplyError(reply, head) = "none" /\ Attempt(reply)
  BY DEF AttemptEnds
<1> SUFFICES ASSUME reply \in Mute \cup Denials, UNCHANGED provider
             PROVE  pc # "put" /\ upload # "open" /\ (pc = "complete" => object.present)
  BY <1>1 DEF Attempt
<1> DEFINE found == head /\ HeadFinds
<1>3. CASE client = "s3"
  <2>1. S3Error(reply, found) = "none" /\ reply \in S3!ClientReplies
    BY <1>1, <1>3 DEF ReplyError, ClientReplies
  <2> HIDE DEF found
  <2> QED
    BY <2>1 DEF S3Error, S3!ClientReplies, S3!UploadPart, S3!PutObject, S3!Complete,
       S3!Abort, S3!ClassifyError, S3!StatusError, StatusError, Mute, Denials,
       UnknownUpload, found, HeadFinds
<1>4. CASE client = "oci"
  <2>1. OCIError(reply, found) = "none" /\ reply \in OCI!ClientReplies
    BY <1>1, <1>4 DEF ReplyError, ClientReplies
  <2> HIDE DEF found
  <2> QED
    BY <2>1 DEF OCIError, OCI!ClientReplies, OCI!UploadPart, OCI!PutObject, OCI!Complete,
       OCI!Abort, OCI!ClassifyError, OCI!StatusError, StatusError, Mute, Denials,
       UnknownUpload, found, HeadFinds
<1>5. CASE client = "http"
  <2>1. HTTPError(reply, found) = "none" /\ reply \in HTTP!ClientReplies
    BY <1>1, <1>5 DEF ReplyError, ClientReplies
  <2> HIDE DEF found
  <2> QED
    BY <2>1 DEF HTTPError, HTTP!ClientReplies, HTTP!UploadPart, HTTP!PutObject, HTTP!Complete,
       HTTP!Abort, HTTP!ClassifyError, HTTP!StatusError, StatusError, Mute, Denials,
       UnknownUpload, found, HeadFinds
<1> QED
  BY <1>3, <1>4, <1>5 DEF TypeOK

\* What the provider keeps and what it may change in one attempt, while the writer waits.
LEMMA ProviderStep ==
    ASSUME IInv, pc \in Requests, TakesEffect \/ UNCHANGED provider
    PROVE  /\ object' \in Content /\ old' = old /\ expired' = expired
           /\ stored' \in [1..MaxParts -> Seq(Nat)]
           /\ \A i \in 1..MaxParts : i # part => stored'[i] = stored[i]
           /\ upload' \in {"none", "open", "completed", "gone"}
           /\ upload' = "none" <=> upload = "none"
           /\ upload' \in {"none", "open"} => upload = upload'
           /\ upload' = "gone" => upload = "gone" \/ pc = "abort"
           /\ upload' = "completed" => closing /\ object' = Holding(Written)
           /\ object' = old \/ (closing /\ object' = Holding(Written))
           /\ \A i \in 1..MaxParts : Len(stored'[i]) <= MaxPartSize
<1> USE DEF IInv, TypeOK
<1>1. CASE UNCHANGED provider
  BY <1>1 DEF provider, AllOrNothing, CompletedInv, PartsWithinLimit
<1>2. CASE pc = "initiate" /\ UNCHANGED provider
  BY <1>1, <1>2
<1>3. CASE pc = "part" /\ StorePart
  <2>1. part \in 1..MaxParts /\ Len(buf) <= MaxPartSize
    BY <1>3, BoundsAssumption DEF ControlInv, DataInv
  <2>2. stored' = [stored EXCEPT ![part] = buf] /\ UNCHANGED <<object, old, upload, expired>>
    BY <1>3 DEF StorePart
  <2>3. stored' \in [1..MaxParts -> Seq(Nat)] /\ stored'[part] = buf
        /\ \A i \in 1..MaxParts : i # part => stored'[i] = stored[i]
    BY <2>1, <2>2
  <2> QED
    BY <1>3, <2>1, <2>2, <2>3 DEF AllOrNothing, CompletedInv, PartsWithinLimit
<1>4. CASE pc = "put" /\ Put
  <2>1. object' = Holding(Written) /\ closing /\ UNCHANGED <<old, upload, stored, expired>>
    BY <1>4, PutsAll DEF Put, ControlInv
  <2>2. object' \in Content
    BY <1>4 DEF Put, Holding, Content
  <2> QED
    BY <1>4, <2>1, <2>2 DEF PartsWithinLimit
<1>5. CASE pc = "complete" /\ Publish
  <2>1. object' = Holding(Written) /\ closing /\ upload' = "completed" /\ upload = "open"
        /\ UNCHANGED <<old, stored, expired>>
    BY <1>5, CompletesAll DEF Publish, ControlInv
  <2>2. object' \in Content
    BY <1>5, AssembleType DEF Publish, Holding, Content
  <2> QED
    BY <1>5, <2>1, <2>2 DEF PartsWithinLimit
<1>6. CASE pc = "abort" /\ Drop
  BY <1>6 DEF Drop, AllOrNothing, PartsWithinLimit
<1> QED
  BY <1>1, <1>2, <1>3, <1>4, <1>5, <1>6 DEF TakesEffect

\* After an attempt that leaves the writer's data alone, the parts still add up.
LEMMA DataKept ==
    ASSUME IInv, pc \in Requests, TakesEffect \/ UNCHANGED provider,
           UNCHANGED <<buf, sent, part>>
    PROVE  DataInv'
<1>1. /\ stored' \in [1..MaxParts -> Seq(Nat)]
      /\ \A i \in 1..MaxParts : i # part => stored'[i] = stored[i]
      /\ upload' \in {"none", "open"} => upload = upload'
  BY ProviderStep
<1>2. SubSeq(stored', 1, part - 1) = SubSeq(stored, 1, part - 1)
  <2>1. MaxParts \in Nat /\ part \in 1..(MaxParts + 1) /\ stored \in [1..MaxParts -> Seq(Nat)]
    BY BoundsAssumption DEF IInv, TypeOK
  <2> QED
    BY <1>1, <2>1, EarlierParts
<1>3. Assemble' = Assemble /\ Written' = Written
  BY <1>2 DEF Assemble, Written
<1> QED
  BY <1>1, <1>3 DEF IInv, DataInv

\* The data after part number part is stored and the next one begun.
LEMMA DataGrows ==
    ASSUME IInv, pc = "part", StorePart, part' = part + 1
    PROVE  Assemble' = Written
<1>1. MaxParts \in Nat /\ part \in 1..MaxParts /\ buf \in Seq(Nat)
      /\ stored \in [1..MaxParts -> Seq(Nat)]
  BY BoundsAssumption DEF IInv, TypeOK, ControlInv
<1>2. stored' = [stored EXCEPT ![part] = buf] /\ upload = "open"
  BY DEF StorePart
<1>3. SubSeq(stored', 1, part) = Append(SubSeq(stored, 1, part - 1), buf)
  BY <1>1, <1>2, OneMorePart
<1>4. FlattenSeq(Append(SubSeq(stored, 1, part - 1), buf)) = Assemble \o buf
  BY <1>1, AssembleType, FlattenAppend DEF IInv, Assemble
<1>5. part' - 1 = part
  BY <1>1
<1> QED
  BY <1>2, <1>3, <1>4, <1>5 DEF Assemble, IInv, DataInv

-----------------------------------------------------------------------------
(* The invariant is inductive. *)

\* A new writer is in the invariant, whether or not the key holds an object.
LEMMA IInvInit == Init => IInv
<1> SUFFICES ASSUME Init
             PROVE  IInv
  OBVIOUS
<1>1. TypeOK
  <2>1. Missing \in Content /\ Earlier \in Content
    BY DEF Content, Missing, Earlier, Holding
  <2> HIDE DEF Missing, Earlier
  <2>2. object \in Content /\ old \in Content
    BY <2>1 DEF Init
  <2>3. stored \in [1..MaxParts -> Seq(Nat)] /\ buf \in Seq(Nat)
    BY DEF Init
  <2>4. sent \in Nat /\ part \in 1..(MaxParts + 1)
    BY BoundsAssumption DEF Init
  <2> QED
    BY <2>2, <2>3, <2>4 DEF Init, TypeOK, Requests
<1>2. DataInv
  <2>1. part - 1 = 0 /\ buf = <<>> /\ sent = 0
    BY DEF Init
  <2>2. Assemble = <<>>
    <3>1. SubSeq(stored, 1, 0) = <<>>
      BY SubSeqEmpty
    <3> QED
      BY <2>1, <3>1, NothingJoined DEF Assemble
  <2>3. Written = <<>>
    BY <2>1 DEF Written
  <2> QED
    BY <2>1, <2>2, <2>3, BoundsAssumption DEF DataInv
<1>3. ControlInv /\ CompletedInv /\ AllOrNothing /\ ClosePublishes /\ PartsWithinLimit /\ NoOpenUpload
  BY BoundsAssumption DEF Init, ControlInv, CompletedInv, AllOrNothing, ClosePublishes,
     PartsWithinLimit, NoOpenUpload
<1> QED
  BY <1>1, <1>2, <1>3 DEF IInv

\* Between requests the writer only changes its own state.
LEMMA LocalStep ==
    ASSUME IInv, Write \/ WriteFull \/ Close \/ Abort
    PROVE  IInv'
<1> USE DEF IInv
<1>1. CASE Write
  <2>1. /\ buf' = Append(buf, sent + 1) /\ sent' = sent + 1 /\ pc = "open" /\ ~ closing
        /\ UNCHANGED <<provider, client, pc, part, closing, result, abortFailed>>
    BY <1>1 DEF Write, ControlInv
  <2>2. Len(buf) \in Nat /\ Len(buf) + 1 <= MaxPartSize
    <3>1. part \in Nat \ {0} /\ Len(buf) \in Nat
      BY BoundsAssumption DEF TypeOK
    <3>2. PartSizeFor(part) \in 1..MaxPartSize
      BY <3>1, PartSizeType
    <3>3. Len(buf) < PartSizeFor(part)
      BY <1>1 DEF Write
    <3> QED
      BY <3>1, <3>2, <3>3, BoundsAssumption
  <2>3. TypeOK' /\ Len(buf') = Len(buf) + 1
    BY <2>1 DEF TypeOK, provider
  <2>4. upload \in {"none", "open"} => Assemble \o Append(buf, sent + 1) = Upto(sent + 1)
    <3>1. Written = Upto(sent)
      BY DEF Written, Upto
    <3>2. Assemble \in Seq(Nat) /\ buf \in Seq(Nat) /\ sent \in Nat
      BY AssembleType DEF TypeOK
    <3> QED
      BY <3>1, <3>2, WriteOne DEF DataInv
  <2>5. Assemble' = Assemble /\ Written' = Upto(sent + 1)
    BY <2>1 DEF Assemble, Written, Upto, provider
  <2>6. DataInv'
    BY <2>1, <2>2, <2>3, <2>4, <2>5 DEF DataInv, provider
  <2> QED
    BY <2>1, <2>3, <2>6 DEF ControlInv, CompletedInv, AllOrNothing, ClosePublishes,
       PartsWithinLimit, NoOpenUpload, provider
<1>2. CASE WriteFull
  <2>1. /\ pc = "open" /\ pc' \in {"open", "initiate", "part"}
        /\ pc' = "initiate" => upload = "none" /\ part <= MaxParts
        /\ pc' = "part" => upload # "none" /\ part <= MaxParts
        /\ UNCHANGED <<provider, client, buf, sent, part, closing, result, abortFailed>>
    BY <1>2, BoundsAssumption DEF WriteFull, Request, ShipFrom, TypeOK
  <2>2. TypeOK' /\ DataInv'
    BY <2>1 DEF TypeOK, DataInv, Assemble, Written, provider, Requests
  <2> QED
    BY <2>1, <2>2 DEF ControlInv, CompletedInv, AllOrNothing, ClosePublishes, Written,
       PartsWithinLimit, NoOpenUpload, provider
<1>3. CASE Close \/ Abort
  <2>1. /\ pc = "open" /\ pc' \in {"put", "part", "complete", "abort", "done"}
        /\ result = "ok" => pc = "done"
        /\ pc' \in {"part", "complete", "put"} => closing' /\ result' = result
        /\ pc' \in {"abort", "done"} => result' \in {"error", "aborted"}
        /\ pc' \in {"put", "done"} => upload = "none"
        /\ pc' \in {"part", "complete", "abort"} => upload # "none"
        /\ pc' = "part" => part <= MaxParts
        /\ pc' = "complete" => buf = <<>>
        /\ closing => closing'
        /\ UNCHANGED <<provider, client, buf, sent, part, abortFailed>>
    BY <1>3, BoundsAssumption DEF Close, Abort, AbortThen, Request, Done, TypeOK, ControlInv
  <2>2. TypeOK' /\ DataInv'
    BY <2>1 DEF TypeOK, DataInv, Assemble, Written, provider, Requests
  <2>3. result' # "ok" /\ ~ closing
    BY <2>1 DEF ControlInv
  <2> QED
    BY <2>1, <2>2, <2>3 DEF ControlInv, CompletedInv, AllOrNothing, ClosePublishes, Written,
       PartsWithinLimit, NoOpenUpload, provider
<1> QED
  BY <1>1, <1>2, <1>3

\* A request succeeds.
LEMMA SuccessStep ==
    ASSUME IInv, Succeeds
    PROVE  IInv'
<1> USE DEF IInv
<1>1. CASE Initiated
  <2>1. /\ pc = "initiate" /\ pc' = "part" /\ upload' = "open" /\ upload = "none"
        /\ UNCHANGED <<object, old, stored, expired, client, buf, sent, part, closing, result,
                       abortFailed>>
    BY <1>1 DEF Initiated, Request, ControlInv
  <2>2. TypeOK' /\ DataInv'
    BY <2>1 DEF TypeOK, DataInv, Assemble, Written, Requests
  <2> QED
    BY <2>1, <2>2 DEF ControlInv, CompletedInv, AllOrNothing, ClosePublishes, Written,
       PartsWithinLimit, NoOpenUpload
<1>2. CASE PartUploaded
  <2>1. /\ pc = "part" /\ pc \in Requests /\ part' = part + 1 /\ part <= MaxParts /\ result # "ok"
        /\ UNCHANGED <<client, closing, result, abortFailed>>
        /\ upload # "none"
    BY <1>2 DEF PartUploaded, ControlInv, Requests
  <2>2. \/ closing /\ pc' = "complete" /\ buf' = <<>> /\ sent' = sent
        \/ ~ closing /\ pc' = "open" /\ buf' = <<sent + 1>> /\ sent' = sent + 1
    BY <1>2 DEF PartUploaded, Request
  <2>3. (pc = "part" /\ StorePart) \/ (upload # "open" /\ UNCHANGED provider)
    BY <1>2, <2>1, SuccessIsReal DEF PartUploaded, TakesEffect
  <2>4. TakesEffect \/ UNCHANGED provider
    BY <2>3 DEF TakesEffect
  <2>5. /\ object' \in Content /\ old' = old /\ expired' = expired
        /\ stored' \in [1..MaxParts -> Seq(Nat)]
        /\ upload' = upload
        /\ upload' \in {"none", "open", "completed", "gone"}
        /\ object' = object
        /\ PartsWithinLimit'
    BY <2>1, <2>3, <2>4, ProviderStep DEF StorePart, provider, PartsWithinLimit
  <2>6. TypeOK'
    <3>1. buf' \in Seq(Nat) /\ sent' \in Nat
      <4>1. <<>> \in Seq(Nat) /\ <<sent + 1>> \in Seq(Nat) /\ sent + 1 \in Nat /\ sent \in Nat
        BY DEF TypeOK
      <4>2. buf' \in {<<>>, <<sent + 1>>} /\ sent' \in {sent, sent + 1}
        BY <2>2, Zenon
      <4> QED
        BY <4>1, <4>2, Zenon
    <3>2. part' \in 1..(MaxParts + 1)
      BY <2>1, BoundsAssumption DEF TypeOK
    <3> QED
      BY <2>1, <2>2, <2>5, <3>1, <3>2 DEF TypeOK, Requests
  <2>7. DataInv'
    <3>1. Len(buf') <= MaxPartSize
      <4>1. Len(<<>>) = 0 /\ Len(<<sent + 1>>) = 1
        OBVIOUS
      <4>2. buf' \in {<<>>, <<sent + 1>>}
        BY <2>2, Zenon
      <4>3. Len(buf') \in {0, 1}
        BY <4>1, <4>2, Zenon
      <4>4. \A n \in {0, 1} : n <= MaxPartSize
        BY BoundsAssumption
      <4> QED
        BY <4>3, <4>4, Zenon
    <3>2. ASSUME upload' \in {"none", "open"}
          PROVE  Assemble' \o buf' = Written'
      <4>1. Assemble' = Written
        BY <2>1, <2>3, <2>5, <3>2, DataGrows
      <4>2. CASE closing
        <5>1. buf' = <<>> /\ Written' = Written
          BY <2>2, <4>2 DEF Written
        <5>2. Written \in Seq(Nat)
          BY DEF Written, TypeOK
        <5> QED
          BY <4>1, <5>1, <5>2, ConcatEmptySeq
      <4>3. CASE ~ closing
        <5>1. buf' = <<sent + 1>> /\ Written' = Upto(sent + 1)
          BY <2>2, <4>3 DEF Written, Upto
        <5>2. Upto(sent) \o <<sent + 1>> = Upto(sent + 1)
          BY DEF Upto, TypeOK
        <5> QED
          BY <4>1, <5>1, <5>2 DEF Written, Upto
      <4> QED
        BY <4>2, <4>3
    <3> QED
      BY <3>1, <3>2 DEF DataInv
  <2>8. closing => Written' = Written
    BY <2>2 DEF Written
  <2> QED
    BY <2>1, <2>2, <2>5, <2>6, <2>7, <2>8 DEF ControlInv, CompletedInv, AllOrNothing, ClosePublishes,
       NoOpenUpload
<1>3. CASE Closed \/ Aborted
  <2>1. /\ pc \in {"put", "complete", "abort"} /\ pc \in Requests /\ pc' = "done"
        /\ AttemptEnds("none")
        /\ pc = "abort" => result' = result
        /\ UNCHANGED <<client, buf, sent, part, closing, abortFailed>>
    BY <1>3 DEF Closed, Aborted, Done, Requests
  <2>2. \/ TakesEffect
        \/ /\ pc # "put" /\ upload # "open" /\ UNCHANGED provider
           /\ pc = "complete" => object.present
    BY <2>1, SuccessIsReal
  <2>3. TakesEffect \/ UNCHANGED provider
    BY <2>2
  <2>4. TypeOK' /\ DataInv' /\ PartsWithinLimit' /\ Written' = Written
    BY <2>1, <2>3, ProviderStep, DataKept DEF TypeOK, Requests, PartsWithinLimit, Written
  <2>5. /\ old' = old /\ expired' = expired
        /\ upload' = "none" <=> upload = "none"
        /\ upload' = "completed" => closing /\ object' = Holding(Written)
        /\ object' = old \/ (closing /\ object' = Holding(Written))
    BY <2>1, <2>3, ProviderStep
  <2>6. upload' # "open"
    BY <2>1, <2>2 DEF TakesEffect, Put, Publish, Drop, ControlInv, provider
  <2>7. pc \in {"put", "complete"} => object' = Holding(Written) \/ (expired /\ old.present)
    <3>1. CASE pc = "put"
      BY <2>2, <3>1, PutsAll DEF TakesEffect, Put
    <3>2. CASE pc = "complete" /\ TakesEffect
      BY <3>2, CompletesAll DEF TakesEffect, Publish
    <3>3. CASE pc = "complete" /\ upload # "open" /\ UNCHANGED provider /\ object.present
      <4>1. upload \in {"completed", "gone"}
        BY <3>3 DEF TypeOK, ControlInv
      <4>2. upload = "gone" => expired
        BY <3>3 DEF ControlInv
      <4> QED
        BY <3>3, <4>1, <4>2 DEF CompletedInv, AllOrNothing, provider
    <3> QED
      BY <2>2, <3>1, <3>2, <3>3
  <2> QED
    BY <2>1, <2>4, <2>5, <2>6, <2>7 DEF ControlInv, CompletedInv, AllOrNothing, ClosePublishes,
       NoOpenUpload
<1> QED
  BY <1>1, <1>2, <1>3 DEF Succeeds

\* An attempt fails: it is repeated, or the writer gives up.
LEMMA FailureStep ==
    ASSUME IInv, Retry \/ GiveUp
    PROVE  IInv'
<1> USE DEF IInv
<1>1. /\ pc \in Requests
      /\ TakesEffect \/ UNCHANGED provider
      /\ UNCHANGED <<client, buf, sent, part, closing>>
  BY AttemptEffect DEF Retry, GiveUp
<1>2. /\ object' \in Content /\ old' = old /\ expired' = expired
      /\ stored' \in [1..MaxParts -> Seq(Nat)]
      /\ upload' \in {"none", "open", "completed", "gone"}
      /\ upload' = "none" <=> upload = "none"
      /\ upload' \in {"none", "open"} => upload = upload'
      /\ upload' = "gone" => upload = "gone" \/ pc = "abort"
      /\ upload' = "completed" => closing /\ object' = Holding(Written)
      /\ object' = old \/ (closing /\ object' = Holding(Written))
      /\ PartsWithinLimit'
  BY <1>1, ProviderStep DEF PartsWithinLimit
<1>3. DataInv' /\ Written' = Written
  BY <1>1, DataKept DEF Written
<1>4. CASE Retry
  <2>1. UNCHANGED <<pc, result, abortFailed>>
    BY <1>4 DEF Retry
  <2> QED
    BY <1>1, <1>2, <1>3, <2>1 DEF TypeOK, ControlInv, CompletedInv, AllOrNothing, ClosePublishes,
       NoOpenUpload, Requests
<1>5. CASE GiveUp
  <2>1. \/ pc' = "open" /\ pc # "abort" /\ ~ closing /\ UNCHANGED <<result, abortFailed>>
        \/ pc' = "done" /\ result' = "error" /\ upload = "none"
        \/ pc' = "abort" /\ upload # "none" /\ result' = "error"
        \/ pc' = "done" /\ pc = "abort" /\ abortFailed' /\ result' = result
    BY <1>5 DEF GiveUp, Request, Done, AbortThen, ControlInv
  <2> QED
    BY <1>1, <1>2, <1>3, <2>1 DEF TypeOK, ControlInv, CompletedInv, AllOrNothing, ClosePublishes,
       NoOpenUpload, Requests
<1> QED
  BY <1>4, <1>5

\* The provider drops the upload, or nothing happens.
LEMMA OtherStep ==
    ASSUME IInv, Expire \/ UNCHANGED vars
    PROVE  IInv'
<1> USE DEF IInv
<1>1. CASE Expire
  <2>1. /\ upload = "open" /\ upload' = "gone" /\ expired'
        /\ UNCHANGED <<object, old, stored, client, pc, buf, sent, part, closing, result, abortFailed>>
    BY <1>1 DEF Expire
  <2> QED
    BY <2>1 DEF TypeOK, ControlInv, DataInv, CompletedInv, AllOrNothing, ClosePublishes, Written,
       PartsWithinLimit, NoOpenUpload
<1>2. CASE UNCHANGED vars
  BY <1>2 DEF vars, provider, TypeOK, ControlInv, DataInv, CompletedInv, AllOrNothing, ClosePublishes,
     Written, Assemble, PartsWithinLimit, NoOpenUpload
<1> QED
  BY <1>1, <1>2

\* The invariant holds at all times; the fairness of Spec is not used.
LEMMA IInvAlways == Spec => []IInv
<1>1. IInv /\ [Next]_vars => IInv'
  BY LocalStep, SuccessStep, FailureStep, OtherStep DEF Next, Finished
<1> QED
  BY <1>1, IInvInit, PTL DEF Spec

-----------------------------------------------------------------------------
(* Theorems: for every part size, limit of parts, object size and attempt limit, any client, *)
(* and whatever the provider answers.                                                        *)

\* A reader of the key sees what it held before or all that was written, never a part of it
\* or parts in another order, and nothing new before Close: Complete names every part once
\* and in order, also when uploads were retried.
THEOREM AllOrNothingHolds == Spec => []AllOrNothing
BY IInvAlways, PTL DEF IInv

\* Close returns nil only if the data is there, or the provider had dropped the upload and
\* HEAD found the older object in its place.
THEOREM ClosePublishesHolds == Spec => []ClosePublishes
BY IInvAlways, PTL DEF IInv

\* No part exceeds maxPartSize: partSizeFor's doublings are capped for every part number.
THEOREM PartsWithinLimitHolds == Spec => []PartsWithinLimit
BY IInvAlways, PTL DEF IInv

\* When Close or Abort returns the upload is completed or gone, unless aborting it failed.
THEOREM NoOpenUploadHolds == Spec => []NoOpenUpload
BY IInvAlways, PTL DEF IInv
=============================================================================
